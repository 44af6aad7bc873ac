---------------------------- MODULE StorageProofs ----------------------------
(***************************************************************************)
(* Proofs about Backups, LogRotation, ProjectFiles and ResultCache, for    *)
(* any set of files, logs, projects and keys and any bounds.  While a      *)
(* backup runs, what it owes is not written and is copied part by part     *)
(* (BackupInv); a rotation unlinks a file only when its compressed copy    *)
(* has the lines (LogInv); the creator of a project's first directory      *)
(* alone makes the others (ProjectsInv); an entry has as few no older than *)
(* itself as uses of the cache have passed since its own (EntriesInv,      *)
(* FewNoOlder).                                                            *)
(***************************************************************************)
EXTENDS Backups, LogRotation, ProjectFiles, ResultCache, Ranks, FiniteSetTheorems, WellFoundedInduction, TLAPS

(* Every set of natural numbers that is not empty has a least element.     *)
LEMMA LeastNumber ==
    ASSUME NEW S \in SUBSET Nat, S # {}
    PROVE  \E n \in S : \A m \in S : n <= m
<1> DEFINE R == OpToRel(<, Nat)
<1>1. \A x, y \in Nat : x < y => <<x, y>> \in R
  BY Z3 DEF OpToRel
<1>2. IsWellFoundedOn(R, Nat)
  BY NatLessThanWellFounded
<1> HIDE DEF R
<1>3. PICK n \in S : \A m \in S : <<m, n>> \notin R
  BY <1>2, WFMin
<1>4. ASSUME NEW m \in S PROVE n <= m
  <2>1. ~(m < n)
    BY <1>1, <1>3
  <2> QED
    BY <2>1
<1> QED
  BY <1>4

(* Of the natural numbers up to a bound, one that has a property has a     *)
(* greatest before it.                                                     *)
LEMMA GreatestUpTo ==
    ASSUME NEW n \in Nat, NEW S \in SUBSET (0..n), S # {}
    PROVE  \E m \in S : \A k \in S : k <= m
<1>1. PICK D : D = {n - k : k \in S}
  OBVIOUS
<1>2. D \in SUBSET Nat /\ D # {}
  <2>1. \A k \in S : n - k \in Nat
    OBVIOUS
  <2>2. D \subseteq Nat
    BY <1>1, <2>1
  <2>3. PICK k : k \in S
    OBVIOUS
  <2>4. n - k \in D
    BY <1>1, <2>3
  <2> QED
    BY <2>2, <2>4
<1>3. PICK d \in D : \A e \in D : d <= e
  BY <1>2, LeastNumber
<1>4. PICK m \in S : d = n - m
  BY <1>1, <1>3
<1>5. ASSUME NEW k \in S PROVE k <= m
  <2>1. n - k \in D
    BY <1>1
  <2>2. n - m <= n - k
    BY <1>3, <1>4, <2>1
  <2> QED
    BY <2>2
<1> QED
  BY <1>5

(* A set that has a number whenever it has those before it has all.        *)
LEMMA NumbersReached ==
    ASSUME NEW n \in Nat, NEW S, \A k \in 0..n : (\A j \in 0..(k - 1) : j \in S) => k \in S
    PROVE  \A k \in 0..n : k \in S
<1> SUFFICES ASSUME NEW b \in 0..n, b \notin S PROVE FALSE
  OBVIOUS
<1>1. PICK bad : bad = {k \in 0..n : k \notin S}
  OBVIOUS
<1>2. bad \in SUBSET Nat /\ bad # {}
  BY <1>1
<1>3. PICK m \in bad : \A k \in bad : m <= k
  BY <1>2, LeastNumber
<1>4. m \in 0..n /\ m \notin S
  BY <1>1
<1>5. \A j \in 0..(m - 1) : j \in S
  BY <1>1, <1>3, <1>4
<1> QED
  BY <1>4, <1>5

\* A function on 0..n whose values are given on B and made of earlier values elsewhere.
Builds(g, n, B, base, prev, step) ==
    \A k \in 0..n : g[k] = IF k \in B THEN base[k] ELSE step[k][g[prev[k]]]

(* A function defined by recursion exists: there is no least bound up to   *)
(* which it does not.                                                      *)
LEMMA RecursionExists ==
    ASSUME NEW n \in Nat, NEW T, NEW B, NEW base, NEW prev, NEW step,
           \A k \in 0..n : k \in B => base[k] \in T,
           \A k \in 0..n : k \notin B => prev[k] \in 0..(k - 1) /\ step[k] \in [T -> T]
    PROVE  \E g \in [0..n -> T] : Builds(g, n, B, base, prev, step)
<1> SUFFICES ASSUME ~ \E g \in [0..n -> T] : Builds(g, n, B, base, prev, step)
             PROVE  FALSE
  OBVIOUS
<1>1. PICK bad : bad = {m \in 0..n : ~ \E g \in [0..m -> T] : Builds(g, m, B, base, prev, step)}
  OBVIOUS
<1>2. bad \in SUBSET Nat /\ n \in bad
  BY <1>1
<1>3. PICK m \in bad : \A k \in bad : m <= k
  BY <1>2, LeastNumber
<1>4. m \in 0..n /\ m \in Nat
  BY <1>1
<1>5. 0 \in B /\ base[0] \in T
  <2>1. 0 \in 0..n /\ 0..(0 - 1) = {}
    OBVIOUS
  <2> QED
    BY <2>1
<1>6. CASE m = 0
  <2>1. PICK g : g = [k \in 0..0 |-> base[0]]
    OBVIOUS
  <2>2. g \in [0..m -> T] /\ Builds(g, m, B, base, prev, step)
    BY <1>5, <1>6, <2>1 DEF Builds
  <2> QED
    BY <1>1, <2>2
<1>7. CASE m # 0
  <2>1. m - 1 \in 0..n /\ m - 1 \notin bad
    BY <1>3, <1>4, <1>7
  <2>2. PICK g \in [0..(m - 1) -> T] : Builds(g, m - 1, B, base, prev, step)
    BY <1>1, <2>1
  <2>3. PICK v \in T : v = IF m \in B THEN base[m] ELSE step[m][g[prev[m]]]
    <3>1. CASE m \in B
      BY <1>4, <3>1
    <3>2. CASE m \notin B
      BY <1>4, <2>2, <3>2
    <3> QED
      BY <3>1, <3>2
  <2>4. PICK h : h = [k \in 0..m |-> IF k = m THEN v ELSE g[k]]
    OBVIOUS
  <2>5. h \in [0..m -> T]
    BY <1>4, <2>4
  <2>6. ASSUME NEW k \in 0..m PROVE h[k] = IF k \in B THEN base[k] ELSE step[k][h[prev[k]]]
    <3>1. CASE k \in B
      BY <1>4, <2>2, <2>3, <2>4, <3>1 DEF Builds
    <3>2. CASE k \notin B
      <4>1. prev[k] \in 0..(k - 1)
        BY <1>4, <3>2
      <4>2. h[prev[k]] = g[prev[k]]
        BY <1>4, <2>4, <4>1
      <4> QED
        BY <1>4, <2>2, <2>3, <2>4, <3>2, <4>2 DEF Builds
    <3> QED
      BY <3>1, <3>2
  <2> QED
    BY <1>1, <2>5, <2>6 DEF Builds
<1> QED
  BY <1>6, <1>7

\* An element of a set.
PickIn(S) == CHOOSE c \in S : TRUE

\* Of each set of elements of K one is such that agreeing without it suffices.
Inherits(K, f, g) ==
    \A cs \in SUBSET K : cs # {} => \E x \in cs : f[cs \ {x}] = g[cs \ {x}] => f[cs] = g[cs]

(* Two functions on the subsets of a finite set agree when they do on the  *)
(* empty set and each set has an element without which agreeing suffices.  *)
LEMMA SubsetsAgree ==
    ASSUME NEW K, IsFiniteSet(K), NEW f, NEW g, f[{}] = g[{}], Inherits(K, f, g)
    PROVE  \A cs \in SUBSET K : f[cs] = g[cs]
<1> SUFFICES ASSUME NEW bad \in SUBSET K, f[bad] # g[bad] PROVE FALSE
  OBVIOUS
<1>1. PICK Sizes : Sizes = {Cardinality(cs) : cs \in {c \in SUBSET K : f[c] # g[c]}}
  OBVIOUS
<1>2. \A cs \in SUBSET K : IsFiniteSet(cs) /\ Cardinality(cs) \in Nat
  BY FS_Subset, FS_CardinalityType
<1>3. Sizes \in SUBSET Nat /\ Sizes # {}
  BY <1>1, <1>2
<1>4. PICK n \in Sizes : \A m \in Sizes : n <= m
  BY <1>3, LeastNumber
<1>5. PICK cs \in SUBSET K : f[cs] # g[cs] /\ Cardinality(cs) = n
  BY <1>1
<1>6. PICK x \in cs : f[cs \ {x}] = g[cs \ {x}] => f[cs] = g[cs]
  <2>1. cs # {}
    BY <1>5
  <2> QED
    BY <2>1 DEF Inherits
<1>7. PICK rest : rest = cs \ {x}
  OBVIOUS
<1>8. Cardinality(rest) = n - 1 /\ n \in Nat
  BY <1>2, <1>5, <1>7, FS_RemoveElement
<1>9. Cardinality(rest) \in Sizes
  BY <1>1, <1>5, <1>6, <1>7
<1> QED
  BY <1>4, <1>8, <1>9

(* The elements of a finite set of numbers are its first, second and so on *)
(* to the last.                                                            *)
LEMMA NumbersInOrder ==
    ASSUME NEW N \in SUBSET Nat, IsFiniteSet(N)
    PROVE  /\ Cardinality(N) \in Nat
           /\ \A k \in 1..Cardinality(N) : Nth(N, k) \in N /\ Cardinality({j \in N : j <= Nth(N, k)}) = k
           /\ \A i \in N : \E k \in 1..Cardinality(N) : Nth(N, k) = i
<1> DEFINE UpTo(i) == {j \in N : j <= i}
<1>1. PICK n : n = Cardinality(N)
  OBVIOUS
<1>2. n \in Nat /\ IsFiniteSet(1..n) /\ Cardinality(1..n) = n
  BY <1>1, FS_CardinalityType, FS_Interval
<1>3. ASSUME NEW i \in N PROVE IsFiniteSet(UpTo(i)) /\ Cardinality(UpTo(i)) \in 1..n
  <2>1. IsFiniteSet(UpTo(i)) /\ Cardinality(UpTo(i)) <= n
    BY <1>1, FS_Subset
  <2>2. UpTo(i) # {}
    OBVIOUS
  <2>3. Cardinality(UpTo(i)) # 0 /\ Cardinality(UpTo(i)) \in Nat
    BY <2>1, <2>2, FS_EmptySet, FS_CardinalityType
  <2> HIDE DEF UpTo
  <2> QED
    BY <1>2, <2>1, <2>3
<1>4. ASSUME NEW i \in N, NEW j \in N, i < j PROVE Cardinality(UpTo(i)) # Cardinality(UpTo(j))
  <2>1. UpTo(i) \subseteq UpTo(j) /\ j \in UpTo(j) /\ j \notin UpTo(i)
    <3>1. i \in Nat /\ j \in Nat /\ ~ (j <= i) /\ j <= j
      BY <1>4
    <3>2. \A m \in N : m \in Nat /\ (m <= i => m <= j)
      BY <1>4, <3>1
    <3> QED
      BY <3>1, <3>2
  <2>2. UpTo(i) # UpTo(j)
    BY <2>1
  <2>3. IsFiniteSet(UpTo(j))
    BY <1>3
  <2> HIDE DEF UpTo
  <2> QED
    BY <2>1, <2>2, <2>3, FS_Subset
<1> HIDE DEF UpTo
<1>5. \A i, j \in N : Cardinality(UpTo(i)) = Cardinality(UpTo(j)) => i = j
  <2> SUFFICES ASSUME NEW i \in N, NEW j \in N, Cardinality(UpTo(i)) = Cardinality(UpTo(j)) PROVE i = j
    OBVIOUS
  <2>1. ~ (i < j) /\ ~ (j < i)
    BY <1>4
  <2> QED
    BY <2>1
<1>6. PICK rank : rank = [i \in N |-> Cardinality(UpTo(i))]
  OBVIOUS
<1>7. rank \in Injection(N, 1..n)
  BY <1>3, <1>5, <1>6 DEF Injection, IsInjective
<1>8. rank \in Surjection(N, 1..n)
  BY <1>1, <1>2, <1>7, FS_Injection
<1>9. \A k \in 1..n : \E i \in N : Cardinality(UpTo(i)) = k
  BY <1>6, <1>8 DEF Surjection
<1>10. \A k : Nth(N, k) = CHOOSE i \in N : Cardinality(UpTo(i)) = k
  BY DEF Nth, UpTo
<1>11. ASSUME NEW k \in 1..n PROVE Nth(N, k) \in N /\ Cardinality(UpTo(Nth(N, k))) = k
  BY <1>9, <1>10
<1>12. ASSUME NEW i \in N PROVE \E k \in 1..n : Nth(N, k) = i
  <2>1. PICK k \in 1..n : k = Cardinality(UpTo(i))
    BY <1>3
  <2> QED
    BY <1>5, <1>11, <2>1
<1> QED
  BY <1>1, <1>2, <1>11, <1>12 DEF UpTo

(* They ascend.                                                            *)
LEMMA NumbersAscend ==
    ASSUME NEW N \in SUBSET Nat, IsFiniteSet(N), NEW i \in 1..Cardinality(N), NEW k \in 1..Cardinality(N), i < k
    PROVE  Nth(N, i) < Nth(N, k)
<1>1. /\ Nth(N, i) \in N /\ Cardinality({j \in N : j <= Nth(N, i)}) = i
      /\ Nth(N, k) \in N /\ Cardinality({j \in N : j <= Nth(N, k)}) = k
  BY NumbersInOrder
<1>2. PICK p, q, P, Q : /\ p = Nth(N, i) /\ q = Nth(N, k)
                        /\ P = {j \in N : j <= p} /\ Q = {j \in N : j <= q}
  OBVIOUS
<1>3. p \in N /\ q \in N /\ Cardinality(P) = i /\ Cardinality(Q) = k
  BY <1>1, <1>2
<1>4. ASSUME q <= p PROVE FALSE
  <2>0. \A m \in N : m \in Nat /\ (m <= q => m <= p)
    <3>1. p \in Nat /\ q \in Nat /\ N \subseteq Nat
      BY <1>3
    <3> QED
      BY ONLY <3>1, <1>4
  <2>1. Q \subseteq P
    BY <1>2, <2>0
  <2>2. IsFiniteSet(P)
    BY <1>2, FS_Subset
  <2>3. Cardinality(Q) <= Cardinality(P)
    BY ONLY <2>1, <2>2, FS_Subset
  <2> QED
    BY <1>3, <2>3
<1> QED
  BY <1>2, <1>3, <1>4

(* The elements of a finite set under an order have the ranks 1, 2 and so  *)
(* on, each one of them, and what comes before has the smaller rank.       *)
Orders(Up, H) ==
    /\ \A g \in H : <<g, g>> \in Up
    /\ \A f, g, h \in H : <<f, g>> \in Up /\ <<g, h>> \in Up => <<f, h>> \in Up
    /\ \A g, h \in H : <<g, h>> \in Up \/ <<h, g>> \in Up
    /\ \A g, h \in H : <<g, h>> \in Up /\ <<h, g>> \in Up => g = h

RankUnder(Up, H, h) == Cardinality({g \in H : <<g, h>> \in Up})

(* Every rank of a finite order is taken, and ranks are in its order.      *)
LEMMA RankedInOrder ==
    ASSUME NEW H, IsFiniteSet(H), NEW Up, Orders(Up, H)
    PROVE  /\ \A n \in 1..Cardinality(H) : \E h \in H : RankUnder(Up, H, h) = n
           /\ \A g, h \in H : <<g, h>> \in Up /\ g # h => RankUnder(Up, H, g) < RankUnder(Up, H, h)
<1>0. /\ \A g \in H : <<g, g>> \in Up
      /\ \A f, g, h \in H : <<f, g>> \in Up /\ <<g, h>> \in Up => <<f, h>> \in Up
      /\ \A g, h \in H : <<g, h>> \in Up \/ <<h, g>> \in Up
      /\ \A g, h \in H : <<g, h>> \in Up /\ <<h, g>> \in Up => g = h
  BY DEF Orders
<1> DEFINE Before(h) == {g \in H : <<g, h>> \in Up}
<1>1. PICK n : n = Cardinality(H)
  OBVIOUS
<1>2. n \in Nat /\ IsFiniteSet(1..n) /\ Cardinality(1..n) = n
  BY <1>1, FS_CardinalityType, FS_Interval
<1>3. ASSUME NEW h \in H PROVE IsFiniteSet(Before(h)) /\ Cardinality(Before(h)) \in 1..n
  <2>1. IsFiniteSet(Before(h)) /\ Cardinality(Before(h)) <= n
    BY <1>1, FS_Subset
  <2>2. h \in Before(h)
    BY <1>0
  <2>3. Cardinality(Before(h)) # 0 /\ Cardinality(Before(h)) \in Nat
    BY <2>1, <2>2, FS_EmptySet, FS_CardinalityType
  <2> HIDE DEF Before
  <2> QED
    BY <1>2, <2>1, <2>3
<1>4. ASSUME NEW g \in H, NEW h \in H, <<g, h>> \in Up, g # h PROVE Cardinality(Before(g)) < Cardinality(Before(h))
  <2>1. Before(g) \subseteq Before(h)
    BY <1>0, <1>4
  <2>2. h \in Before(h) /\ h \notin Before(g)
    BY <1>0, <1>4
  <2>3. IsFiniteSet(Before(h)) /\ Cardinality(Before(h)) \in 1..n /\ Cardinality(Before(g)) \in 1..n
    BY <1>3
  <2> HIDE DEF Before
  <2>4. /\ Cardinality(Before(g)) <= Cardinality(Before(h))
        /\ Cardinality(Before(g)) # Cardinality(Before(h))
    BY <2>1, <2>2, <2>3, FS_Subset
  <2> QED
    BY <1>2, <2>3, <2>4
<1> HIDE DEF Before
<1>5. \A g, h \in H : Cardinality(Before(g)) = Cardinality(Before(h)) => g = h
  <2> SUFFICES ASSUME NEW g \in H, NEW h \in H, Cardinality(Before(g)) = Cardinality(Before(h)), g # h PROVE FALSE
    OBVIOUS
  <2>1. Cardinality(Before(g)) \in 1..n /\ Cardinality(Before(h)) \in 1..n
    BY <1>3
  <2>2. Cardinality(Before(g)) < Cardinality(Before(h)) \/ Cardinality(Before(h)) < Cardinality(Before(g))
    BY <1>0, <1>4
  <2> QED
    BY <1>2, <2>1, <2>2
<1>6. PICK place : place = [h \in H |-> Cardinality(Before(h))]
  OBVIOUS
<1>7. place \in Injection(H, 1..n)
  BY <1>3, <1>5, <1>6 DEF Injection, IsInjective
<1>8. place \in Surjection(H, 1..n)
  BY <1>1, <1>2, <1>7, FS_Injection
<1>9. \A k \in 1..n : \E h \in H : Cardinality(Before(h)) = k
  BY <1>6, <1>8 DEF Surjection
<1> QED
  BY <1>1, <1>4, <1>9 DEF Before, RankUnder

(* The elements of a sequence at some places are elements at these places. *)
LEMMA ElementsPicked ==
    ASSUME NEW seq, NEW n \in Nat, DOMAIN seq = 1..n, NEW P \in SUBSET (1..n)
    PROVE  /\ Cardinality(P) \in Nat /\ Cardinality(P) <= n
           /\ DOMAIN ElementsAt(seq, P) = 1..Cardinality(P) /\ Len(ElementsAt(seq, P)) = Cardinality(P)
           /\ \A k \in 1..Cardinality(P) : \E i \in P : ElementsAt(seq, P)[k] = seq[i]
           /\ \A i \in P : \E k \in 1..Cardinality(P) : ElementsAt(seq, P)[k] = seq[i]
<1>1. IsFiniteSet(1..n) /\ Cardinality(1..n) = n
  BY FS_Interval
<1>2. IsFiniteSet(P) /\ Cardinality(P) <= n
  <2>1. PICK S : S = 1..n
    OBVIOUS
  <2>2. IsFiniteSet(S) /\ Cardinality(S) = n /\ P \in SUBSET S
    BY <1>1, <2>1
  <2> QED
    BY ONLY <2>2, FS_Subset
<1>3. P \in SUBSET Nat
  OBVIOUS
<1>4. PICK m, picked : m = Cardinality(P) /\ picked = ElementsAt(seq, P)
  OBVIOUS
<1>5. /\ m \in Nat
      /\ \A k \in 1..m : Nth(P, k) \in P
      /\ \A i \in P : \E k \in 1..m : Nth(P, k) = i
  BY <1>2, <1>3, <1>4, NumbersInOrder
<1>6. picked = [k \in 1..m |-> seq[Nth(P, k)]]
  BY <1>4 DEF ElementsAt
<1>7. DOMAIN picked = 1..m /\ Len(picked) = m
  BY <1>5, <1>6
<1>8. \A k \in 1..m : \E i \in P : picked[k] = seq[i]
  BY <1>5, <1>6
<1>9. \A i \in P : \E k \in 1..m : picked[k] = seq[i]
  BY <1>5, <1>6
<1> QED
  BY <1>2, <1>4, <1>5, <1>7, <1>8, <1>9
-----------------------------------------------------------------------------
(* Log rotation.                                                           *)
LogFiles == [base : LogNames, stamps : Seq(Nat), kind : {"log", "gz"}]

LogsTyped ==
    /\ DOMAIN logs \subseteq LogFiles
    /\ \A f \in DOMAIN logs : /\ logs[f].lines \subseteq 1..lines
                              /\ logs[f].touched \in 0..second
    /\ lines \in Nat /\ second \in Nat
    /\ rotating.at \in {"none", "compress", "unlink", "touch"}

\* A rotation works on a name that no active log has, and it is about to
\* unlink only what is compressed.
RotationSound ==
    /\ rotating.at # "none" =>
          /\ rotating.from \in LogFiles /\ rotating.to \in LogFiles
          /\ rotating.to.stamps # <<>> /\ rotating.to.kind = "log"
    /\ \A to \in LogFiles : rotating.at = "unlink" /\ rotating.to = to
           => LinesIn(to) \subseteq LinesIn(Compressed(to))

LogInv == LogsTyped /\ RotationSound /\ LinesAreKept

(* The names of active, rotated and compressed files differ.               *)
LEMMA LogNamesDiffer ==
    ASSUME NEW f \in LogFiles, NEW s \in Nat
    PROVE  /\ Append(f.stamps, s) \in Seq(Nat) /\ Append(f.stamps, s) # <<>>
           /\ [f EXCEPT !.stamps = Append(@, s)] \in LogFiles
           /\ [f EXCEPT !.stamps = Append(@, s)].stamps # <<>>
           /\ [f EXCEPT !.stamps = Append(@, s)].kind = f.kind
           /\ \A n \in LogNames : /\ Active(n) \in LogFiles
                                  /\ Active(n).stamps = <<>> /\ Active(n).kind = "log"
<1>1. f.stamps \in Seq(Nat) /\ f.base \in LogNames /\ f.kind \in {"log", "gz"}
  BY DEF LogFiles
<1>2. Append(f.stamps, s) \in Seq(Nat) /\ Append(f.stamps, s) # <<>>
  BY <1>1
<1>3. /\ [f EXCEPT !.stamps = Append(@, s)] \in LogFiles
      /\ [f EXCEPT !.stamps = Append(@, s)].stamps = Append(f.stamps, s)
      /\ [f EXCEPT !.stamps = Append(@, s)].kind = f.kind
  BY <1>2 DEF LogFiles
<1>5. \A n \in LogNames : /\ Active(n) \in LogFiles
                          /\ Active(n).stamps = <<>> /\ Active(n).kind = "log"
  BY DEF LogFiles, Active
<1> QED
  BY <1>2, <1>3, <1>5

(* A compressed file has the lines of the one it was made from.            *)
LEMMA CompressedFile ==
    ASSUME NEW f \in LogFiles
    PROVE  Compressed(f) \in LogFiles /\ Compressed(f).kind = "gz"
  BY DEF LogFiles, Compressed

(* No log has been rotated at the start.                                   *)
THEOREM LogInitially == LogInit => LogInv
<1> SUFFICES ASSUME LogInit PROVE LogInv
  OBVIOUS
<1>1. \A n \in LogNames : Active(n) \in LogFiles
  BY DEF LogFiles, Active
<1>2. LogsTyped
  BY <1>1 DEF LogInit, LogsTyped, NoRotation
<1>3. RotationSound
  BY DEF LogInit, RotationSound, NoRotation
<1>4. LinesAreKept
  BY DEF LogInit, LinesAreKept
<1> QED
  BY <1>2, <1>3, <1>4 DEF LogInv

(* The lines that some file has.                                           *)
LinesHeld == UNION {logs[f].lines : f \in DOMAIN logs}

(* What a step promises: the invariant's shape, and that every line of a   *)
(* file is still held, was overwritten, or was removed for its age.        *)
LogStepKeeps ==
    /\ LogsTyped' /\ RotationSound'
    /\ lines' = lines \/ (lines' = lines + 1 /\ lines' \in LinesHeld')
    /\ overwritten \subseteq overwritten' /\ removedOld \subseteq removedOld'
    /\ \A f \in DOMAIN logs :
          \/ logs[f].lines \subseteq LinesHeld' \cup overwritten'
          \/ logs[f].lines \subseteq removedOld' /\ second - logs[f].touched > LogKept

(* A line written goes to the active file.                                 *)
LEMMA WriteLineKeeps ==
    ASSUME LogInv, NEW n \in LogNames, WriteLine(n)
    PROVE  LogStepKeeps
<1> DEFINE a == Active(n)
           L == LinesIn(a) \cup {lines + 1}
<1>0. LogsTyped /\ RotationSound
  BY DEF LogInv
<1>1. a \in LogFiles /\ a.stamps = <<>> /\ a.kind = "log"
  BY DEF LogFiles, Active
<1>2. /\ lines' = lines + 1 /\ logs' = PutLog(logs, a, L)
      /\ UNCHANGED <<rotating, second, removedOld, overwritten>>
  BY DEF WriteLine
<1>3. LinesIn(a) \subseteq 1..lines
  BY <1>0 DEF LinesIn, LogsTyped
<1> HIDE DEF a, L
<1>4. /\ DOMAIN logs' = DOMAIN logs \cup {a}
      /\ logs'[a].lines = L /\ logs'[a].touched = second
      /\ \A g \in DOMAIN logs \ {a} : logs'[g] = logs[g]
  BY <1>2 DEF PutLog
<1>5. L \subseteq 1..lines' /\ LinesIn(a) \subseteq L /\ lines + 1 \in L
  <2>1. lines \in Nat
    BY <1>0 DEF LogsTyped
  <2>2. \A k \in 1..lines : k \in 1..(lines + 1)
    BY <2>1
  <2>3. lines + 1 \in 1..(lines + 1)
    BY <2>1
  <2> QED
    BY <1>2, <1>3, <2>2, <2>3 DEF L
<1>6. LogsTyped'
  <2>1. lines \in Nat /\ second \in Nat /\ lines' \in Nat
    BY <1>0, <1>2 DEF LogsTyped
  <2>2. ASSUME NEW f \in DOMAIN logs'
        PROVE  f \in LogFiles /\ logs'[f].lines \subseteq 1..lines' /\ logs'[f].touched \in 0..second
    <3>1. CASE f = a
      <4>1. logs'[f].lines = L /\ logs'[f].touched = second
        BY <1>4, <3>1
      <4> QED
        BY <1>1, <1>5, <2>1, <3>1, <4>1
    <3>2. CASE f # a
      <4>1. f \in DOMAIN logs /\ logs'[f] = logs[f]
        BY <1>4, <3>2
      <4>2. f \in LogFiles /\ logs[f].lines \subseteq 1..lines /\ logs[f].touched \in 0..second
        BY <1>0, <4>1 DEF LogsTyped
      <4>3. \A k \in 1..lines : k \in 1..lines'
        BY <1>2, <2>1
      <4> QED
        BY <4>1, <4>2, <4>3
    <3> QED
      BY <3>1, <3>2
  <2> QED
    BY <1>0, <1>2, <2>1, <2>2 DEF LogsTyped
<1>7. \A f \in LogFiles : f # a => LinesIn(f)' = LinesIn(f)
  BY <1>4 DEF LinesIn
<1>8. LinesIn(a) \subseteq LinesIn(a)'
  BY <1>4, <1>5 DEF LinesIn
<1>9. RotationSound'
  <2>1. ASSUME NEW to \in LogFiles, rotating.at = "unlink", rotating.to = to
        PROVE  LinesIn(to)' \subseteq LinesIn(Compressed(to))'
    <3>1. to # a /\ LinesIn(to) \subseteq LinesIn(Compressed(to))
      BY <1>0, <1>1, <2>1 DEF RotationSound
    <3>2. Compressed(to) \in LogFiles /\ Compressed(to) # a
      BY <1>1, CompressedFile
    <3> QED
      BY <1>7, <3>1, <3>2
  <2> QED
    BY <1>0, <1>2, <2>1 DEF RotationSound
<1>10. lines' \in LinesHeld'
  BY <1>2, <1>4, <1>5 DEF LinesHeld
<1>11. ASSUME NEW f \in DOMAIN logs PROVE logs[f].lines \subseteq LinesHeld'
  <2>1. logs[f].lines \subseteq logs'[f].lines /\ f \in DOMAIN logs'
    BY <1>4, <1>5 DEF LinesIn
  <2> QED
    BY <2>1 DEF LinesHeld
<1> QED
  BY <1>2, <1>6, <1>9, <1>10, <1>11 DEF LogStepKeeps

(* A step that writes no line and dates the files it makes now.            *)
LEMMA FilesTyped ==
    ASSUME LogsTyped, lines' = lines, second' = second,
           rotating'.at \in {"none", "compress", "unlink", "touch"},
           \A f \in DOMAIN logs' :
              \/ f \in DOMAIN logs /\ logs'[f] = logs[f]
              \/ f \in LogFiles /\ logs'[f].lines \subseteq 1..lines /\ logs'[f].touched = second
    PROVE  LogsTyped'
  BY DEF LogsTyped

(* The lines in files are lines that were written.                         *)
LEMMA LinesInTyped ==
    ASSUME LogsTyped, NEW f
    PROVE  LinesIn(f) \subseteq 1..lines
<1>1. CASE f \in DOMAIN logs
  BY <1>1 DEF LinesIn, LogsTyped
<1>2. CASE f \notin DOMAIN logs
  BY <1>2 DEF LinesIn
<1> QED
  BY <1>1, <1>2

(* Time passes, and the files stay.                                        *)
LEMMA SecondPassesKeeps ==
    ASSUME LogInv, SecondPasses
    PROVE  LogStepKeeps
<1>1. /\ LogsTyped /\ RotationSound /\ second' = second + 1
      /\ UNCHANGED <<logs, rotating, lines, removedOld, overwritten>>
  BY DEF LogInv, SecondPasses
<1>2. LogsTyped'
  BY <1>1 DEF LogsTyped
<1>3. RotationSound'
  BY <1>1 DEF RotationSound, LinesIn
<1>4. LinesHeld' = LinesHeld /\ \A f \in DOMAIN logs : logs[f].lines \subseteq LinesHeld
  BY <1>1 DEF LinesHeld
<1> QED
  BY <1>1, <1>2, <1>3, <1>4 DEF LogStepKeeps

(* The active file gets a name with the second in it.                      *)
LEMMA RenameKeeps ==
    ASSUME LogInv, NEW f \in DOMAIN logs, Rename(f)
    PROVE  LogStepKeeps
<1>0. LogsTyped /\ RotationSound
  BY DEF LogInv
<1>1. PICK r \in LogFiles : r = Rotated(f) /\ r.stamps # <<>> /\ r.kind = "log"
  <2>1. f \in LogFiles /\ second \in Nat /\ f.kind = "log"
    BY <1>0 DEF LogsTyped, Rename
  <2> QED
    BY <2>1, LogNamesDiffer DEF Rotated
<1>2. /\ overwritten' = overwritten \cup LinesIn(r)
      /\ logs' = PutLog(Dropped(logs, f), r, logs[f].lines)
      /\ rotating' = [at |-> IF Compressing THEN "compress" ELSE "touch", from |-> f, to |-> r]
      /\ UNCHANGED <<second, lines, removedOld>>
  BY <1>1 DEF Rename
<1>3. /\ DOMAIN logs' = (DOMAIN logs \ {f}) \cup {r}
      /\ logs'[r].lines = logs[f].lines /\ logs'[r].touched = second
      /\ \A g \in DOMAIN logs \ {f, r} : logs'[g] = logs[g]
  BY <1>2 DEF PutLog, Dropped
<1>4. rotating'.at \in {"compress", "touch"} /\ rotating'.from = f /\ rotating'.to = r
  BY <1>2
<1>5. f \in LogFiles /\ logs[f].lines \subseteq 1..lines
  BY <1>0 DEF LogsTyped
<1>6. LogsTyped'
  BY <1>0, <1>1, <1>2, <1>3, <1>4, <1>5, FilesTyped
<1>7. RotationSound'
  BY <1>1, <1>4, <1>5 DEF RotationSound
<1>8. ASSUME NEW g \in DOMAIN logs PROVE logs[g].lines \subseteq LinesHeld' \cup overwritten'
  <2>1. CASE g = f
    BY <1>3, <2>1 DEF LinesHeld
  <2>2. CASE g = r
    BY <1>2, <2>2 DEF LinesIn
  <2>3. CASE g # f /\ g # r
    <3>1. g \in DOMAIN logs' /\ logs'[g] = logs[g]
      BY <1>3, <2>3
    <3> QED
      BY <3>1 DEF LinesHeld
  <2> QED
    BY <2>1, <2>2, <2>3
<1> QED
  BY <1>2, <1>6, <1>7, <1>8 DEF LogStepKeeps

(* The copy has the lines before the file is unlinked.                     *)
LEMMA CompressKeeps ==
    ASSUME LogInv, Compress
    PROVE  LogStepKeeps
<1>0. LogsTyped /\ RotationSound
  BY DEF LogInv
<1>1. PICK r \in LogFiles : r = rotating.to /\ r.stamps # <<>> /\ r.kind = "log"
  BY <1>0 DEF RotationSound, Compress
<1>2. PICK c \in LogFiles : c = Compressed(r) /\ c.kind = "gz"
  BY CompressedFile
<1>3. /\ overwritten' = overwritten \cup (LinesIn(c) \ LinesIn(r))
      /\ logs' = PutLog(logs, c, LinesIn(r))
      /\ rotating' = [rotating EXCEPT !.at = "unlink"]
      /\ rotating.at = "compress"
      /\ UNCHANGED <<second, lines, removedOld>>
  BY <1>1, <1>2 DEF Compress
<1>4. c # r
  BY <1>1, <1>2
<1>5. /\ DOMAIN logs' = DOMAIN logs \cup {c}
      /\ logs'[c].lines = LinesIn(r) /\ logs'[c].touched = second
      /\ \A g \in DOMAIN logs \ {c} : logs'[g] = logs[g]
  BY <1>3 DEF PutLog
<1>6. /\ rotating'.at \in {"unlink", "compress"}
      /\ rotating'.from = rotating.from /\ rotating'.to = rotating.to
  BY <1>3
<1>7. LinesIn(r) \subseteq 1..lines
  BY <1>0, LinesInTyped
<1>8. LogsTyped'
  BY <1>0, <1>3, <1>5, <1>6, <1>7, FilesTyped
<1>9. RotationSound'
  <2>1. LinesIn(r)' = LinesIn(r) /\ LinesIn(c)' = LinesIn(r)
    BY <1>4, <1>5 DEF LinesIn
  <2>2. \A to \in LogFiles : rotating'.to = to => LinesIn(to)' \subseteq LinesIn(Compressed(to))'
    BY <1>1, <1>2, <1>6, <2>1
  <2> QED
    BY <1>0, <1>1, <1>3, <1>6, <2>2 DEF RotationSound
<1>10. ASSUME NEW g \in DOMAIN logs PROVE logs[g].lines \subseteq LinesHeld' \cup overwritten'
  <2>1. CASE g = c
    <3>1. LinesIn(c) = logs[c].lines /\ LinesIn(r) \subseteq LinesHeld'
      BY <1>5, <2>1 DEF LinesIn, LinesHeld
    <3> QED
      BY <1>3, <2>1, <3>1
  <2>2. CASE g # c
    <3>1. g \in DOMAIN logs' /\ logs'[g] = logs[g]
      BY <1>5, <2>2
    <3> QED
      BY <3>1 DEF LinesHeld
  <2> QED
    BY <2>1, <2>2
<1> QED
  BY <1>3, <1>8, <1>9, <1>10 DEF LogStepKeeps

(* The file goes, its compressed copy stays.                               *)
LEMMA UnlinkKeeps ==
    ASSUME LogInv, Unlink
    PROVE  LogStepKeeps
<1>0. LogsTyped /\ RotationSound
  BY DEF LogInv
<1>1. PICK r \in LogFiles : r = rotating.to /\ r.stamps # <<>> /\ r.kind = "log"
  BY <1>0 DEF RotationSound, Unlink
<1>2. PICK c \in LogFiles : c = Compressed(r) /\ c.kind = "gz"
  BY CompressedFile
<1>3. /\ logs' = Dropped(logs, r)
      /\ rotating' = [rotating EXCEPT !.at = "touch"] /\ rotating.at = "unlink"
      /\ UNCHANGED <<second, lines, removedOld, overwritten>>
  BY <1>1 DEF Unlink
<1>4. DOMAIN logs' = DOMAIN logs \ {r} /\ \A g \in DOMAIN logs \ {r} : logs'[g] = logs[g]
  BY <1>3 DEF Dropped
<1>5. /\ rotating'.at \in {"unlink", "touch"} /\ rotating'.at # "unlink"
      /\ rotating'.from = rotating.from /\ rotating'.to = rotating.to
  <2>1. rotating'.at = "touch" \/ rotating'.at = rotating.at
    BY <1>3
  <2>2. rotating'.from = rotating.from /\ rotating'.to = rotating.to
    BY <1>3
  <2> QED
    BY <1>3, <2>1, <2>2
<1>6. LogsTyped'
  BY <1>0, <1>3, <1>4, <1>5, FilesTyped
<1>7. RotationSound'
  BY <1>0, <1>3, <1>5 DEF RotationSound
<1>8. ASSUME NEW g \in DOMAIN logs PROVE logs[g].lines \subseteq LinesHeld'
  <2>1. CASE g = r
    <3>1. LinesIn(r) \subseteq LinesIn(c) /\ LinesIn(r) = logs[g].lines
      BY <1>0, <1>1, <1>2, <1>3, <2>1 DEF RotationSound, LinesIn
    <3>2. LinesIn(c) \subseteq LinesHeld'
      BY <1>1, <1>2, <1>4 DEF LinesIn, LinesHeld
    <3> QED
      BY <3>1, <3>2
  <2>2. CASE g # r
    <3>1. g \in DOMAIN logs' /\ logs'[g] = logs[g]
      BY <1>4, <2>2
    <3> QED
      BY <3>1 DEF LinesHeld
  <2> QED
    BY <2>1, <2>2
<1> QED
  BY <1>3, <1>6, <1>7, <1>8 DEF LogStepKeeps

(* A new and empty active file.                                            *)
LEMMA TouchKeeps ==
    ASSUME LogInv, Touch
    PROVE  LogStepKeeps
<1>0. LogsTyped /\ RotationSound
  BY DEF LogInv
<1>1. PICK a \in LogFiles : a = rotating.from
  BY <1>0 DEF RotationSound, Touch
<1>2. /\ logs' = PutLog(logs, a, LinesIn(a)) /\ rotating' = NoRotation
      /\ UNCHANGED <<second, lines, removedOld, overwritten>>
  BY <1>1 DEF Touch
<1>3. /\ DOMAIN logs' = DOMAIN logs \cup {a}
      /\ logs'[a].lines = LinesIn(a) /\ logs'[a].touched = second
      /\ \A g \in DOMAIN logs \ {a} : logs'[g] = logs[g]
  BY <1>2 DEF PutLog
<1>4. rotating'.at = "none"
  BY <1>2 DEF NoRotation
<1>5. LinesIn(a) \subseteq 1..lines
  BY <1>0, LinesInTyped
<1>6. LogsTyped'
  BY <1>0, <1>2, <1>3, <1>4, <1>5, FilesTyped
<1>7. RotationSound'
  BY <1>4 DEF RotationSound
<1>8. ASSUME NEW g \in DOMAIN logs PROVE logs[g].lines \subseteq LinesHeld'
  <2>1. CASE g = a
    BY <1>3, <2>1 DEF LinesIn, LinesHeld
  <2>2. CASE g # a
    <3>1. g \in DOMAIN logs' /\ logs'[g] = logs[g]
      BY <1>3, <2>2
    <3> QED
      BY <3>1 DEF LinesHeld
  <2> QED
    BY <2>1, <2>2
<1> QED
  BY <1>2, <1>6, <1>7, <1>8 DEF LogStepKeeps

(* A rotation that fails leaves what it has done.                          *)
LEMMA RotationFailsKeeps ==
    ASSUME LogInv, RotationFails
    PROVE  LogStepKeeps
<1>1. /\ LogsTyped /\ rotating' = NoRotation
      /\ UNCHANGED <<logs, second, lines, removedOld, overwritten>>
  BY DEF LogInv, RotationFails
<1>2. rotating'.at = "none"
  BY <1>1 DEF NoRotation
<1>3. LogsTyped' /\ RotationSound'
  BY <1>1, <1>2 DEF LogsTyped, RotationSound
<1>4. LinesHeld' = LinesHeld /\ \A f \in DOMAIN logs : logs[f].lines \subseteq LinesHeld
  BY <1>1 DEF LinesHeld
<1> QED
  BY <1>1, <1>3, <1>4 DEF LogStepKeeps

(* Only files older than the retention go.                                 *)
LEMMA RemoveOldKeeps ==
    ASSUME LogInv, NEW f \in DOMAIN logs, RemoveOld(f)
    PROVE  LogStepKeeps
<1>0. LogsTyped /\ RotationSound
  BY DEF LogInv
<1>1. /\ rotating.at = "none" /\ second - logs[f].touched > LogKept
      /\ removedOld' = removedOld \cup logs[f].lines
      /\ logs' = Dropped(logs, f)
      /\ UNCHANGED <<rotating, second, lines, overwritten>>
  BY DEF RemoveOld
<1>2. DOMAIN logs' = DOMAIN logs \ {f} /\ \A g \in DOMAIN logs \ {f} : logs'[g] = logs[g]
  BY <1>1 DEF Dropped
<1>3. LogsTyped'
  BY <1>0, <1>1, <1>2, FilesTyped
<1>4. RotationSound'
  BY <1>1 DEF RotationSound
<1>5. ASSUME NEW g \in DOMAIN logs, g # f PROVE logs[g].lines \subseteq LinesHeld'
  <2>1. g \in DOMAIN logs' /\ logs'[g] = logs[g]
    BY <1>2, <1>5
  <2> QED
    BY <2>1 DEF LinesHeld
<1> QED
  BY <1>1, <1>3, <1>4, <1>5 DEF LogStepKeeps

(* Every step of the rotation keeps the lines and the retention.           *)
THEOREM LogStepsKeep == LogInv /\ LogStep => LogStepKeeps
<1> SUFFICES ASSUME LogInv, LogStep PROVE LogStepKeeps
  OBVIOUS
<1>1. ASSUME NEW n \in LogNames, WriteLine(n) PROVE LogStepKeeps
  BY <1>1, WriteLineKeeps
<1>2. ASSUME NEW f \in DOMAIN logs, Rename(f) \/ RemoveOld(f) PROVE LogStepKeeps
  BY <1>2, RenameKeeps, RemoveOldKeeps
<1>3. CASE SecondPasses \/ Compress \/ Unlink \/ Touch \/ RotationFails
  BY <1>3, SecondPassesKeeps, CompressKeeps, UnlinkKeeps, TouchKeeps, RotationFailsKeeps
<1> QED
  BY <1>1, <1>2, <1>3 DEF LogStep

(* Every step of the rotation, or none, keeps its invariant.               *)
THEOREM LogNext == LogInv /\ [LogStep]_logVars => LogInv'
<1> SUFFICES ASSUME LogInv, [LogStep]_logVars PROVE LogInv'
  OBVIOUS
<1>1. CASE LogStep
  <2>1. LogStepKeeps
    BY <1>1, LogStepsKeep
  <2>2. ASSUME NEW n \in 1..lines
        PROVE  n \in removedOld' \cup overwritten' \cup LinesHeld'
    <3>1. CASE n \in removedOld \cup overwritten
      BY <2>1, <3>1 DEF LogStepKeeps
    <3>2. CASE \E f \in DOMAIN logs : n \in logs[f].lines
      BY <2>1, <3>2 DEF LogStepKeeps
    <3> QED
      BY <3>1, <3>2 DEF LogInv, LinesAreKept
  <2>3. ASSUME NEW n \in 1..lines'
        PROVE  n \in removedOld' \cup overwritten' \cup LinesHeld'
    <3>1. lines \in Nat /\ lines' \in {lines, lines + 1}
      BY <2>1 DEF LogStepKeeps, LogInv, LogsTyped
    <3>2. n \in 1..lines \/ (n = lines' /\ lines' = lines + 1 /\ lines' # lines)
      BY <3>1
    <3>3. CASE n \in 1..lines
      BY <2>2, <3>3
    <3>4. CASE n = lines' /\ lines' # lines
      BY <2>1, <3>4 DEF LogStepKeeps
    <3> QED
      BY <3>2, <3>3, <3>4
  <2>4. LinesAreKept'
    BY <2>3 DEF LinesAreKept, LinesHeld
  <2> QED
    BY <2>1, <2>4 DEF LogStepKeeps, LogInv
<1>2. CASE UNCHANGED logVars
  BY <1>2 DEF logVars, LogInv, LogsTyped, RotationSound, LinesIn, LinesAreKept
<1> QED
  BY <1>1, <1>2

(* A step never takes a line that was written within the retention.        *)
LEMMA RecentLinesStep ==
    LogInv /\ [LogStep]_logVars =>
        [\A f \in DOMAIN logs : second - logs[f].touched <= LogKept =>
             logs[f].lines \subseteq overwritten' \cup UNION {logs'[g].lines : g \in DOMAIN logs'}]_logVars
<1> SUFFICES ASSUME LogInv, LogStep,
                    NEW f \in DOMAIN logs, second - logs[f].touched <= LogKept
             PROVE  logs[f].lines \subseteq overwritten' \cup UNION {logs'[g].lines : g \in DOMAIN logs'}
  OBVIOUS
<1>1. LogStepKeeps
  BY LogStepsKeep
<1>2. second \in Nat /\ logs[f].touched \in Nat /\ LogKept \in Nat
  BY LogAssumption DEF LogInv, LogsTyped
<1>3. ~(second - logs[f].touched > LogKept)
  BY <1>2
<1>4. logs[f].lines \subseteq overwritten' \cup LinesHeld'
  BY <1>1, <1>3 DEF LogStepKeeps
<1> QED
  BY <1>4 DEF LinesHeld

(* The types hold, for any logs and any number of lines.                   *)
LEMMA LogInvTypes == LogInv => LogTypeOK
  BY DEF LogInv, LogsTyped, LogTypeOK, LogFiles

(* In every execution of the rotation a file is unlinked only when a       *)
(* compressed copy holds its lines (log_rotation.py:33-101).               *)
THEOREM LogInvariant == LogSpec => []LogInv
  BY LogInitially, LogNext, PTL DEF LogSpec

(* No rotation loses a line, wherever it is interrupted and whatever is    *)
(* written meanwhile.                                                      *)
THEOREM RotationKeepsLines == LogSpec => []LinesAreKept
<1>1. LogInv => LinesAreKept
  BY DEF LogInv
<1> QED
  BY <1>1, LogInvariant, PTL

(* The sweep of old logs spares every line of the retention.               *)
THEOREM RetentionIsKept == LogSpec => RecentLinesStay
  BY RecentLinesStep, LogInvariant, PTL DEF LogSpec, RecentLinesStay
-----------------------------------------------------------------------------
(* Backups.                                                                *)
\* What backups owe: files, each with what it held.
Owings == UNION {[S -> Contents] : S \in SUBSET DataFiles}

Manifests == {"none", "success", "partial"}

BackupRecords == [data : Versions, manifest : Manifests, made : Nat, owes : Owings]

\* A directory's name has a suffix below the number of jobs begun, so that a
\* suffix is free when the next one begins.
DirsTyped ==
    \A d \in DOMAIN backupDirs :
        /\ backupDirs[d] \in BackupRecords
        /\ \E n \in Nat : \E l, m : d = <<m, l, n>> /\ n < jobs

JobRecords(dirNames) ==
    [kind : {"none", "backup", "restore"}, dir : dirNames \cup {<<>>}, part : 0..3,
     todo : SUBSET DataFiles, half : SUBSET DataFiles, failed : BOOLEAN]

\* One file at most is half copied, of those still to copy of the open parts.
JobTyped ==
    /\ job \in JobRecords(DOMAIN backupDirs)
    /\ job.kind # "none" => job.dir \in DOMAIN backupDirs
    /\ job.kind = "none" => job = NoJob
    /\ job.half \subseteq job.todo /\ \A f, g \in job.half : f = g
    /\ \A f \in job.todo : PartOf[f] <= job.part

LiveTyped ==
    /\ live \in Versions /\ writing \in [DataFiles -> Nat]
    /\ writes \in Nat /\ day \in Nat /\ jobs \in Nat

\* What a backup without errors has of a file that nobody has written.
CopiedSoFar(f) ==
    IF f \in job.half THEN [head |-> live[f].head, tail |-> Absent]
    ELSE IF PartOf[f] > job.part \/ f \in job.todo THEN NoContent ELSE live[f]

\* While a backup runs its directory has no manifest, and what it owes is not
\* being written, is still what it was, and has been copied so far.
BackupUnderWay ==
    \A d \in DOMAIN backupDirs : job.kind = "backup" /\ job.dir = d =>
        /\ backupDirs[d].manifest = "none"
        /\ \A f \in DOMAIN backupDirs[d].owes :
              /\ writing[f] = Absent /\ live[f] = backupDirs[d].owes[f]
              /\ ~job.failed => backupDirs[d].data[f] = CopiedSoFar(f)

BackupInv == DirsTyped /\ JobTyped /\ LiveTyped /\ BackupUnderWay /\ SuccessIsComplete

\* A finished backup stays as it is, unless its age allows it to go.
FinishedStays ==
    \A d \in DOMAIN backupDirs : backupDirs[d].manifest # "none" =>
        \/ d \in DOMAIN backupDirs' /\ backupDirs'[d] = backupDirs[d]
        \/ day > backupDirs[d].made + KeptDays

(* What is owed is of the files.                                           *)
LEMMA OwedFiles ==
    ASSUME NEW o \in Owings
    PROVE  DOMAIN o \subseteq DataFiles
  BY DEF Owings

(* Less is owed when a file is written.                                    *)
LEMMA OwesLess ==
    ASSUME NEW o \in Owings, NEW f
    PROVE  [g \in DOMAIN o \ {f} |-> o[g]] \in Owings
<1>1. PICK S \in SUBSET DataFiles : o \in [S -> Contents]
  BY DEF Owings
<1>2. [g \in DOMAIN o \ {f} |-> o[g]] \in [S \ {f} -> Contents]
  BY <1>1
<1> QED
  BY <1>2 DEF Owings

(* A backup owes the files as they are when it begins.                     *)
LEMMA OwesAtFirst ==
    ASSUME NEW v \in Versions, NEW S \in SUBSET DataFiles
    PROVE  [f \in S |-> v[f]] \in Owings
<1>1. [f \in S |-> v[f]] \in [S -> Contents]
  BY DEF Versions
<1> QED
  BY <1>1 DEF Owings

(* A backup may owe nothing.                                               *)
LEMMA OwesNothing == <<>> \in Owings /\ DOMAIN <<>> = {}
<1>1. PICK none : none = <<>>
  OBVIOUS
<1>2. DOMAIN none = {} /\ none = [f \in {} |-> none[f]]
  BY <1>1
<1>3. none \in [{} -> Contents]
  BY <1>2
<1> QED
  BY <1>1, <1>2, <1>3 DEF Owings

Written(v, f, c) == [v EXCEPT ![f] = c]

(* A file is written, in a version of the data.                            *)
LEMMA FileWritten ==
    ASSUME NEW v \in Versions, NEW f \in DataFiles, NEW c \in Contents
    PROVE  /\ Written(v, f, c) \in Versions /\ Written(v, f, c)[f] = c
           /\ \A g \in DataFiles : g # f => Written(v, f, c)[g] = v[g]
  BY DEF Versions, Written

(* Contents of two halves.                                                 *)
LEMMA TwoHalves ==
    ASSUME NEW m \in Nat, NEW n \in Nat
    PROVE  [head |-> m, tail |-> n] \in Contents
  BY DEF Contents

(* The halves of a file, and the file with another second half.            *)
LEMMA HalvesOf ==
    ASSUME NEW c \in Contents, NEW n \in Nat
    PROVE  /\ c.head \in Nat /\ c.tail \in Nat
           /\ [c EXCEPT !.tail = n] = [head |-> c.head, tail |-> n]
           /\ c = [head |-> c.head, tail |-> c.tail]
           /\ [c EXCEPT !.tail = n] \in Contents
  BY DEF Contents

(* A version without any file.                                             *)
LEMMA NoFilesVersion == NoFilesYet \in Versions /\ \A f \in DataFiles : NoFilesYet[f] = NoContent
  BY DEF NoFilesYet, Versions, Contents, NoContent, Absent

(* The fields of a backup.                                                 *)
LEMMA BackupFields ==
    ASSUME NEW b \in BackupRecords
    PROVE  /\ b.data \in Versions /\ b.manifest \in Manifests
           /\ b.owes \in Owings /\ b.made \in Nat
  BY DEF BackupRecords

(* A backup with other data.                                               *)
LEMMA DataChanged ==
    ASSUME NEW b \in BackupRecords, NEW v \in Versions
    PROVE  /\ [b EXCEPT !.data = v] \in BackupRecords /\ [b EXCEPT !.data = v].data = v
           /\ [b EXCEPT !.data = v].manifest = b.manifest /\ [b EXCEPT !.data = v].owes = b.owes
  BY DEF BackupRecords

(* A backup with its manifest.                                             *)
LEMMA ManifestChanged ==
    ASSUME NEW b \in BackupRecords, NEW m \in Manifests
    PROVE  /\ [b EXCEPT !.manifest = m] \in BackupRecords /\ [b EXCEPT !.manifest = m].manifest = m
           /\ [b EXCEPT !.manifest = m].data = b.data /\ [b EXCEPT !.manifest = m].owes = b.owes
  BY DEF BackupRecords

(* A backup that owes less.                                                *)
LEMMA OwesChanged ==
    ASSUME NEW b \in BackupRecords, NEW o \in Owings
    PROVE  /\ [b EXCEPT !.owes = o] \in BackupRecords /\ [b EXCEPT !.owes = o].owes = o
           /\ [b EXCEPT !.owes = o].data = b.data /\ [b EXCEPT !.owes = o].manifest = b.manifest
  BY DEF BackupRecords

(* The directory of an unfinished backup is replaced: the others stay, and *)
(* none that claims success is worse.                                      *)
LEMMA OneDirChanges ==
    ASSUME DirsTyped, SuccessIsComplete, NEW d \in DOMAIN backupDirs, backupDirs[d].manifest = "none",
           NEW b \in BackupRecords, backupDirs' = [backupDirs EXCEPT ![d] = b], UNCHANGED jobs,
           b.manifest = "success" => \A f \in DOMAIN b.owes : b.data[f] = b.owes[f]
    PROVE  /\ DirsTyped' /\ SuccessIsComplete' /\ FinishedStays
           /\ DOMAIN backupDirs' = DOMAIN backupDirs /\ backupDirs'[d] = b
<1>1. /\ DOMAIN backupDirs' = DOMAIN backupDirs /\ backupDirs'[d] = b
      /\ \A e \in DOMAIN backupDirs : e # d => backupDirs'[e] = backupDirs[e]
  OBVIOUS
<1>2. DirsTyped'
  <2>1. \A e \in DOMAIN backupDirs' : backupDirs'[e] \in BackupRecords
    BY <1>1 DEF DirsTyped
  <2>2. \A e \in DOMAIN backupDirs' : \E n \in Nat : \E l, m : e = <<m, l, n>> /\ n < jobs'
    BY <1>1 DEF DirsTyped
  <2> QED
    BY <2>1, <2>2 DEF DirsTyped
<1>3. SuccessIsComplete'
  BY <1>1 DEF SuccessIsComplete
<1>4. FinishedStays
  BY <1>1 DEF FinishedStays
<1> QED
  BY <1>1, <1>2, <1>3, <1>4

(* The directories stay.                                                   *)
LEMMA DirsStay ==
    ASSUME DirsTyped, SuccessIsComplete, UNCHANGED backupDirs, jobs \in Nat, jobs' \in Nat, jobs' >= jobs
    PROVE  DirsTyped' /\ SuccessIsComplete' /\ FinishedStays
<1>1. ASSUME NEW d \in DOMAIN backupDirs
      PROVE  \E n \in Nat : \E l, m : d = <<m, l, n>> /\ n < jobs'
  <2>1. PICK n, l, m : n \in Nat /\ d = <<m, l, n>> /\ n < jobs
    BY DEF DirsTyped
  <2>2. n < jobs'
    BY <2>1
  <2> QED
    BY <2>1, <2>2
<1> QED
  BY <1>1 DEF DirsTyped, SuccessIsComplete, FinishedStays

(* A free name is found, and its suffix is at most the number of jobs.     *)
LEMMA FreePlaceIsFree ==
    ASSUME DirsTyped, jobs \in Nat, jobs < MaxJobs, NEW label
    PROVE  /\ FreePlace(label) \notin DOMAIN backupDirs
           /\ \E n \in Nat : FreePlace(label) = <<day, label, n>> /\ n < jobs + 1
<1> DEFINE S == {n \in Nat : <<day, label, n>> \notin DOMAIN backupDirs}
           Free(d) == /\ d \notin DOMAIN backupDirs
                      /\ \A n \in 0..(d[3] - 1) : <<day, label, n>> \in DOMAIN backupDirs
<1>0. jobs \in Nat /\ MaxJobs \in Nat
  BY BackupAssumption
<1>1. <<day, label, jobs>> \notin DOMAIN backupDirs
  <2> SUFFICES ASSUME <<day, label, jobs>> \in DOMAIN backupDirs PROVE FALSE
    OBVIOUS
  <2>1. PICK n, l, m : n \in Nat /\ <<day, label, jobs>> = <<m, l, n>> /\ n < jobs
    BY DEF DirsTyped
  <2> QED
    BY <2>1, <1>0
<1>2. PICK n \in S : \A k \in S : n <= k
  BY <1>0, <1>1, LeastNumber
<1>3. n <= jobs /\ n \in Nat /\ n \in 0..MaxJobs
  BY <1>0, <1>1, <1>2
<1>4. Free(<<day, label, n>>)
  <2>1. \A k \in 0..(n - 1) : k \in Nat /\ ~(n <= k)
    BY <1>3
  <2>2. <<day, label, n>>[3] = n
    OBVIOUS
  <2> QED
    BY <1>2, <2>1, <2>2
<1>5. <<day, label, n>> \in Places(label)
  BY <1>3 DEF Places
<1>6. FreePlace(label) = CHOOSE d \in Places(label) : Free(d)
  BY DEF FreePlace
<1> HIDE DEF Free
<1>7. FreePlace(label) \in Places(label) /\ Free(FreePlace(label))
  BY <1>4, <1>5, <1>6
<1>8. PICK k \in 0..MaxJobs : FreePlace(label) = <<day, label, k>>
  BY <1>7 DEF Places
<1>9. /\ FreePlace(label) \notin DOMAIN backupDirs
      /\ \A i \in 0..(k - 1) : <<day, label, i>> \in DOMAIN backupDirs
  BY <1>7, <1>8 DEF Free
<1>10. ~(jobs \in 0..(k - 1))
  BY <1>1, <1>9
<1>11. k \in Nat /\ k < jobs + 1
  BY <1>0, <1>8, <1>10
<1> QED
  BY <1>8, <1>9, <1>11

(* A write that begins takes its file from what a backup under way owes.   *)
LEMMA OpenWriteKeeps ==
    ASSUME BackupInv, NEW f \in DataFiles, OpenWrite(f)
    PROVE  BackupInv' /\ FinishedStays
<1>0. DirsTyped /\ JobTyped /\ LiveTyped /\ BackupUnderWay /\ SuccessIsComplete
  BY DEF BackupInv
<1>1. PICK c : c = [head |-> writes + 1, tail |-> Rest(f)]
  OBVIOUS
<1>2. /\ writing' = [writing EXCEPT ![f] = writes + 1] /\ live' = Written(live, f, c)
      /\ writes' = writes + 1 /\ UNCHANGED <<job, day, jobs>>
  BY <1>1 DEF OpenWrite, Written
<1>3. /\ live' \in Versions /\ \A g \in DataFiles : g # f => live'[g] = live[g]
      /\ writing' \in [DataFiles -> Nat] /\ \A g \in DataFiles : g # f => writing'[g] = writing[g]
  <2>0. Rest(f) \in Nat
    BY <1>0 DEF LiveTyped, Versions, Contents, Rest, Absent
  <2>1. c \in Contents
    BY <1>0, <1>1, <2>0 DEF LiveTyped, Contents
  <2>2. live \in Versions /\ writing \in [DataFiles -> Nat] /\ writes + 1 \in Nat
    BY <1>0 DEF LiveTyped
  <2>3. live' \in Versions /\ \A g \in DataFiles : g # f => live'[g] = live[g]
    BY <1>2, <2>1, <2>2, FileWritten
  <2> QED
    BY <1>2, <2>2, <2>3
<1>4. LiveTyped'
  BY <1>0, <1>2, <1>3 DEF LiveTyped
<1>5. CASE job.kind # "backup"
  <2>1. UNCHANGED backupDirs
    BY <1>5 DEF OpenWrite
  <2>2. DirsTyped' /\ SuccessIsComplete' /\ FinishedStays
    BY <1>0, <1>2, <2>1, DirsStay DEF LiveTyped
  <2>3. JobTyped'
    BY <1>0, <1>2, <2>1 DEF JobTyped
  <2>4. BackupUnderWay'
    BY <1>2, <1>5 DEF BackupUnderWay
  <2> QED
    BY <1>4, <2>2, <2>3, <2>4 DEF BackupInv
<1>6. CASE job.kind = "backup"
  <2>1. PICK d \in DOMAIN backupDirs : d = job.dir
    BY <1>0, <1>6 DEF JobTyped
  <2>2. PICK o : o = [g \in DOMAIN backupDirs[d].owes \ {f} |-> backupDirs[d].owes[g]]
    OBVIOUS
  <2>3. PICK b : b = [backupDirs[d] EXCEPT !.owes = o]
    OBVIOUS
  <2>4. backupDirs' = [backupDirs EXCEPT ![d] = b]
    BY <1>6, <2>1, <2>2, <2>3 DEF OpenWrite, Disowned
  <2>5. /\ backupDirs[d] \in BackupRecords /\ backupDirs[d].owes \in Owings
        /\ backupDirs[d].manifest = "none"
    BY <1>0, <1>6, <2>1, BackupFields DEF DirsTyped, BackupUnderWay
  <2>6. o \in Owings /\ DOMAIN o = DOMAIN backupDirs[d].owes \ {f}
        /\ \A g \in DOMAIN o : o[g] = backupDirs[d].owes[g]
    BY <2>2, <2>5, OwesLess
  <2>7. b \in BackupRecords /\ b.owes = o /\ b.data = backupDirs[d].data /\ b.manifest = "none"
    BY <2>3, <2>5, <2>6, OwesChanged
  <2>8. /\ DirsTyped' /\ SuccessIsComplete' /\ FinishedStays
        /\ DOMAIN backupDirs' = DOMAIN backupDirs /\ backupDirs'[d] = b
    BY <1>0, <1>2, <2>4, <2>5, <2>7, OneDirChanges
  <2>9. JobTyped'
    BY <1>0, <1>2, <2>8 DEF JobTyped
  <2>10. BackupUnderWay'
    <3>1. \A g \in DOMAIN o : g \in DataFiles /\ g # f /\ g \in DOMAIN backupDirs[d].owes
      BY <2>5, <2>6, OwedFiles
    <3>2. \A g \in DOMAIN o : /\ writing[g] = Absent /\ live[g] = backupDirs[d].owes[g]
                              /\ ~job.failed => backupDirs[d].data[g] = CopiedSoFar(g)
      BY <1>0, <1>6, <2>1, <3>1 DEF BackupUnderWay
    <3>3. \A g \in DOMAIN o : live'[g] = live[g] /\ writing'[g] = writing[g] /\ CopiedSoFar(g)' = CopiedSoFar(g)
      BY <1>2, <1>3, <3>1 DEF CopiedSoFar
    <3>4. \A g \in DOMAIN o : /\ writing'[g] = Absent /\ live'[g] = b.owes[g]
                              /\ ~job'.failed => b.data[g] = CopiedSoFar(g)'
      BY <1>2, <2>6, <2>7, <3>2, <3>3
    <3> QED
      BY <1>2, <2>1, <2>7, <2>8, <3>4 DEF BackupUnderWay
  <2> QED
    BY <1>4, <2>8, <2>9, <2>10 DEF BackupInv
<1> QED
  BY <1>5, <1>6

(* A write that ends is of a file that is not owed.                        *)
LEMMA EndOfWriteKeeps ==
    ASSUME BackupInv, NEW f \in DataFiles, CloseWrite(f) \/ WriteFails(f)
    PROVE  BackupInv' /\ FinishedStays
<1>0. DirsTyped /\ JobTyped /\ LiveTyped /\ BackupUnderWay /\ SuccessIsComplete
  BY DEF BackupInv
<1>1. PICK c : c = [live[f] EXCEPT !.tail = writing[f]]
  OBVIOUS
<1>2. /\ writing[f] # Absent /\ writing' = [writing EXCEPT ![f] = Absent]
      /\ live' = live \/ live' = Written(live, f, c)
      /\ UNCHANGED <<backupDirs, job, writes, day, jobs>>
  BY <1>1 DEF CloseWrite, WriteFails, Written
<1>3. /\ live' \in Versions /\ \A g \in DataFiles : g # f => live'[g] = live[g]
      /\ writing' \in [DataFiles -> Nat] /\ \A g \in DataFiles : g # f => writing'[g] = writing[g]
  <2>1. live[f] \in Contents /\ writing[f] \in Nat
    BY <1>0 DEF LiveTyped, Versions
  <2>2. c \in Contents
    BY <1>1, <2>1, HalvesOf
  <2>3. live \in Versions /\ writing \in [DataFiles -> Nat]
    BY <1>0 DEF LiveTyped
  <2>4. live' \in Versions /\ \A g \in DataFiles : g # f => live'[g] = live[g]
    BY <1>2, <2>2, <2>3, FileWritten
  <2> QED
    BY <1>2, <2>3, <2>4 DEF Absent
<1>4. LiveTyped' /\ JobTyped'
  BY <1>0, <1>2, <1>3 DEF LiveTyped, JobTyped
<1>5. DirsTyped' /\ SuccessIsComplete' /\ FinishedStays
  BY <1>0, <1>2, DirsStay DEF LiveTyped
<1>6. BackupUnderWay'
  <2> SUFFICES ASSUME NEW d \in DOMAIN backupDirs, job.kind = "backup", job.dir = d
               PROVE  /\ backupDirs[d].manifest = "none"
                      /\ \A g \in DOMAIN backupDirs[d].owes :
                            /\ writing'[g] = Absent /\ live'[g] = backupDirs[d].owes[g]
                            /\ ~job.failed => backupDirs[d].data[g] = CopiedSoFar(g)'
    BY <1>2 DEF BackupUnderWay
  <2>1. backupDirs[d].owes \in Owings
    BY <1>0, BackupFields DEF DirsTyped
  <2>2. /\ backupDirs[d].manifest = "none"
        /\ \A g \in DOMAIN backupDirs[d].owes :
              /\ g \in DataFiles /\ writing[g] = Absent /\ live[g] = backupDirs[d].owes[g]
              /\ ~job.failed => backupDirs[d].data[g] = CopiedSoFar(g)
    BY <1>0, <2>1, OwedFiles DEF BackupUnderWay
  <2>3. \A g \in DOMAIN backupDirs[d].owes :
            live'[g] = live[g] /\ writing'[g] = writing[g] /\ CopiedSoFar(g)' = CopiedSoFar(g)
    BY <1>2, <1>3, <2>2 DEF CopiedSoFar
  <2> QED
    BY <2>2, <2>3
<1> QED
  BY <1>4, <1>5, <1>6 DEF BackupInv

(* Time passes: nothing that is kept changes.                              *)
LEMMA DayPassesKeeps ==
    ASSUME BackupInv, DayPasses
    PROVE  BackupInv' /\ FinishedStays
<1>1. day' = day + 1 /\ UNCHANGED <<live, writing, backupDirs, job, writes, jobs>>
  BY DEF DayPasses
<1>2. DirsTyped' /\ SuccessIsComplete' /\ FinishedStays
  BY <1>1, DirsStay DEF BackupInv, LiveTyped
<1>3. JobTyped' /\ LiveTyped'
  BY <1>1 DEF BackupInv, JobTyped, LiveTyped
<1>4. BackupUnderWay'
  BY <1>1 DEF BackupInv, BackupUnderWay, CopiedSoFar
<1> QED
  BY <1>2, <1>3, <1>4 DEF BackupInv

(* A job that is not a backup, or none, leaves the backups as they are.    *)
LEMMA OtherJobKeeps ==
    ASSUME BackupInv, UNCHANGED <<backupDirs, writes, day>>, LiveTyped', jobs' >= jobs,
           JobTyped', job'.kind # "backup"
    PROVE  BackupInv' /\ FinishedStays
<1>1. DirsTyped' /\ SuccessIsComplete' /\ FinishedStays
  BY DirsStay DEF BackupInv, LiveTyped
<1>2. BackupUnderWay'
  BY DEF BackupUnderWay
<1> QED
  BY <1>1, <1>2 DEF BackupInv

(* No job.                                                                 *)
LEMMA NoJobTyped ==
    ASSUME NEW dirNames
    PROVE  /\ NoJob \in JobRecords(dirNames)
           /\ NoJob.kind = "none" /\ NoJob.todo = {} /\ NoJob.half = {} /\ NoJob.part = 0
           /\ NoJob.failed = FALSE
  BY DEF NoJob, JobRecords

(* A job ends or dies, and with the process the writers.                   *)
LEMMA JobEndsKeeps ==
    ASSUME BackupInv, JobDies \/ EndRestore
    PROVE  BackupInv' /\ FinishedStays
<1>1. /\ job' = NoJob /\ UNCHANGED <<live, backupDirs, writes, day, jobs>>
      /\ writing' = writing \/ writing' = [f \in DataFiles |-> Absent]
  BY DEF JobDies, EndRestore
<1>2. LiveTyped' /\ jobs' >= jobs
  BY <1>1 DEF BackupInv, LiveTyped, Absent
<1>3. JobTyped' /\ job'.kind # "backup"
  BY <1>1, NoJobTyped DEF JobTyped
<1> QED
  BY <1>1, <1>2, <1>3, OtherJobKeeps

JobBegun(kind, dir) == [NoJob EXCEPT !.kind = kind, !.dir = dir]

(* A job at its beginning.                                                 *)
LEMMA JobBegins ==
    ASSUME NEW kind \in {"backup", "restore"}, NEW dirNames, NEW dir \in dirNames
    PROVE  /\ JobBegun(kind, dir) \in JobRecords(dirNames)
           /\ JobBegun(kind, dir).kind = kind /\ JobBegun(kind, dir).dir = dir
           /\ JobBegun(kind, dir).part = 0 /\ JobBegun(kind, dir).todo = {} /\ JobBegun(kind, dir).half = {}
<1>1. PICK n : n = NoJob
  OBVIOUS
<1>2. n \in JobRecords({})
  BY <1>1, NoJobTyped
<1> QED
  BY <1>1, <1>2, NoJobTyped DEF JobRecords, JobBegun

(* A restore begins.                                                       *)
LEMMA BeginRestoreKeeps ==
    ASSUME BackupInv, NEW d \in DOMAIN backupDirs, BeginRestore(d)
    PROVE  BackupInv' /\ FinishedStays
<1>1. /\ job' = JobBegun("restore", d)
      /\ jobs' = jobs + 1 /\ UNCHANGED <<live, writing, backupDirs, writes, day>>
  BY DEF BeginRestore, Begin, JobBegun
<1>2. /\ job' \in JobRecords(DOMAIN backupDirs)
      /\ job'.kind = "restore" /\ job'.dir = d /\ job'.todo = {} /\ job'.half = {}
  BY <1>1, JobBegins
<1>3. JobTyped' /\ LiveTyped' /\ jobs' >= jobs
  BY <1>1, <1>2 DEF JobTyped, BackupInv, LiveTyped
<1> QED
  BY <1>1, <1>2, <1>3, OtherJobKeeps

(* A backup begins in a directory of its own, and owes what is there.      *)
LEMMA BeginBackupKeeps ==
    ASSUME BackupInv, NEW label, BeginBackup(label)
    PROVE  BackupInv' /\ FinishedStays
<1>0. DirsTyped /\ JobTyped /\ LiveTyped /\ BackupUnderWay /\ SuccessIsComplete
  BY DEF BackupInv
<1>1. PICK d : d = FreePlace(label)
  OBVIOUS
<1>2. PICK S \in SUBSET DataFiles : S = {g \in DataFiles : writing[g] = Absent}
  OBVIOUS
<1>3. PICK o : o = [f \in S |-> live[f]]
  OBVIOUS
<1>4. PICK b : b = [data |-> NoFilesYet, manifest |-> "none", made |-> day, owes |-> o]
  OBVIOUS
<1>5. /\ job.kind = "none" /\ jobs < MaxJobs /\ jobs' = jobs + 1
      /\ job' = JobBegun("backup", d)
      /\ backupDirs' = Put(backupDirs, d, b)
      /\ UNCHANGED <<live, writing, writes, day>>
  BY <1>1, <1>2, <1>3, <1>4 DEF BeginBackup, Begin, JobBegun
<1>6. /\ d \notin DOMAIN backupDirs
      /\ \E n \in Nat : d = <<day, label, n>> /\ n < jobs + 1
  BY <1>0, <1>1, <1>5, FreePlaceIsFree DEF LiveTyped
<1>7. /\ DOMAIN backupDirs' = DOMAIN backupDirs \cup {d} /\ backupDirs'[d] = b
      /\ \A e \in DOMAIN backupDirs : backupDirs'[e] = backupDirs[e] /\ e # d
  BY <1>5, <1>6 DEF Put
<1>8. /\ o \in Owings /\ DOMAIN o = S /\ \A f \in S : o[f] = live[f]
      /\ b \in BackupRecords /\ b.manifest = "none" /\ b.owes = o /\ b.data = NoFilesYet
  <2>1. o \in Owings
    BY <1>0, <1>3, OwesAtFirst DEF LiveTyped
  <2>2. NoFilesYet \in Versions /\ day \in Nat
    BY <1>0, NoFilesVersion DEF LiveTyped
  <2> QED
    BY <1>3, <1>4, <2>1, <2>2 DEF BackupRecords, Manifests
<1>9. /\ job' \in JobRecords(DOMAIN backupDirs')
      /\ job'.kind = "backup" /\ job'.dir = d /\ job'.part = 0 /\ job'.todo = {} /\ job'.half = {}
  BY <1>5, <1>7, JobBegins
<1>10. JobTyped' /\ LiveTyped'
  BY <1>0, <1>5, <1>7, <1>9 DEF JobTyped, LiveTyped
<1>11. DirsTyped'
  <2>1. \A e \in DOMAIN backupDirs' : backupDirs'[e] \in BackupRecords
    BY <1>0, <1>7, <1>8 DEF DirsTyped
  <2>2. ASSUME NEW e \in DOMAIN backupDirs
        PROVE  \E n \in Nat : \E l, m : e = <<m, l, n>> /\ n < jobs'
    <3>1. PICK n, l, m : n \in Nat /\ e = <<m, l, n>> /\ n < jobs
      BY <1>0 DEF DirsTyped
    <3>2. n < jobs'
      BY <1>0, <1>5, <3>1 DEF LiveTyped
    <3> QED
      BY <3>1, <3>2
  <2>3. \E n \in Nat : \E l, m : d = <<m, l, n>> /\ n < jobs'
    BY <1>5, <1>6
  <2> QED
    BY <1>7, <2>1, <2>2, <2>3 DEF DirsTyped
<1>12. SuccessIsComplete' /\ FinishedStays
  BY <1>0, <1>7, <1>8 DEF SuccessIsComplete, FinishedStays
<1>13. BackupUnderWay'
  <2>1. \A f \in S : writing'[f] = Absent /\ live'[f] = b.owes[f] /\ b.data[f] = CopiedSoFar(f)'
    <3>1. ASSUME NEW f \in S PROVE b.data[f] = CopiedSoFar(f)'
      <4>1. PartOf[f] > 0
        BY BackupAssumption DEF Database, Configs
      <4> QED
        BY <1>8, <1>9, <4>1, NoFilesVersion DEF CopiedSoFar
    <3> QED
      BY <1>2, <1>5, <1>8, <3>1
  <2> QED
    BY <1>7, <1>8, <1>9, <2>1 DEF BackupUnderWay
<1> QED
  BY <1>10, <1>11, <1>12, <1>13 DEF BackupInv

JobMoved(part, todo, half, failed) ==
    [job EXCEPT !.part = part, !.todo = todo, !.half = half, !.failed = failed]

(* The fields of a job that goes on.                                       *)
LEMMA JobGoesOn ==
    ASSUME JobTyped, NEW p \in 0..3, NEW todo \in SUBSET DataFiles, NEW half \in SUBSET DataFiles,
           NEW x \in BOOLEAN
    PROVE  /\ JobMoved(p, todo, half, x) \in JobRecords(DOMAIN backupDirs)
           /\ JobMoved(p, todo, half, x).kind = job.kind /\ JobMoved(p, todo, half, x).dir = job.dir
           /\ JobMoved(p, todo, half, x).part = p /\ JobMoved(p, todo, half, x).todo = todo
           /\ JobMoved(p, todo, half, x).half = half /\ JobMoved(p, todo, half, x).failed = x
  BY DEF JobTyped, JobRecords, JobMoved

(* A part is opened: what it has is still to copy.                         *)
LEMMA OpenPartKeeps ==
    ASSUME BackupInv, OpenPart
    PROVE  BackupInv' /\ FinishedStays
<1>0. DirsTyped /\ JobTyped /\ LiveTyped /\ BackupUnderWay /\ SuccessIsComplete
  BY DEF BackupInv
<1>1. PICK p : p = job.part + 1
  OBVIOUS
<1>2. PICK T \in SUBSET DataFiles : T = {f \in DataFiles : PartOf[f] = p /\ From[f] # NoContent}
  OBVIOUS
<1>3. /\ job.kind # "none" /\ job.todo = {} /\ job.half = {} /\ p \in 0..3 /\ job.part \in Nat
      /\ UNCHANGED <<live, writing, backupDirs, writes, day, jobs>>
  BY <1>0, <1>1 DEF OpenPart, JobTyped, JobRecords, Configs
<1>4. job' = JobMoved(p, T, job.half, job.failed)
  BY <1>0, <1>1, <1>2 DEF OpenPart, JobTyped, JobRecords, JobMoved
<1>5. /\ job' \in JobRecords(DOMAIN backupDirs)
      /\ job'.kind = job.kind /\ job'.dir = job.dir /\ job'.part = p /\ job'.todo = T /\ job'.half = {}
      /\ job'.failed = job.failed
  <2>1. job.half \in SUBSET DataFiles /\ job.failed \in BOOLEAN
    BY <1>0 DEF JobTyped, JobRecords
  <2> QED
    BY <1>0, <1>3, <1>4, <2>1, JobGoesOn
<1>6. JobTyped' /\ LiveTyped'
  <2>1. \A f \in T : PartOf[f] <= p
    BY <1>2, <1>3
  <2> QED
    BY <1>0, <1>3, <1>5, <2>1 DEF JobTyped, LiveTyped
<1>7. DirsTyped' /\ SuccessIsComplete' /\ FinishedStays
  BY <1>0, <1>3, DirsStay DEF LiveTyped
<1>8. BackupUnderWay'
  <2> SUFFICES ASSUME NEW d \in DOMAIN backupDirs, job.kind = "backup", job.dir = d
               PROVE  /\ backupDirs[d].manifest = "none"
                      /\ \A f \in DOMAIN backupDirs[d].owes :
                            /\ writing[f] = Absent /\ live[f] = backupDirs[d].owes[f]
                            /\ ~job.failed => backupDirs[d].data[f] = CopiedSoFar(f)'
    BY <1>3, <1>5 DEF BackupUnderWay
  <2>1. backupDirs[d].owes \in Owings
    BY <1>0, BackupFields DEF DirsTyped
  <2>2. /\ backupDirs[d].manifest = "none"
        /\ \A f \in DOMAIN backupDirs[d].owes :
              /\ f \in DataFiles /\ writing[f] = Absent /\ live[f] = backupDirs[d].owes[f]
              /\ ~job.failed => backupDirs[d].data[f] = CopiedSoFar(f)
    BY <1>0, <2>1, OwedFiles DEF BackupUnderWay
  <2>3. ASSUME NEW f \in DataFiles PROVE CopiedSoFar(f)' = CopiedSoFar(f)
    <3>1. PartOf[f] \in Nat
      BY BackupAssumption DEF Database, Configs
    <3>2. /\ CopiedSoFar(f) = IF PartOf[f] > job.part THEN NoContent ELSE live[f]
          /\ CopiedSoFar(f)' = IF PartOf[f] > p \/ f \in T THEN NoContent ELSE live[f]
      BY <1>3, <1>5 DEF CopiedSoFar
    <3>3. PartOf[f] > p \/ PartOf[f] = p \/ ~(PartOf[f] > job.part)
      BY <1>1, <1>3, <3>1
    <3>4. CASE PartOf[f] > p
      BY <1>1, <1>3, <3>1, <3>2, <3>4
    <3>5. CASE PartOf[f] = p
      <4>1. f \in T \/ live[f] = NoContent
        BY <1>2, <3>5 DEF From
      <4>2. PartOf[f] > job.part
        BY <1>1, <1>3, <3>5
      <4> QED
        BY <3>2, <4>1, <4>2
    <3>6. CASE ~(PartOf[f] > job.part)
      <4>1. ~(PartOf[f] > p) /\ f \notin T
        BY <1>1, <1>2, <1>3, <3>1, <3>6
      <4> QED
        BY <3>2, <3>6, <4>1
    <3> QED
      BY <3>3, <3>4, <3>5, <3>6
  <2> QED
    BY <2>2, <2>3
<1> QED
  BY <1>6, <1>7, <1>8 DEF BackupInv

(* A file comes into the backup under way: enough that it is what should   *)
(* have been copied of it, and that of the others nothing else should.     *)
LEMMA BackupReceives ==
    ASSUME BackupInv, NEW d \in DOMAIN backupDirs, job.kind = "backup", job.dir = d,
           NEW f \in DataFiles, NEW c \in Contents,
           backupDirs' = [backupDirs EXCEPT ![d].data[f] = c],
           JobTyped', job'.kind = "backup", job'.dir = d, job'.failed = job.failed,
           UNCHANGED <<live, writing, writes, day, jobs>>,
           \A g \in DataFiles : g # f => CopiedSoFar(g)' = CopiedSoFar(g),
           ~job.failed /\ backupDirs[d].data[f] = CopiedSoFar(f) => c = CopiedSoFar(f)'
    PROVE  BackupInv' /\ FinishedStays
<1>0. DirsTyped /\ JobTyped /\ LiveTyped /\ BackupUnderWay /\ SuccessIsComplete
  BY DEF BackupInv
<1>1. /\ backupDirs[d] \in BackupRecords /\ backupDirs[d].data \in Versions
      /\ backupDirs[d].owes \in Owings /\ backupDirs[d].manifest = "none"
  BY <1>0, BackupFields DEF DirsTyped, BackupUnderWay
<1>2. PICK v : v = Written(backupDirs[d].data, f, c)
  OBVIOUS
<1>3. v \in Versions /\ v[f] = c /\ \A g \in DataFiles : g # f => v[g] = backupDirs[d].data[g]
  BY <1>1, <1>2, FileWritten
<1>4. PICK b : b = [backupDirs[d] EXCEPT !.data = v]
  OBVIOUS
<1>5. /\ b \in BackupRecords /\ b.data = v /\ b.manifest = "none" /\ b.owes = backupDirs[d].owes
  BY <1>1, <1>3, <1>4, DataChanged
<1>6. backupDirs' = [backupDirs EXCEPT ![d] = b]
  BY <1>2, <1>4 DEF Written
<1>7. /\ DirsTyped' /\ SuccessIsComplete' /\ FinishedStays
      /\ DOMAIN backupDirs' = DOMAIN backupDirs /\ backupDirs'[d] = b
  BY <1>0, <1>1, <1>5, <1>6, OneDirChanges
<1>8. LiveTyped'
  BY <1>0 DEF LiveTyped
<1>9. BackupUnderWay'
  <2>1. /\ \A g \in DOMAIN b.owes :
              /\ g \in DataFiles /\ writing[g] = Absent /\ live[g] = b.owes[g]
              /\ ~job.failed => backupDirs[d].data[g] = CopiedSoFar(g)
    BY <1>0, <1>1, <1>5, OwedFiles DEF BackupUnderWay
  <2>2. \A g \in DOMAIN b.owes : ~job.failed => b.data[g] = CopiedSoFar(g)'
    BY <1>3, <1>5, <2>1
  <2> QED
    BY <1>5, <1>7, <2>1, <2>2 DEF BackupUnderWay
<1> QED
  BY <1>7, <1>8, <1>9 DEF BackupInv

(* A file comes back into the live data.                                   *)
LEMMA LiveReceives ==
    ASSUME BackupInv, NEW f \in DataFiles, NEW c \in Contents, live' = Written(live, f, c),
           JobTyped', job'.kind = "restore", UNCHANGED <<backupDirs, writing, writes, day, jobs>>
    PROVE  BackupInv' /\ FinishedStays
<1>1. live \in Versions /\ live' \in Versions
  BY FileWritten DEF BackupInv, LiveTyped
<1>2. LiveTyped' /\ jobs' >= jobs
  BY <1>1 DEF BackupInv, LiveTyped
<1> QED
  BY <1>2, OtherJobKeeps

(* What a job copies from, and to, are versions of the data.               *)
LEMMA CopySides ==
    ASSUME BackupInv, job.kind # "none", NEW f \in DataFiles
    PROVE  /\ From[f] \in Contents /\ To[f] \in Contents
           /\ job.dir \in DOMAIN backupDirs /\ job.kind \in {"backup", "restore"}
           /\ backupDirs[job.dir].data \in Versions
<1>1. job.dir \in DOMAIN backupDirs /\ job.kind \in {"backup", "restore"} /\ live \in Versions
  BY DEF BackupInv, JobTyped, JobRecords, LiveTyped
<1>2. backupDirs[job.dir].data \in Versions
  BY <1>1, BackupFields DEF BackupInv, DirsTyped
<1> QED
  BY <1>1, <1>2 DEF From, To, Versions

(* What a job that has something to copy is.                               *)
LEMMA JobCopies ==
    ASSUME BackupInv, NEW f \in job.todo
    PROVE  /\ job.kind # "none" /\ f \in DataFiles /\ job.part \in 0..3 /\ PartOf[f] <= job.part
           /\ job.todo \in SUBSET DataFiles /\ job.half \in SUBSET DataFiles /\ job.failed \in BOOLEAN
           /\ job = JobMoved(job.part, job.todo, job.half, job.failed)
  BY NoJobTyped DEF BackupInv, JobTyped, JobRecords, JobMoved

(* The first half of a file is copied.                                     *)
LEMMA CopyHeadKeeps ==
    ASSUME BackupInv, NEW f \in DataFiles, CopyHead(f)
    PROVE  BackupInv' /\ FinishedStays
<1>0. DirsTyped /\ JobTyped /\ LiveTyped /\ BackupUnderWay /\ SuccessIsComplete
  BY DEF BackupInv
<1>1. PICK c : c = [head |-> From[f].head, tail |-> Absent]
  OBVIOUS
<1>2. /\ f \in job.todo /\ job.half = {} /\ Receives(f, c) /\ UNCHANGED <<writing, writes, day, jobs>>
      /\ job' = [job EXCEPT !.half = {f}]
  BY <1>1 DEF CopyHead
<1>3. /\ job.kind # "none" /\ job.part \in 0..3 /\ job.todo \in SUBSET DataFiles
      /\ job.failed \in BOOLEAN
  BY <1>2, JobCopies
<1>4. job' = JobMoved(job.part, job.todo, {f}, job.failed)
  BY <1>0, <1>2, <1>3 DEF JobMoved, JobTyped, JobRecords
<1>5. /\ job' \in JobRecords(DOMAIN backupDirs) /\ job'.kind = job.kind /\ job'.dir = job.dir
      /\ job'.part = job.part /\ job'.todo = job.todo /\ job'.half = {f} /\ job'.failed = job.failed
  BY <1>0, <1>3, <1>4, JobGoesOn
<1>6. c \in Contents /\ job.dir \in DOMAIN backupDirs /\ job.kind \in {"backup", "restore"}
  <2>1. From[f] \in Contents /\ job.dir \in DOMAIN backupDirs /\ job.kind \in {"backup", "restore"}
    BY <1>3, CopySides
  <2>2. From[f].head \in Nat /\ Absent \in Nat
    BY <2>1 DEF Contents, Absent
  <2> QED
    BY <1>1, <2>1, <2>2, TwoHalves
<1>7. CASE job.kind = "restore"
  <2>1. live' = Written(live, f, c) /\ UNCHANGED backupDirs
    BY <1>2, <1>7 DEF Receives, Written
  <2>2. JobTyped'
    BY <1>0, <1>2, <1>3, <1>5, <2>1 DEF JobTyped
  <2> QED
    BY <1>2, <1>5, <1>6, <1>7, <2>1, <2>2, LiveReceives
<1>8. CASE job.kind = "backup"
  <2>1. PICK d \in DOMAIN backupDirs : d = job.dir
    BY <1>6
  <2>2. backupDirs' = [backupDirs EXCEPT ![d].data[f] = c] /\ UNCHANGED live
    BY <1>2, <1>8, <2>1 DEF Receives
  <2>3. DOMAIN backupDirs' = DOMAIN backupDirs
    BY <2>2
  <2>4. JobTyped'
    BY <1>0, <1>2, <1>3, <1>5, <2>3 DEF JobTyped
  <2>5. \A g \in DataFiles : g # f => CopiedSoFar(g)' = CopiedSoFar(g)
    BY <1>2, <1>5, <2>2 DEF CopiedSoFar
  <2>6. c = CopiedSoFar(f)'
    BY <1>1, <1>5, <1>8, <2>2 DEF CopiedSoFar, From
  <2> QED
    BY <1>2, <1>5, <1>6, <1>8, <2>1, <2>2, <2>4, <2>5, <2>6, BackupReceives
<1> QED
  BY <1>6, <1>7, <1>8

(* The second half of a file is copied.                                    *)
LEMMA CopyTailKeeps ==
    ASSUME BackupInv, NEW f \in DataFiles, CopyTail(f)
    PROVE  BackupInv' /\ FinishedStays
<1>0. DirsTyped /\ JobTyped /\ LiveTyped /\ BackupUnderWay /\ SuccessIsComplete
  BY DEF BackupInv
<1>1. PICK c : c = [To[f] EXCEPT !.tail = From[f].tail]
  OBVIOUS
<1>2. /\ f \in job.half /\ f \in job.todo /\ \A g \in job.half : g = f
      /\ Receives(f, c) /\ UNCHANGED <<writing, writes, day, jobs>>
      /\ job' = [job EXCEPT !.half = {}, !.todo = @ \ {f}]
  BY <1>0, <1>1 DEF CopyTail, JobTyped
<1>3. /\ job.kind # "none" /\ job.part \in 0..3 /\ job.todo \in SUBSET DataFiles
      /\ job.failed \in BOOLEAN /\ PartOf[f] <= job.part
  BY <1>2, JobCopies
<1>4. job' = JobMoved(job.part, job.todo \ {f}, {}, job.failed)
  BY <1>0, <1>2, <1>3 DEF JobMoved, JobTyped, JobRecords
<1>5. /\ job' \in JobRecords(DOMAIN backupDirs) /\ job'.kind = job.kind /\ job'.dir = job.dir
      /\ job'.part = job.part /\ job'.todo = job.todo \ {f} /\ job'.half = {} /\ job'.failed = job.failed
  <2>1. PICK rest \in SUBSET DataFiles : rest = job.todo \ {f}
    BY <1>3
  <2> QED
    BY <1>0, <1>3, <1>4, <2>1, JobGoesOn
<1>6. /\ From[f] \in Contents /\ To[f] \in Contents
      /\ job.dir \in DOMAIN backupDirs /\ job.kind \in {"backup", "restore"}
  BY <1>3, CopySides
<1>7. /\ From[f].tail \in Nat /\ c \in Contents /\ c = [head |-> To[f].head, tail |-> From[f].tail]
      /\ From[f] = [head |-> From[f].head, tail |-> From[f].tail]
  <2>1. From[f].tail \in Nat
    BY <1>6 DEF Contents
  <2> QED
    BY <1>1, <1>6, <2>1, HalvesOf
<1>8. CASE job.kind = "restore"
  <2>1. live' = Written(live, f, c) /\ UNCHANGED backupDirs
    BY <1>2, <1>8 DEF Receives, Written
  <2>2. JobTyped'
    BY <1>0, <1>2, <1>3, <1>5, <2>1 DEF JobTyped
  <2> QED
    BY <1>2, <1>5, <1>7, <1>8, <2>1, <2>2, LiveReceives
<1>9. CASE job.kind = "backup"
  <2>1. PICK d \in DOMAIN backupDirs : d = job.dir
    BY <1>6
  <2>2. backupDirs' = [backupDirs EXCEPT ![d].data[f] = c] /\ UNCHANGED live
    BY <1>2, <1>9, <2>1 DEF Receives
  <2>3. DOMAIN backupDirs' = DOMAIN backupDirs
    BY <2>2
  <2>4. JobTyped'
    BY <1>0, <1>2, <1>3, <1>5, <2>3 DEF JobTyped
  <2>5. \A g \in DataFiles : g # f => CopiedSoFar(g)' = CopiedSoFar(g)
    BY <1>2, <1>5, <2>2 DEF CopiedSoFar
  <2>6. From[f] = live[f] /\ To[f] = backupDirs[d].data[f]
    BY <1>9, <2>1 DEF From, To
  <2>7. CopiedSoFar(f)' = live[f]
    <3>1. PartOf[f] \in Nat /\ ~(PartOf[f] > job.part)
      BY <1>3, BackupAssumption DEF Database, Configs
    <3> QED
      BY <1>5, <2>2, <3>1 DEF CopiedSoFar
  <2>8. backupDirs[d].data[f] = CopiedSoFar(f) => c = CopiedSoFar(f)'
    <3> SUFFICES ASSUME backupDirs[d].data[f] = CopiedSoFar(f) PROVE c = live[f]
      BY <2>7
    <3>1. To[f] = [head |-> live[f].head, tail |-> Absent]
      BY <1>2, <2>6 DEF CopiedSoFar
    <3>2. To[f].head = From[f].head
      BY <2>6, <3>1
    <3> QED
      BY <1>7, <2>6, <3>2
  <2> QED
    BY <1>2, <1>5, <1>7, <1>9, <2>1, <2>2, <2>4, <2>5, <2>8, BackupReceives
<1> QED
  BY <1>6, <1>8, <1>9

(* A copy fails: the backup will not say success.                          *)
LEMMA CopyFailsKeeps ==
    ASSUME BackupInv, NEW f \in DataFiles, CopyFails(f)
    PROVE  BackupInv' /\ FinishedStays
<1>0. DirsTyped /\ JobTyped /\ LiveTyped /\ BackupUnderWay /\ SuccessIsComplete
  BY DEF BackupInv
<1>1. PICK rest : rest = LeftAfterError(f)
  OBVIOUS
<1>2. /\ f \in job.todo /\ UNCHANGED <<live, writing, backupDirs, writes, day, jobs>>
      /\ job' = [job EXCEPT !.half = {}, !.todo = rest, !.failed = TRUE]
  BY <1>1 DEF CopyFails
<1>3. /\ job.kind # "none" /\ job.part \in 0..3 /\ job.todo \in SUBSET DataFiles
  BY <1>2, JobCopies
<1>4. rest \in SUBSET DataFiles /\ rest \subseteq job.todo
  BY <1>1, <1>3 DEF LeftAfterError
<1>5. job' = JobMoved(job.part, rest, {}, TRUE)
  BY <1>0, <1>2, <1>3 DEF JobMoved, JobTyped, JobRecords
<1>6. /\ job' \in JobRecords(DOMAIN backupDirs) /\ job'.kind = job.kind /\ job'.dir = job.dir
      /\ job'.part = job.part /\ job'.todo = rest /\ job'.half = {} /\ job'.failed = TRUE
  <2>1. PICK none \in SUBSET DataFiles : none = {}
    OBVIOUS
  <2>2. PICK x \in BOOLEAN : x = TRUE
    OBVIOUS
  <2>3. job' = JobMoved(job.part, rest, none, x)
    BY <1>5, <2>1, <2>2
  <2>4. /\ job' \in JobRecords(DOMAIN backupDirs) /\ job'.kind = job.kind /\ job'.dir = job.dir
        /\ job'.part = job.part /\ job'.todo = rest /\ job'.half = none /\ job'.failed = x
    BY <1>0, <1>3, <1>4, <2>1, <2>3, JobGoesOn
  <2> QED
    BY <2>1, <2>2, <2>4
<1>7. JobTyped' /\ LiveTyped'
  BY <1>0, <1>2, <1>3, <1>4, <1>6 DEF JobTyped, LiveTyped
<1>8. DirsTyped' /\ SuccessIsComplete' /\ FinishedStays
  BY <1>0, <1>2, DirsStay DEF LiveTyped
<1>9. BackupUnderWay'
  BY <1>0, <1>2, <1>6 DEF BackupUnderWay
<1> QED
  BY <1>7, <1>8, <1>9 DEF BackupInv

(* A manifest that says success closes a backup that has all it owes.      *)
LEMMA WriteManifestKeeps ==
    ASSUME BackupInv, WriteManifest
    PROVE  BackupInv' /\ FinishedStays
<1>0. DirsTyped /\ JobTyped /\ LiveTyped /\ BackupUnderWay /\ SuccessIsComplete
  BY DEF BackupInv
<1>1. PICK m \in {IF job.failed THEN "partial" ELSE "success", "none"} :
          backupDirs' = [backupDirs EXCEPT ![job.dir].manifest = m]
  BY DEF WriteManifest
<1>2. /\ job.kind = "backup" /\ job.todo = {} /\ job.half = {} /\ job.part = 3 /\ job' = NoJob
      /\ UNCHANGED <<live, writing, writes, day, jobs>>
  BY <1>0 DEF WriteManifest, Copied, JobTyped, Configs
<1>3. PICK d \in DOMAIN backupDirs : d = job.dir
  BY <1>0, <1>2 DEF JobTyped
<1>4. PICK b : b = [backupDirs[d] EXCEPT !.manifest = m]
  OBVIOUS
<1>5. /\ backupDirs[d] \in BackupRecords /\ backupDirs[d].owes \in Owings /\ backupDirs[d].manifest = "none"
      /\ m \in Manifests
      /\ m = "success" => ~job.failed
  <2>1. job.failed \in BOOLEAN /\ (m = "none" \/ m = IF job.failed THEN "partial" ELSE "success")
    BY <1>0 DEF JobTyped, JobRecords
  <2>2. backupDirs[d] \in BackupRecords /\ backupDirs[d].owes \in Owings /\ backupDirs[d].manifest = "none"
    BY <1>0, <1>2, <1>3, BackupFields DEF DirsTyped, BackupUnderWay
  <2> QED
    BY <2>1, <2>2 DEF Manifests
<1>6. /\ b \in BackupRecords /\ b.manifest = m /\ b.data = backupDirs[d].data
      /\ b.owes = backupDirs[d].owes
  BY <1>4, <1>5, ManifestChanged
<1>7. b.manifest = "success" => \A f \in DOMAIN b.owes : b.data[f] = b.owes[f]
  <2> SUFFICES ASSUME m = "success", NEW f \in DOMAIN backupDirs[d].owes
               PROVE  backupDirs[d].data[f] = backupDirs[d].owes[f]
    BY <1>6
  <2>1. f \in DataFiles /\ live[f] = backupDirs[d].owes[f] /\ backupDirs[d].data[f] = CopiedSoFar(f)
    BY <1>0, <1>2, <1>3, <1>5, OwedFiles DEF BackupUnderWay
  <2>2. ~(PartOf[f] > job.part)
    BY <1>2, <2>1, BackupAssumption DEF Database, Configs
  <2> QED
    BY <1>2, <2>1, <2>2 DEF CopiedSoFar
<1>8. backupDirs' = [backupDirs EXCEPT ![d] = b]
  BY <1>1, <1>3, <1>4
<1>9. /\ DirsTyped' /\ SuccessIsComplete' /\ FinishedStays
  BY <1>0, <1>2, <1>5, <1>6, <1>7, <1>8, OneDirChanges
<1>10. JobTyped' /\ job'.kind # "backup" /\ LiveTyped'
  BY <1>0, <1>2, NoJobTyped DEF JobTyped, LiveTyped
<1>11. BackupUnderWay'
  BY <1>10 DEF BackupUnderWay
<1> QED
  BY <1>9, <1>10, <1>11 DEF BackupInv

(* What is left of a backup that is removed, and owes nothing.             *)
LEMMA RemainsAre ==
    ASSUME NEW b \in BackupRecords, NEW gone \in SUBSET DataFiles, NEW m \in {b.manifest, "none"}, day \in Nat
    PROVE  Remains(b, gone, m) \in BackupRecords /\ DOMAIN Remains(b, gone, m).owes = {}
<1>1. PICK r : r = Remains(b, gone, m)
  OBVIOUS
<1>2. PICK v : v = Stripped(b.data, gone)
  OBVIOUS
<1>3. PICK t : t = MadeAfter(b, gone, m)
  OBVIOUS
<1>4. r = [b EXCEPT !.data = v, !.manifest = m, !.owes = <<>>, !.made = t]
  BY <1>1, <1>2, <1>3 DEF Remains
<1>5. b.data \in Versions /\ b.manifest \in Manifests /\ b.made \in Nat
  BY BackupFields
<1>6. v \in Versions
  <2>1. NoContent \in Contents
    BY DEF NoContent, Contents, Absent
  <2> QED
    BY <1>2, <1>5, <2>1 DEF Versions, Stripped
<1>7. t \in Nat /\ m \in Manifests
  BY <1>1, <1>3, <1>5 DEF MadeAfter, Manifests
<1>8. PICK o \in Owings : o = <<>> /\ DOMAIN o = {}
  BY OwesNothing
<1>9. r = [b EXCEPT !.data = v, !.manifest = m, !.owes = o, !.made = t]
  BY <1>4, <1>8
<1>10. r \in BackupRecords /\ r.owes = o
  BY <1>6, <1>7, <1>9 DEF BackupRecords
<1> QED
  BY <1>1, <1>8, <1>10

(* An old backup goes, or loses files.                                     *)
LEMMA CleanupBackupKeeps ==
    ASSUME BackupInv, NEW d \in DOMAIN backupDirs, CleanupBackup(d)
    PROVE  BackupInv' /\ FinishedStays
<1>0. DirsTyped /\ JobTyped /\ LiveTyped /\ BackupUnderWay /\ SuccessIsComplete
  BY DEF BackupInv
<1>1. /\ job.kind = "none" /\ UNCHANGED <<live, writing, job, writes, day, jobs>>
      /\ day \in Nat /\ day - backupDirs[d].made > KeptDays
  BY <1>0 DEF CleanupBackup, TooOld, LiveTyped
<1>2. backupDirs[d] \in BackupRecords /\ backupDirs[d].made \in Nat /\ KeptDays \in Nat
  BY <1>0, BackupAssumption, BackupFields DEF DirsTyped
<1>3. day > backupDirs[d].made + KeptDays
  BY <1>1, <1>2
<1>4. /\ JobTyped' /\ LiveTyped' /\ BackupUnderWay'
  <2>1. job = NoJob
    BY <1>0, <1>1 DEF JobTyped
  <2> QED
    BY <1>0, <1>1, <2>1, NoJobTyped DEF JobTyped, LiveTyped, BackupUnderWay
<1>5. CASE backupDirs' = [e \in DOMAIN backupDirs \ {d} |-> backupDirs[e]]
  <2>1. /\ DOMAIN backupDirs' = DOMAIN backupDirs \ {d}
        /\ \A e \in DOMAIN backupDirs' : e \in DOMAIN backupDirs /\ backupDirs'[e] = backupDirs[e]
    BY <1>5
  <2>2. DirsTyped'
    <3>1. \A e \in DOMAIN backupDirs' : backupDirs'[e] \in BackupRecords
      BY <1>0, <2>1 DEF DirsTyped
    <3>2. \A e \in DOMAIN backupDirs' : \E n \in Nat : \E l, m : e = <<m, l, n>> /\ n < jobs'
      BY <1>0, <1>1, <2>1 DEF DirsTyped
    <3> QED
      BY <3>1, <3>2 DEF DirsTyped
  <2>3. SuccessIsComplete' /\ FinishedStays
    BY <1>0, <1>3, <2>1 DEF SuccessIsComplete, FinishedStays
  <2> QED
    BY <1>4, <2>2, <2>3 DEF BackupInv
<1>6. ASSUME NEW gone \in SUBSET DataFiles, NEW manifest \in {backupDirs[d].manifest, "none"},
             backupDirs' = [backupDirs EXCEPT ![d] = Remains(@, gone, manifest)]
      PROVE  BackupInv' /\ FinishedStays
  <2>0. PICK b : b = Remains(backupDirs[d], gone, manifest)
    OBVIOUS
  <2>1. b \in BackupRecords /\ DOMAIN b.owes = {}
    BY <1>1, <1>2, <2>0, RemainsAre
  <2>2. /\ DOMAIN backupDirs' = DOMAIN backupDirs /\ backupDirs'[d] = b
        /\ \A e \in DOMAIN backupDirs : e # d => backupDirs'[e] = backupDirs[e]
    BY <1>6, <2>0
  <2>3. DirsTyped'
    <3>1. \A e \in DOMAIN backupDirs' : backupDirs'[e] \in BackupRecords
      BY <1>0, <2>1, <2>2 DEF DirsTyped
    <3>2. \A e \in DOMAIN backupDirs' : \E n \in Nat : \E l, m : e = <<m, l, n>> /\ n < jobs'
      BY <1>0, <1>1, <2>2 DEF DirsTyped
    <3> QED
      BY <3>1, <3>2 DEF DirsTyped
  <2>4. SuccessIsComplete' /\ FinishedStays
    BY <1>0, <1>3, <2>1, <2>2 DEF SuccessIsComplete, FinishedStays
  <2> QED
    BY <1>4, <2>3, <2>4 DEF BackupInv
<1> QED
  BY <1>5, <1>6 DEF CleanupBackup
-----------------------------------------------------------------------------

(* No backup exists at the start.                                          *)
LEMMA BackupInitially == BackupInit => BackupInv
<1> SUFFICES ASSUME BackupInit PROVE BackupInv
  OBVIOUS
<1>1. /\ DOMAIN backupDirs = {} /\ job = NoJob /\ writes = 1 /\ day = 0 /\ jobs = 0
      /\ writing = [f \in DataFiles |-> Absent]
      /\ live = [f \in DataFiles |-> IF f \in FirstFiles THEN [head |-> 1, tail |-> 1] ELSE NoContent]
  BY DEF BackupInit
<1>2. LiveTyped
  <2>1. NoContent \in Contents /\ [head |-> 1, tail |-> 1] \in Contents
    BY DEF NoContent, Contents, Absent
  <2>2. live \in Versions
    BY <1>1, <2>1 DEF Versions
  <2> QED
    BY <1>1, <2>2 DEF LiveTyped, Absent
<1>3. JobTyped
  BY <1>1, NoJobTyped DEF JobTyped
<1> QED
  BY <1>1, <1>2, <1>3 DEF BackupInv, DirsTyped, BackupUnderWay, SuccessIsComplete

(* Every step of writers, backups, restores and cleaning keeps the         *)
(* invariant.                                                              *)
LEMMA BackupStepsKeep ==
    ASSUME BackupInv, BackupStep
    PROVE  BackupInv' /\ FinishedStays
  BY OpenWriteKeeps, EndOfWriteKeeps, DayPassesKeeps, BeginBackupKeeps, OpenPartKeeps,
     CopyHeadKeeps, CopyTailKeeps, CopyFailsKeeps, WriteManifestKeeps, JobEndsKeeps,
     BeginRestoreKeeps, CleanupBackupKeeps
     DEF BackupStep

(* The invariant is inductive, and a step keeps the finished backups.      *)
LEMMA BackupNext ==
    BackupInv /\ [BackupStep]_backupVars => BackupInv' /\ FinishedStays
<1> SUFFICES ASSUME BackupInv, [BackupStep]_backupVars PROVE BackupInv' /\ FinishedStays
  OBVIOUS
<1>1. CASE BackupStep
  BY <1>1, BackupStepsKeep
<1>2. CASE UNCHANGED backupVars
  <2>1. UNCHANGED <<live, writing, backupDirs, job, writes, day, jobs>>
    BY <1>2 DEF backupVars
  <2>2. DirsTyped' /\ SuccessIsComplete' /\ FinishedStays
    BY <2>1, DirsStay DEF BackupInv, LiveTyped
  <2>3. JobTyped' /\ LiveTyped'
    BY <2>1 DEF BackupInv, JobTyped, LiveTyped
  <2>4. BackupUnderWay'
    BY <2>1 DEF BackupInv, BackupUnderWay, CopiedSoFar
  <2> QED
    BY <2>2, <2>3, <2>4 DEF BackupInv
<1> QED
  BY <1>1, <1>2

(* The types hold, for any files, writes, days and jobs.                   *)
LEMMA BackupInvTypes == BackupInv => BackupTypeOK
<1> SUFFICES ASSUME BackupInv PROVE BackupTypeOK
  OBVIOUS
<1>1. \A d \in DOMAIN backupDirs :
          /\ backupDirs[d].data \in Versions /\ backupDirs[d].owes \in Owings
          /\ backupDirs[d].manifest \in Manifests
  BY BackupFields DEF BackupInv, DirsTyped
<1>2. \A d \in DOMAIN backupDirs : DOMAIN backupDirs[d].owes \subseteq DataFiles
  BY <1>1, OwedFiles
<1>3. /\ job.kind \in {"none", "backup", "restore"}
      /\ job.kind # "none" => job.dir \in DOMAIN backupDirs
      /\ job.todo \subseteq DataFiles /\ job.half \subseteq job.todo
  BY DEF BackupInv, JobTyped, JobRecords
<1> QED
  BY <1>1, <1>2, <1>3 DEF BackupInv, LiveTyped, BackupTypeOK, Manifests

(* The inductive invariant of the backups holds in every reachable state.  *)
THEOREM BackupInvariant == BackupSpec => []BackupInv
  BY BackupInitially, BackupNext, PTL DEF BackupSpec

(* A backup that says success has every file that nobody wrote meanwhile   *)
(* as it was, for any files, writers, failed or torn copies, deaths,       *)
(* restores and removals cut short (backup.py:57-132).                     *)
THEOREM SuccessMeansComplete == BackupSpec => []SuccessIsComplete
<1>1. BackupInv => SuccessIsComplete
  BY DEF BackupInv
<1> QED
  BY <1>1, BackupInvariant, PTL

(* A finished backup is never written again and goes, or loses files, only *)
(* past its retention (backup.py:47-55, 266-287).                          *)
THEOREM FinishedAreKept == BackupSpec => FinishedBackupsStay
<1>1. BackupInv /\ [BackupStep]_backupVars => [FinishedStays]_backupVars
  BY BackupNext
<1> QED
  BY <1>1, BackupInvariant, PTL DEF BackupSpec, FinishedBackupsStay, FinishedStays
-----------------------------------------------------------------------------
(* Projects and uploads.                                                   *)
Underway == {"derived", "outputs", "meta"}

CreatorStates == [at : {"idle", "source"} \cup Underway, project : FileProjects \cup {NoProject}]

DirParts == {"dir", "source", "derived", "meta"}

ProjectsTyped ==
    /\ dirs \in [FileProjects -> SUBSET DirParts]
    /\ age \in Nat /\ born \in [FileProjects -> Nat] /\ \A p \in FileProjects : born[p] <= age
    /\ outputs \subseteq FileProjects /\ stuck \subseteq FileProjects /\ gutted \subseteq FileProjects
    /\ creator \in [Creators -> CreatorStates]
    /\ \A c \in Creators : creator[c].at # "idle" => creator[c].project \in FileProjects
    /\ founders \in [FileProjects -> Nat]
    /\ sweeping \in FileProjects \cup {NoProject}

\* A directory that no sweep has begun to remove has its source; a request past
\* it is alone, and of today.
CreationsSound ==
    /\ \A p \in FileProjects : dirs[p] # {} => "dir" \in dirs[p]
    /\ \A p \in FileProjects : dirs[p] # {} /\ p \notin gutted => "source" \in dirs[p]
    /\ \A c \in Creators : \A p \in FileProjects :
          creator[c].at \in Underway /\ creator[c].project = p =>
             /\ dirs[p] # {} /\ born[p] = age /\ founders[p] = 0
             /\ creator[c].at # "derived" => "derived" \in dirs[p]
             /\ \A d \in Creators : creator[d].at \in Underway /\ creator[d].project = p => c = d

\* What a sweep has left is a directory, and of no request that runs: a request
\* has come today, like the directory of its project if there is one.
GuttedSound ==
    /\ \A p \in gutted : dirs[p] # {}
    /\ \A c \in Creators : \A p \in FileProjects :
          creator[c].at # "idle" /\ creator[c].project = p =>
             p \notin gutted /\ (dirs[p] # {} => born[p] = age)

\* What is swept is an old smoke project, its output gone or stuck.
SweepSound ==
    \A p \in FileProjects : p = sweeping /\ sweeping # NoProject =>
        /\ dirs[p] # {} /\ p \in SmokeProjects /\ age >= born[p] + SmokeDays
        /\ p \in outputs => p \in stuck

ProjectsInv == ProjectsTyped /\ CreationsSound /\ GuttedSound /\ SweepSound /\ FoundedOnce /\ NoOutputBehind

\* A creator before and after a step.
LEMMA CreatorGoes ==
    ASSUME ProjectsTyped, NEW c \in Creators, NEW at \in {"idle", "source"} \cup Underway,
           at # "idle" => creator[c].project \in FileProjects, Goes(c, at)
    PROVE  /\ creator' \in [Creators -> CreatorStates]
           /\ creator'[c].at = at
           /\ \A d \in Creators : /\ creator'[d].project = creator[d].project
                                  /\ d # c => creator'[d].at = creator[d].at
                                  /\ creator'[d].at # "idle" => creator'[d].project \in FileProjects
<1>1. PICK e : e = [creator[c] EXCEPT !.at = at]
  OBVIOUS
<1>2. creator' = [creator EXCEPT ![c] = e] /\ creator \in [Creators -> CreatorStates]
  BY <1>1 DEF Goes, ProjectsTyped
<1>3. creator[c] \in CreatorStates
  BY <1>2
<1>4. e \in CreatorStates /\ e.at = at /\ e.project = creator[c].project
  BY <1>1, <1>3 DEF CreatorStates
<1> QED
  BY <1>2, <1>4 DEF ProjectsTyped

(* A creator that finds no directory of the name goes on.                  *)
LEMMA AskForProjectKeeps ==
    ASSUME ProjectsInv, NEW c \in Creators, NEW p \in FileProjects, AskForProject(c, p)
    PROVE  ProjectsInv'
<1>1. PICK e : e = [at |-> "source", project |-> p]
  OBVIOUS
<1>2. /\ creator' = [creator EXCEPT ![c] = e] /\ creator \in [Creators -> CreatorStates]
      /\ UNCHANGED <<dirs, born, outputs, files, founders, sweeping, stuck, gutted, age, uploads>>
      /\ creator[c].at = "idle" /\ ~HasDir(p)
  BY <1>1 DEF AskForProject, ProjectsInv, ProjectsTyped
<1>3. e \in CreatorStates /\ e.at = "source" /\ e.project = p
  BY <1>1 DEF CreatorStates
<1>4. ProjectsTyped'
  BY <1>2, <1>3 DEF ProjectsInv, ProjectsTyped
<1>5. \A d \in Creators : creator'[d].at \in Underway =>
          creator'[d].at = creator[d].at /\ creator'[d].project = creator[d].project
  BY <1>2, <1>3 DEF Underway
<1>6. CreationsSound'
  BY <1>2, <1>5 DEF ProjectsInv, CreationsSound
<1>7. SweepSound' /\ FoundedOnce' /\ NoOutputBehind'
  BY <1>2 DEF ProjectsInv, SweepSound, FoundedOnce, Visible, NoOutputBehind
<1>8. GuttedSound'
  <2>1. dirs[p] = {} /\ p \notin gutted
    BY <1>2 DEF ProjectsInv, CreationsSound, GuttedSound, HasDir
  <2>2. /\ creator'[c] = e /\ \A d \in Creators : d # c => creator'[d] = creator[d]
    BY <1>2
  <2>3. \A d \in Creators : \A q \in FileProjects :
            creator'[d].at # "idle" /\ creator'[d].project = q =>
               q \notin gutted /\ (dirs[q] # {} => born[q] = age)
    BY <1>3, <2>1, <2>2 DEF ProjectsInv, GuttedSound
  <2> QED
    BY <1>2, <2>3 DEF ProjectsInv, GuttedSound
<1> QED
  BY <1>4, <1>6, <1>7, <1>8 DEF ProjectsInv

(* The first directory is made by one creator only.                        *)
LEMMA MakeSourceKeeps ==
    ASSUME ProjectsInv, NEW c \in Creators, MakeSource(c)
    PROVE  ProjectsInv'
<1>0. ProjectsTyped /\ CreationsSound /\ GuttedSound /\ SweepSound /\ FoundedOnce /\ NoOutputBehind
  BY DEF ProjectsInv
<1>1. PICK p \in FileProjects : p = creator[c].project
  BY <1>0 DEF MakeSource, ProjectsTyped
<1>2. UNCHANGED <<outputs, files, founders, sweeping, stuck, gutted, age, creations, uploads>> /\ creator[c].at = "source"
  BY DEF MakeSource
<1>3. CASE "source" \in dirs[p]
  <2>1. Goes(c, "idle") /\ UNCHANGED <<dirs, born>>
    BY <1>1, <1>3 DEF MakeSource
  <2>2. /\ creator' \in [Creators -> CreatorStates] /\ creator'[c].at = "idle"
        /\ \A d \in Creators : /\ creator'[d].project = creator[d].project
                               /\ d # c => creator'[d].at = creator[d].at
                               /\ creator'[d].at # "idle" => creator'[d].project \in FileProjects
    BY <1>0, <2>1, CreatorGoes
  <2>3. ProjectsTyped'
    BY <1>0, <1>2, <2>1, <2>2 DEF ProjectsTyped
  <2>4. CreationsSound'
    BY <1>0, <1>2, <2>1, <2>2 DEF CreationsSound, Underway
  <2>5. SweepSound' /\ FoundedOnce' /\ NoOutputBehind'
    BY <1>0, <1>2, <2>1 DEF SweepSound, FoundedOnce, Visible, NoOutputBehind
  <2>6. GuttedSound'
    BY <1>0, <1>2, <2>1, <2>2 DEF GuttedSound
  <2> QED
    BY <2>3, <2>4, <2>5, <2>6 DEF ProjectsInv
<1>4. CASE "source" \notin dirs[p]
  <2>1. /\ dirs' = [dirs EXCEPT ![p] = dirs[p] \cup {"dir", "source"}]
        /\ born' = [born EXCEPT ![p] = age] /\ Goes(c, "derived")
    BY <1>1, <1>4 DEF MakeSource
  <2>2. /\ creator' \in [Creators -> CreatorStates] /\ creator'[c].at = "derived"
        /\ \A d \in Creators : /\ creator'[d].project = creator[d].project
                               /\ d # c => creator'[d].at = creator[d].at
                               /\ creator'[d].at # "idle" => creator'[d].project \in FileProjects
    BY <1>0, <1>1, <2>1, CreatorGoes DEF Underway
  <2>3. dirs[p] = {} /\ p \notin gutted
    BY <1>0, <1>1, <1>2, <1>4 DEF CreationsSound, GuttedSound
  <2>4. /\ dirs' \in [FileProjects -> SUBSET DirParts] /\ born' \in [FileProjects -> Nat]
        /\ dirs'[p] = {"dir", "source"} /\ born'[p] = age /\ age \in Nat
        /\ \A q \in FileProjects : q # p => dirs'[q] = dirs[q] /\ born'[q] = born[q]
    BY <1>0, <2>1, <2>3 DEF ProjectsTyped, DirParts
  <2>5. founders[p] = 0
    BY <1>0, <2>3 DEF FoundedOnce, ProjectsTyped, Visible
  <2>6. ProjectsTyped'
    BY <1>0, <1>2, <2>2, <2>4 DEF ProjectsTyped
  <2>7. \A d \in Creators : creator'[d].at \in Underway /\ creator'[d].project = p => d = c
    BY <1>0, <2>2, <2>3 DEF CreationsSound
  <2>8. CreationsSound'
    <3>1. /\ \A q \in FileProjects : dirs'[q] # {} => "dir" \in dirs'[q]
          /\ \A q \in FileProjects : dirs'[q] # {} /\ q \notin gutted => "source" \in dirs'[q]
      BY <1>0, <2>4 DEF CreationsSound
    <3>2. ASSUME NEW d \in Creators, NEW q \in FileProjects, creator'[d].at \in Underway, creator'[d].project = q
          PROVE  /\ dirs'[q] # {} /\ born'[q] = age /\ founders[q] = 0
                 /\ creator'[d].at # "derived" => "derived" \in dirs'[q]
                 /\ \A e \in Creators : creator'[e].at \in Underway /\ creator'[e].project = q => d = e
      <4>1. CASE d = c
        BY <1>1, <2>2, <2>4, <2>5, <2>7, <3>2, <4>1
      <4>2. CASE d # c
        <5>1. creator[d].at = creator'[d].at /\ creator[d].project = q /\ q # p
          BY <2>2, <2>7, <3>2, <4>2
        <5>2. /\ dirs[q] # {} /\ born[q] = age /\ founders[q] = 0
              /\ creator[d].at # "derived" => "derived" \in dirs[q]
              /\ \A e \in Creators : creator[e].at \in Underway /\ creator[e].project = q => d = e
          BY <1>0, <3>2, <5>1 DEF CreationsSound
        <5>3. \A e \in Creators : creator'[e].project = q => e # c
          BY <1>1, <2>2, <5>1
        <5> QED
          BY <2>2, <2>4, <5>1, <5>2, <5>3
      <4> QED
        BY <4>1, <4>2
    <3> QED
      BY <1>2, <3>1, <3>2 DEF CreationsSound
  <2>9. SweepSound' /\ FoundedOnce' /\ NoOutputBehind'
    <3>1. SweepSound'
      BY <1>0, <1>2, <2>3, <2>4 DEF SweepSound
    <3>2. FoundedOnce'
      BY <1>0, <1>2, <2>4, <2>5 DEF FoundedOnce, Visible
    <3>3. NoOutputBehind'
      BY <1>0, <1>2, <2>4 DEF NoOutputBehind, ProjectsTyped
    <3> QED
      BY <3>1, <3>2, <3>3
  <2>10. GuttedSound'
    <3>1. \A d \in Creators : creator'[d].at # "idle" =>
              creator[d].at # "idle" /\ creator'[d].project = creator[d].project
      BY <1>2, <2>2
    <3>2. \A d \in Creators : \A q \in FileProjects :
              creator'[d].at # "idle" /\ creator'[d].project = q =>
                 q \notin gutted /\ (dirs'[q] # {} => born'[q] = age)
      BY <1>0, <2>3, <2>4, <3>1 DEF GuttedSound
    <3>3. \A q \in gutted : dirs'[q] # {}
      BY <1>0, <2>4 DEF GuttedSound, ProjectsTyped
    <3> QED
      BY <1>2, <3>2, <3>3 DEF GuttedSound
  <2> QED
    BY <2>6, <2>8, <2>9, <2>10 DEF ProjectsInv
<1> QED
  BY <1>3, <1>4

(* The second directory is made by the creator of the first.               *)
LEMMA MakeDerivedKeeps ==
    ASSUME ProjectsInv, NEW c \in Creators, MakeDerived(c)
    PROVE  ProjectsInv'
<1>0. ProjectsTyped /\ CreationsSound /\ GuttedSound /\ SweepSound /\ FoundedOnce /\ NoOutputBehind
  BY DEF ProjectsInv
<1>1. PICK p \in FileProjects : p = creator[c].project
  BY <1>0 DEF MakeDerived, ProjectsTyped
<1>2. /\ UNCHANGED <<born, outputs, files, founders, sweeping, stuck, gutted, age, creations, uploads>>
      /\ creator[c].at = "derived" /\ dirs' = [dirs EXCEPT ![p] = dirs[p] \cup {"derived"}] /\ Goes(c, "outputs")
  BY <1>1 DEF MakeDerived
<1>3. /\ creator' \in [Creators -> CreatorStates] /\ creator'[c].at = "outputs"
      /\ \A d \in Creators : /\ creator'[d].project = creator[d].project
                             /\ d # c => creator'[d].at = creator[d].at
                             /\ creator'[d].at # "idle" => creator'[d].project \in FileProjects
  BY <1>0, <1>1, <1>2, CreatorGoes DEF Underway
<1>4. /\ dirs' \in [FileProjects -> SUBSET DirParts]
      /\ dirs'[p] = dirs[p] \cup {"derived"}
      /\ \A q \in FileProjects : q # p => dirs'[q] = dirs[q]
  BY <1>0, <1>2 DEF ProjectsTyped, DirParts
<1>5. dirs[p] # {}
  BY <1>0, <1>1, <1>2 DEF CreationsSound, Underway
<1>6. ProjectsTyped'
  BY <1>0, <1>2, <1>3, <1>4 DEF ProjectsTyped
<1>7. CreationsSound'
  BY <1>0, <1>1, <1>2, <1>3, <1>4, <1>5 DEF CreationsSound, Underway
<1>8. SweepSound' /\ FoundedOnce' /\ NoOutputBehind'
  BY <1>0, <1>2, <1>4, <1>5 DEF SweepSound, FoundedOnce, Visible, NoOutputBehind, ProjectsTyped
<1>11. GuttedSound'
  <2>1. \A d \in Creators : creator'[d].at # "idle" =>
            creator[d].at # "idle" /\ creator'[d].project = creator[d].project
    BY <1>2, <1>3
  <2>2. \A d \in Creators : \A q \in FileProjects :
            creator'[d].at # "idle" /\ creator'[d].project = q =>
               q \notin gutted /\ (dirs'[q] # {} => born[q] = age)
    BY <1>0, <2>1, <1>2, <1>4, <1>5 DEF GuttedSound
  <2>3. \A q \in gutted : dirs'[q] # {}
    BY <1>0, <1>2, <1>4, <1>5 DEF GuttedSound, ProjectsTyped
  <2> QED
    BY <1>2, <2>2, <2>3 DEF GuttedSound
<1> QED
  BY <1>6, <1>7, <1>8, <1>11 DEF ProjectsInv

(* The third directory is made by the creator of the first.                *)
LEMMA MakeOutputsKeeps ==
    ASSUME ProjectsInv, NEW c \in Creators, MakeOutputs(c)
    PROVE  ProjectsInv'
<1>0. ProjectsTyped /\ CreationsSound /\ GuttedSound /\ SweepSound /\ FoundedOnce /\ NoOutputBehind
  BY DEF ProjectsInv
<1>1. PICK p \in FileProjects : p = creator[c].project
  BY <1>0 DEF MakeOutputs, ProjectsTyped
<1>2. /\ UNCHANGED <<dirs, born, files, founders, sweeping, stuck, gutted, age, creations, uploads>>
      /\ creator[c].at = "outputs" /\ outputs' = outputs \cup {p} /\ Goes(c, "meta")
  BY <1>1 DEF MakeOutputs
<1>3. /\ creator' \in [Creators -> CreatorStates] /\ creator'[c].at = "meta"
      /\ \A d \in Creators : /\ creator'[d].project = creator[d].project
                             /\ d # c => creator'[d].at = creator[d].at
                             /\ creator'[d].at # "idle" => creator'[d].project \in FileProjects
  BY <1>0, <1>1, <1>2, CreatorGoes DEF Underway
<1>5. dirs[p] # {} /\ born[p] = age /\ "derived" \in dirs[p]
  BY <1>0, <1>1, <1>2 DEF CreationsSound, Underway
<1>6. ProjectsTyped'
  BY <1>0, <1>2, <1>3 DEF ProjectsTyped
<1>7. CreationsSound'
  BY <1>0, <1>1, <1>2, <1>3, <1>5 DEF CreationsSound, Underway
<1>8. SweepSound'
  <2>1. age \in Nat /\ SmokeDays \in Nat \ {0} /\ ~(age >= age + SmokeDays)
    BY <1>0, ProjectFilesAssumption DEF ProjectsTyped
  <2> QED
    BY <1>0, <1>2, <1>5, <2>1 DEF SweepSound
<1>9. FoundedOnce' /\ NoOutputBehind'
  BY <1>0, <1>2, <1>5 DEF FoundedOnce, Visible, NoOutputBehind
<1>11. GuttedSound'
  <2>1. \A d \in Creators : creator'[d].at # "idle" =>
            creator[d].at # "idle" /\ creator'[d].project = creator[d].project
    BY <1>2, <1>3
  <2>2. \A d \in Creators : \A q \in FileProjects :
            creator'[d].at # "idle" /\ creator'[d].project = q =>
               q \notin gutted /\ (dirs'[q] # {} => born[q] = age)
    BY <1>0, <2>1, <1>2 DEF GuttedSound
  <2>3. \A q \in gutted : dirs'[q] # {}
    BY <1>0, <1>2 DEF GuttedSound, ProjectsTyped
  <2> QED
    BY <1>2, <2>2, <2>3 DEF GuttedSound
<1> QED
  BY <1>6, <1>7, <1>8, <1>9, <1>11 DEF ProjectsInv

(* The metadata are written by the creator of the directories.             *)
LEMMA WriteMetadataKeeps ==
    ASSUME ProjectsInv, NEW c \in Creators, WriteMetadata(c)
    PROVE  ProjectsInv'
<1>0. ProjectsTyped /\ CreationsSound /\ GuttedSound /\ SweepSound /\ FoundedOnce /\ NoOutputBehind
  BY DEF ProjectsInv
<1>1. PICK p \in FileProjects : p = creator[c].project
  BY <1>0 DEF WriteMetadata, ProjectsTyped
<1>2. /\ UNCHANGED <<born, outputs, files, sweeping, stuck, gutted, age, creations, uploads>>
      /\ creator[c].at = "meta" /\ dirs' = [dirs EXCEPT ![p] = dirs[p] \cup {"meta"}]
      /\ founders' = [founders EXCEPT ![p] = founders[p] + 1] /\ Goes(c, "idle")
  BY <1>1 DEF WriteMetadata
<1>3. /\ creator' \in [Creators -> CreatorStates] /\ creator'[c].at = "idle"
      /\ \A d \in Creators : /\ creator'[d].project = creator[d].project
                             /\ d # c => creator'[d].at = creator[d].at
                             /\ creator'[d].at # "idle" => creator'[d].project \in FileProjects
  BY <1>0, <1>1, <1>2, CreatorGoes DEF Underway
<1>5. /\ dirs[p] # {} /\ "derived" \in dirs[p] /\ founders[p] = 0
      /\ \A d \in Creators : creator[d].at \in Underway /\ creator[d].project = p => d = c
  BY <1>0, <1>1, <1>2 DEF CreationsSound, Underway
<1>4. /\ dirs' \in [FileProjects -> SUBSET DirParts] /\ founders' \in [FileProjects -> Nat]
      /\ dirs'[p] = dirs[p] \cup {"meta"} /\ founders'[p] = 1
      /\ \A q \in FileProjects : q # p => dirs'[q] = dirs[q] /\ founders'[q] = founders[q]
  BY <1>0, <1>2, <1>5 DEF ProjectsTyped, DirParts
<1>6. ProjectsTyped'
  BY <1>0, <1>2, <1>3, <1>4 DEF ProjectsTyped
<1>10. \A d \in Creators : creator'[d].at \in Underway =>
          /\ creator'[d].at = creator[d].at /\ creator'[d].project = creator[d].project
          /\ creator[d].project # p
  BY <1>3, <1>5 DEF Underway
<1>7. CreationsSound'
  BY <1>0, <1>2, <1>4, <1>5, <1>10 DEF CreationsSound
<1>8. SweepSound' /\ NoOutputBehind'
  BY <1>0, <1>2, <1>4, <1>5 DEF SweepSound, NoOutputBehind, ProjectsTyped
<1>9. FoundedOnce'
  <2>1. p \notin gutted /\ "source" \in dirs[p]
    BY <1>0, <1>1, <1>2, <1>5 DEF CreationsSound, GuttedSound
  <2> QED
    BY <1>0, <1>2, <1>4, <1>5, <2>1 DEF FoundedOnce, Visible
<1>11. GuttedSound'
  <2>1. \A d \in Creators : creator'[d].at # "idle" =>
            creator[d].at # "idle" /\ creator'[d].project = creator[d].project
    BY <1>2, <1>3
  <2>2. \A d \in Creators : \A q \in FileProjects :
            creator'[d].at # "idle" /\ creator'[d].project = q =>
               q \notin gutted /\ (dirs'[q] # {} => born[q] = age)
    BY <1>0, <2>1, <1>2, <1>4, <1>5 DEF GuttedSound
  <2>3. \A q \in gutted : dirs'[q] # {}
    BY <1>0, <1>2, <1>4, <1>5 DEF GuttedSound, ProjectsTyped
  <2> QED
    BY <1>2, <2>2, <2>3 DEF GuttedSound
<1> QED
  BY <1>6, <1>7, <1>8, <1>9, <1>11 DEF ProjectsInv

(* A creation that fails leaves its directories.                           *)
LEMMA CreationFailsKeeps ==
    ASSUME ProjectsInv, NEW c \in Creators, CreationFails(c)
    PROVE  ProjectsInv'
<1>0. ProjectsTyped /\ CreationsSound /\ GuttedSound /\ SweepSound /\ FoundedOnce /\ NoOutputBehind
  BY DEF ProjectsInv
<1>2. /\ UNCHANGED <<dirs, born, outputs, files, founders, sweeping, stuck, gutted, age, creations, uploads>>
      /\ Goes(c, "idle") /\ creator[c].at # "idle"
  BY DEF CreationFails
<1>3. /\ creator' \in [Creators -> CreatorStates] /\ creator'[c].at = "idle"
      /\ \A d \in Creators : /\ creator'[d].project = creator[d].project
                             /\ d # c => creator'[d].at = creator[d].at
                             /\ creator'[d].at # "idle" => creator'[d].project \in FileProjects
  BY <1>0, <1>2, CreatorGoes
<1>6. ProjectsTyped'
  BY <1>0, <1>2, <1>3 DEF ProjectsTyped
<1>7. CreationsSound'
  BY <1>0, <1>2, <1>3 DEF CreationsSound, Underway
<1>8. SweepSound' /\ NoOutputBehind' /\ FoundedOnce'
  BY <1>0, <1>2 DEF SweepSound, NoOutputBehind, FoundedOnce, Visible
<1>11. GuttedSound'
  <2>1. \A d \in Creators : creator'[d].at # "idle" =>
            creator[d].at # "idle" /\ creator'[d].project = creator[d].project
    BY <1>2, <1>3
  <2>2. \A d \in Creators : \A q \in FileProjects :
            creator'[d].at # "idle" /\ creator'[d].project = q =>
               q \notin gutted /\ (dirs'[q] # {} => born[q] = age)
    BY <1>0, <2>1, <1>2 DEF GuttedSound
  <2>3. \A q \in gutted : dirs'[q] # {}
    BY <1>0, <1>2 DEF GuttedSound, ProjectsTyped
  <2> QED
    BY <1>2, <2>2, <2>3 DEF GuttedSound
<1> QED
  BY <1>6, <1>7, <1>8, <1>11 DEF ProjectsInv

(* A day goes by while nobody creates a project.                           *)
LEMMA DayGoesByKeeps ==
    ASSUME ProjectsInv, DayGoesBy, sweeping = NoProject
    PROVE  ProjectsInv'
<1>0. ProjectsTyped /\ CreationsSound /\ GuttedSound /\ FoundedOnce /\ NoOutputBehind
  BY DEF ProjectsInv
<1>2. /\ UNCHANGED <<dirs, born, outputs, files, creator, founders, sweeping, stuck, gutted, creations, uploads>>
      /\ age' = age + 1 /\ \A c \in Creators : creator[c].at = "idle"
  BY DEF DayGoesBy
<1>6. ProjectsTyped'
  BY <1>0, <1>2 DEF ProjectsTyped
<1>7. CreationsSound'
  BY <1>0, <1>2 DEF CreationsSound, Underway
<1>8. SweepSound' /\ NoOutputBehind' /\ FoundedOnce'
  BY <1>0, <1>2 DEF SweepSound, NoOutputBehind, FoundedOnce, Visible
<1>9. GuttedSound'
  BY <1>0, <1>2 DEF GuttedSound
<1> QED
  BY <1>6, <1>7, <1>8, <1>9 DEF ProjectsInv

(* The sweep removes the outputs before their project.                     *)
LEMMA SweepOutputKeeps ==
    ASSUME ProjectsInv, NEW p \in FileProjects, SweepOutput(p)
    PROVE  ProjectsInv'
<1>0. ProjectsTyped /\ CreationsSound /\ GuttedSound /\ FoundedOnce /\ NoOutputBehind
  BY DEF ProjectsInv
<1>2. /\ UNCHANGED <<dirs, born, files, creator, founders, gutted, age, creations, uploads>>
      /\ Expired(p) /\ sweeping' = p
      /\ \/ outputs' = outputs \ {p} /\ stuck' = stuck
         \/ stuck' = stuck \cup {p} /\ outputs' = outputs
  BY DEF SweepOutput
<1>3. dirs[p] # {} /\ p \in SmokeProjects /\ age >= born[p] + SmokeDays
  <2>1. age \in Nat /\ born[p] \in Nat /\ SmokeDays \in Nat
    BY <1>0, ProjectFilesAssumption DEF ProjectsTyped
  <2>2. dirs[p] # {} /\ p \in SmokeProjects /\ age - born[p] >= SmokeDays
    BY <1>2 DEF Expired, HasDir
  <2> QED
    BY <2>1, <2>2
<1>6. ProjectsTyped'
  BY <1>0, <1>2 DEF ProjectsTyped
<1>7. CreationsSound' /\ GuttedSound' /\ FoundedOnce'
  BY <1>0, <1>2 DEF CreationsSound, GuttedSound, FoundedOnce, Visible
<1>8. SweepSound'
  BY <1>0, <1>2, <1>3 DEF SweepSound
<1>9. NoOutputBehind'
  BY <1>0, <1>2 DEF NoOutputBehind
<1> QED
  BY <1>6, <1>7, <1>8, <1>9 DEF ProjectsInv

(* What a sweep does to its project: any of its directories and files may  *)
(* stay, and the day of the project is today if one has gone.              *)
LEMMA ProjectSwept ==
    ASSUME ProjectsTyped, SweepProject
    PROVE  \E p \in FileProjects : \E kept \in SUBSET DirParts : \E names \in SUBSET DOMAIN files[p] :
               \E when \in Nat, founded \in Nat :
               /\ p = sweeping /\ sweeping # NoProject /\ sweeping' = NoProject
               /\ kept # {} => "dir" \in kept
               /\ dirs' = [dirs EXCEPT ![p] = kept]
               /\ files' = [files EXCEPT ![p] = [f \in names |-> files[p][f]]]
               /\ founders' = [founders EXCEPT ![p] = founded]
               /\ IF kept = {} THEN founded = 0 /\ gutted' = gutted \ {p}
                               ELSE founded = founders[p] /\ gutted' = gutted \cup {p}
               /\ born' = [born EXCEPT ![p] = when] /\ when <= age
               /\ UNCHANGED <<outputs, creator, stuck, age, creations, uploads>>
<1>1. PICK p \in FileProjects : p = sweeping /\ sweeping # NoProject
  BY DEF SweepProject, ProjectsTyped
<1>2. PICK kept \in SUBSET dirs[p], names \in SUBSET DOMAIN files[p] : Leaves(p, kept, names)
  BY <1>1 DEF SweepProject
<1>9. /\ kept # {} => "dir" \in kept
      /\ dirs' = [dirs EXCEPT ![p] = kept]
      /\ files' = [files EXCEPT ![p] = [f \in names |-> files[p][f]]]
      /\ founders' = [founders EXCEPT ![p] = IF kept = {} THEN 0 ELSE founders[p]]
      /\ gutted' = IF kept = {} THEN gutted \ {p} ELSE gutted \cup {p}
      /\ born' = [born EXCEPT ![p] = IF kept = dirs[p] THEN born[p] ELSE age]
  BY <1>2 DEF Leaves
<1>3. PICK when : when = IF kept = dirs[p] THEN born[p] ELSE age
  OBVIOUS
<1>4. PICK founded : founded = IF kept = {} THEN 0 ELSE founders[p]
  OBVIOUS
<1>5. when \in Nat /\ when <= age /\ founded \in Nat /\ kept \in SUBSET DirParts
  BY <1>3, <1>4 DEF ProjectsTyped
<1>6. sweeping' = NoProject /\ UNCHANGED <<outputs, creator, stuck, age, creations, uploads>>
  BY DEF SweepProject
<1>7. IF kept = {} THEN founded = 0 /\ gutted' = gutted \ {p}
                   ELSE founded = founders[p] /\ gutted' = gutted \cup {p}
  BY <1>9, <1>4
<1>8. founders' = [founders EXCEPT ![p] = founded] /\ born' = [born EXCEPT ![p] = when]
  BY <1>9, <1>3, <1>4
<1> QED
  BY <1>1, <1>2, <1>9, <1>5, <1>6, <1>7, <1>8

(* A project that was swept may be founded anew when nothing is left.      *)
LEMMA SweepProjectKeeps ==
    ASSUME ProjectsInv, SweepProject
    PROVE  ProjectsInv'
<1>0. ProjectsTyped /\ CreationsSound /\ GuttedSound /\ SweepSound /\ FoundedOnce /\ NoOutputBehind
  BY DEF ProjectsInv
<1>1. PICK p \in FileProjects, kept \in SUBSET DirParts, when \in Nat, founded \in Nat :
          /\ p = sweeping /\ sweeping # NoProject /\ sweeping' = NoProject
          /\ kept # {} => "dir" \in kept
          /\ dirs' = [dirs EXCEPT ![p] = kept]
          /\ founders' = [founders EXCEPT ![p] = founded]
          /\ IF kept = {} THEN founded = 0 /\ gutted' = gutted \ {p}
                          ELSE founded = founders[p] /\ gutted' = gutted \cup {p}
          /\ born' = [born EXCEPT ![p] = when] /\ when <= age
          /\ UNCHANGED <<outputs, creator, stuck, age, creations, uploads>>
  BY <1>0, ProjectSwept
<1>2. /\ dirs[p] # {} /\ age >= born[p] + SmokeDays
      /\ p \in outputs => p \in stuck
  BY <1>0, <1>1 DEF SweepSound
<1>3. born[p] # age
  BY <1>0, <1>2, ProjectFilesAssumption DEF ProjectsTyped
<1>4. /\ dirs' \in [FileProjects -> SUBSET DirParts] /\ founders' \in [FileProjects -> Nat]
      /\ born' \in [FileProjects -> Nat] /\ gutted' \subseteq FileProjects
      /\ dirs'[p] = kept /\ founders'[p] = founded /\ born'[p] = when
      /\ \A q \in FileProjects : q # p =>
            /\ dirs'[q] = dirs[q] /\ founders'[q] = founders[q] /\ born'[q] = born[q]
            /\ q \in gutted' <=> q \in gutted
      /\ p \in gutted' <=> kept # {}
  BY <1>0, <1>1 DEF ProjectsTyped
<1>5. \A c \in Creators : creator[c].at # "idle" => creator[c].project # p
  BY <1>0, <1>2, <1>3 DEF GuttedSound
<1>6. ProjectsTyped'
  BY <1>0, <1>1, <1>4 DEF ProjectsTyped
<1>7. CreationsSound'
  BY <1>0, <1>1, <1>4, <1>5 DEF CreationsSound, Underway
<1>8. GuttedSound'
  <2>1. \A q \in gutted' : dirs'[q] # {}
    BY <1>0, <1>4 DEF GuttedSound, ProjectsTyped
  <2>2. \A c \in Creators : \A q \in FileProjects :
            creator[c].at # "idle" /\ creator[c].project = q =>
               q \notin gutted' /\ (dirs'[q] # {} => born'[q] = age)
    BY <1>0, <1>4, <1>5 DEF GuttedSound
  <2> QED
    BY <1>1, <2>1, <2>2 DEF GuttedSound
<1>9. SweepSound'
  BY <1>1 DEF SweepSound
<1>10. FoundedOnce'
  <2>1. founders[p] <= 1 /\ founders[p] \in Nat
    BY <1>0 DEF FoundedOnce, ProjectsTyped
  <2>2. founded <= 1 /\ (founded = 1 => p \in gutted')
    BY <1>1, <1>4, <2>1
  <2> QED
    BY <1>0, <1>4, <2>2 DEF FoundedOnce, Visible
<1>11. NoOutputBehind'
  BY <1>0, <1>1, <1>2, <1>4 DEF NoOutputBehind, ProjectsTyped
<1> QED
  BY <1>6, <1>7, <1>8, <1>9, <1>10, <1>11 DEF ProjectsInv

(* A sweep that dies leaves what it has not removed.                       *)
LEMMA SweepDiesKeeps ==
    ASSUME ProjectsInv, SweepDies
    PROVE  ProjectsInv'
<1>2. UNCHANGED <<dirs, born, outputs, files, creator, founders, stuck, gutted, age, creations, uploads>> /\ sweeping' = NoProject
  BY DEF SweepDies
<1>3. ProjectsTyped' /\ CreationsSound' /\ GuttedSound'
  BY <1>2 DEF ProjectsInv, ProjectsTyped, CreationsSound, GuttedSound
<1>4. SweepSound' /\ FoundedOnce' /\ NoOutputBehind'
  BY <1>2 DEF ProjectsInv, SweepSound, FoundedOnce, Visible, NoOutputBehind
<1> QED
  BY <1>3, <1>4 DEF ProjectsInv

(* An upload changes nothing but the files, and projects nothing but the   *)
(* rest, where they are not swept.                                         *)
LEMMA ProjectsUnchanged ==
    ASSUME ProjectsInv, UNCHANGED <<dirs, born, outputs, creator, founders, sweeping, stuck, gutted, age>>
    PROVE  ProjectsInv'
<1>1. ProjectsTyped' /\ CreationsSound' /\ GuttedSound'
  BY DEF ProjectsInv, ProjectsTyped, CreationsSound, GuttedSound
<1>2. SweepSound' /\ FoundedOnce' /\ NoOutputBehind'
  BY DEF ProjectsInv, SweepSound, FoundedOnce, Visible, NoOutputBehind
<1> QED
  BY <1>1, <1>2 DEF ProjectsInv
-----------------------------------------------------------------------------
\* Each project's files, by name and suffix.
StoredFiles(stored) ==
    /\ stored = [f \in DOMAIN stored |-> stored[f]]
    /\ DOMAIN stored \subseteq FileNames \X FileSuffixes
    /\ \A f \in DOMAIN stored : stored[f] \in Sorts

FilesTypedAll ==
    /\ files = [p \in FileProjects |-> files[p]]
    /\ \A p \in FileProjects : StoredFiles(files[p])

\* Of a sort under a suffix.
Fits(sort, suffix) ==
    CASE sort = "pdf"  -> suffix = "pdf"
      [] sort = "zip"  -> suffix \in {"docx", "xlsx"}
      [] sort = "text" -> suffix \in {"md", "txt", "csv"}
      [] OTHER         -> TRUE

(* What is accepted fits its suffix.                                       *)
LEMMA AcceptedFits ==
    ASSUME NEW suffix \in FileSuffixes, NEW sort \in Sorts, NEW size, NEW task \in BOOLEAN,
           Accepted(suffix, sort, size, task)
    PROVE  Fits(sort, suffix)
<1>0. /\ DetectMime(sort, suffix) \in AllowedMimes /\ DetectMime(sort, suffix) \in ExpectedMimes[suffix]
      /\ suffix \in {"md", "txt", "pdf", "docx", "xlsx", "csv"}
  BY DEF Accepted, TaskSuffixes, DocumentSuffixes
<1>1. CASE sort = "pdf"
  <2>1. "pdf" \in ExpectedMimes[suffix]
    BY <1>0, <1>1 DEF DetectMime
  <2> QED
    BY <1>0, <1>1, <2>1 DEF ExpectedMimes, Fits
<1>2. CASE sort = "zip"
  BY <1>0, <1>2 DEF DetectMime, AllowedMimes, Fits
<1>3. CASE sort = "text"
  <2>1. "plain" \in ExpectedMimes[suffix]
    BY <1>0, <1>3 DEF DetectMime
  <2> QED
    BY <1>0, <1>3, <2>1 DEF ExpectedMimes, Fits
<1>4. CASE sort = "binary"
  BY <1>4 DEF Fits
<1> QED
  BY <1>1, <1>2, <1>3, <1>4 DEF Sorts

FilesKept(p) ==
    \A f \in DOMAIN files[p] : \/ f \in DOMAIN files'[p] /\ files'[p][f] = files[p][f]
                               \/ p \in SmokeProjects /\ age >= born[p] + SmokeDays

(* An upload adds a file of its own name, that fits it.                    *)
LEMMA UploadKeeps ==
    ASSUME FilesTypedAll, StoredAsNamed,
           NEW p \in FileProjects, NEW name \in FileNames, NEW suffix \in FileSuffixes,
           NEW sort \in Sorts, NEW size, NEW task \in BOOLEAN, Upload(p, name, suffix, sort, size, task)
    PROVE  FilesTypedAll' /\ StoredAsNamed' /\ \A q \in FileProjects : FilesKept(q)
<1>1. PICK target : target = Target(name, suffix, task)
  OBVIOUS
<1>2. target \in FileNames \X FileSuffixes /\ target[2] = suffix
  BY <1>1, ProjectFilesAssumption DEF Target
<1>3. PICK stored : stored = [f \in DOMAIN files[p] \cup {target} |-> IF f = target THEN sort ELSE files[p][f]]
  OBVIOUS
<1>4. files' = [files EXCEPT ![p] = stored] /\ target \notin DOMAIN files[p] /\ Accepted(suffix, sort, size, task)
  BY <1>1, <1>3 DEF Upload
<1>5. /\ DOMAIN stored = DOMAIN files[p] \cup {target} /\ stored[target] = sort
      /\ \A f \in DOMAIN files[p] : stored[f] = files[p][f]
      /\ stored = [f \in DOMAIN stored |-> stored[f]]
  BY <1>3, <1>4
<1>6. StoredFiles(files[p])
  BY DEF FilesTypedAll
<1>7. /\ DOMAIN stored \subseteq FileNames \X FileSuffixes
      /\ \A f \in DOMAIN stored : stored[f] \in Sorts
  BY <1>2, <1>5, <1>6 DEF StoredFiles
<1>8. StoredFiles(stored)
  BY <1>5, <1>7 DEF StoredFiles
<1>9. /\ files' = [q \in FileProjects |-> files'[q]] /\ files'[p] = stored
      /\ \A q \in FileProjects : q # p => files'[q] = files[q]
  <2>1. files = [q \in FileProjects |-> files[q]]
    BY DEF FilesTypedAll
  <2> QED
    BY <1>4, <2>1
<1>10. FilesTypedAll'
  BY <1>8, <1>9 DEF FilesTypedAll, StoredFiles
<1>11. \A f \in DOMAIN stored : Fits(stored[f], f[2])
  <2>1. Fits(sort, suffix)
    BY <1>4, AcceptedFits
  <2>2. \A f \in DOMAIN files[p] : Fits(files[p][f], f[2])
    BY DEF StoredAsNamed, Fits
  <2> QED
    BY <1>2, <1>5, <2>1, <2>2
<1>12. \A q \in FileProjects : \A f \in DOMAIN files'[q] : Fits(files'[q][f], f[2])
  BY <1>9, <1>11 DEF StoredAsNamed, Fits
<1>13. StoredAsNamed'
  BY <1>12 DEF StoredAsNamed, Fits
<1>14. \A q \in FileProjects : FilesKept(q)
  BY <1>5, <1>9 DEF FilesKept
<1> QED
  BY <1>10, <1>13, <1>14

(* The files are typed while nobody uploads.                               *)
LEMMA FilesUnchanged ==
    ASSUME FilesTypedAll, StoredAsNamed, UNCHANGED files
    PROVE  FilesTypedAll' /\ StoredAsNamed' /\ \A q \in FileProjects : FilesKept(q)
  BY DEF FilesTypedAll, StoredFiles, StoredAsNamed, FilesKept

(* Files of a project that is swept may go, and those that stay are as     *)
(* they were.                                                              *)
LEMMA FilesSwept ==
    ASSUME FilesTypedAll, StoredAsNamed, ProjectsTyped, SweepSound, SweepProject
    PROVE  FilesTypedAll' /\ StoredAsNamed' /\ \A q \in FileProjects : FilesKept(q)
<1>0. PICK p \in FileProjects :
          /\ p = sweeping /\ sweeping # NoProject
          /\ \E names \in SUBSET DOMAIN files[p] : files' = [files EXCEPT ![p] = [f \in names |-> files[p][f]]]
  BY ProjectSwept
<1>1. PICK names \in SUBSET DOMAIN files[p] : files' = [files EXCEPT ![p] = [f \in names |-> files[p][f]]]
  BY <1>0
<1>2. p \in SmokeProjects /\ age >= born[p] + SmokeDays
  BY <1>0 DEF SweepSound
<1>3. PICK left : left = [f \in names |-> files[p][f]]
  OBVIOUS
<1>4. /\ DOMAIN left = names /\ left = [f \in DOMAIN left |-> left[f]]
      /\ \A f \in DOMAIN left : left[f] = files[p][f] /\ f \in DOMAIN files[p]
  BY <1>1, <1>3
<1>5. /\ files' = [q \in FileProjects |-> files'[q]] /\ files'[p] = left
      /\ \A q \in FileProjects : q # p => files'[q] = files[q]
  <2>1. files = [q \in FileProjects |-> files[q]]
    BY DEF FilesTypedAll
  <2> QED
    BY <1>1, <1>3, <2>1
<1>6. StoredFiles(left)
  <2>1. StoredFiles(files[p])
    BY DEF FilesTypedAll
  <2> QED
    BY <1>4, <2>1 DEF StoredFiles
<1>7. FilesTypedAll'
  BY <1>5, <1>6 DEF FilesTypedAll, StoredFiles
<1>8. StoredAsNamed'
  <2>1. \A f \in DOMAIN left : Fits(left[f], f[2])
    BY <1>4 DEF StoredAsNamed, Fits
  <2>2. \A q \in FileProjects : \A f \in DOMAIN files'[q] : Fits(files'[q][f], f[2])
    BY <1>5, <2>1 DEF StoredAsNamed, Fits
  <2> QED
    BY <2>2 DEF StoredAsNamed, Fits
<1>9. \A q \in FileProjects : FilesKept(q)
  BY <1>2, <1>5 DEF FilesKept
<1> QED
  BY <1>7, <1>8, <1>9

(* The projects at the start are founded, with files as named.             *)
LEMMA FilesInitially == FilesInit => ProjectsInv /\ FilesTypedAll /\ StoredAsNamed
<1> SUFFICES ASSUME FilesInit PROVE ProjectsInv /\ FilesTypedAll /\ StoredAsNamed
  OBVIOUS
<1>1. PICK none : none = <<>>
  OBVIOUS
<1>2. DOMAIN none = {} /\ none = [f \in DOMAIN none |-> none[f]] /\ files = [p \in FileProjects |-> none]
  BY <1>1 DEF FilesInit
<1>3. FilesTypedAll /\ StoredAsNamed
  BY <1>2 DEF FilesTypedAll, StoredFiles, StoredAsNamed
<1>4. ProjectsTyped /\ CreationsSound /\ GuttedSound
  BY DEF FilesInit, ProjectsTyped, CreationsSound, GuttedSound, CreatorStates, DirParts, Underway
<1>5. SweepSound /\ FoundedOnce /\ NoOutputBehind
  BY DEF FilesInit, SweepSound, FoundedOnce, NoOutputBehind
<1> QED
  BY <1>3, <1>4, <1>5 DEF ProjectsInv

(* What every step keeps.                                                  *)
LEMMA FilesStepsKeep ==
    ASSUME ProjectsInv, FilesTypedAll, StoredAsNamed, FilesStep
    PROVE  ProjectsInv' /\ FilesTypedAll' /\ StoredAsNamed' /\ \A q \in FileProjects : FilesKept(q)
<1>0. ProjectsTyped /\ SweepSound
  BY DEF ProjectsInv
<1>1. ASSUME NEW c \in Creators,
             \/ \E p \in FileProjects : AskForProject(c, p)
             \/ MakeSource(c) \/ MakeDerived(c) \/ MakeOutputs(c) \/ WriteMetadata(c) \/ CreationFails(c)
      PROVE  ProjectsInv' /\ FilesTypedAll' /\ StoredAsNamed' /\ \A q \in FileProjects : FilesKept(q)
  <2>1. UNCHANGED files
    BY <1>1 DEF AskForProject, MakeSource, MakeDerived, MakeOutputs, WriteMetadata, CreationFails
  <2>2. ProjectsInv'
    BY <1>1, AskForProjectKeeps, MakeSourceKeeps, MakeDerivedKeeps, MakeOutputsKeeps, WriteMetadataKeeps,
       CreationFailsKeeps
  <2> QED
    BY <2>1, <2>2, FilesUnchanged
<1>2. ASSUME NEW p \in FileProjects, SweepOutput(p)
      PROVE  ProjectsInv' /\ FilesTypedAll' /\ StoredAsNamed' /\ \A q \in FileProjects : FilesKept(q)
  <2>1. UNCHANGED files
    BY <1>2 DEF SweepOutput
  <2> QED
    BY <1>2, <2>1, SweepOutputKeeps, FilesUnchanged
<1>3. ASSUME NEW p \in FileProjects, NEW name \in FileNames, NEW suffix \in FileSuffixes, NEW sort \in Sorts,
             NEW task \in BOOLEAN, NEW size \in {"fits", "empty", "large"}, Upload(p, name, suffix, sort, size, task)
      PROVE  ProjectsInv' /\ FilesTypedAll' /\ StoredAsNamed' /\ \A q \in FileProjects : FilesKept(q)
  <2>1. UNCHANGED <<dirs, born, outputs, creator, founders, sweeping, stuck, gutted, age>>
    BY <1>3 DEF Upload
  <2>2. ProjectsInv'
    BY <2>1, ProjectsUnchanged
  <2>3. FilesTypedAll' /\ StoredAsNamed' /\ \A q \in FileProjects : FilesKept(q)
    BY <1>3, UploadKeeps
  <2> QED
    BY <2>2, <2>3
<1>4. CASE SweepProject
  BY <1>0, <1>4, SweepProjectKeeps, FilesSwept
<1>5. CASE SweepDies
  <2>1. UNCHANGED files
    BY <1>5 DEF SweepDies
  <2> QED
    BY <1>5, <2>1, SweepDiesKeeps, FilesUnchanged
<1>6. CASE sweeping = NoProject /\ DayGoesBy
  <2>1. UNCHANGED files
    BY <1>6 DEF DayGoesBy
  <2> QED
    BY <1>6, <2>1, DayGoesByKeeps, FilesUnchanged
<1> QED
  BY <1>1, <1>2, <1>3, <1>4, <1>5, <1>6 DEF FilesStep

(* Every step, or none, keeps projects and files.                          *)
LEMMA FilesNext ==
    ASSUME ProjectsInv, FilesTypedAll, StoredAsNamed, [FilesStep]_fileVars
    PROVE  ProjectsInv' /\ FilesTypedAll' /\ StoredAsNamed' /\ \A q \in FileProjects : FilesKept(q)
<1>1. CASE FilesStep
  BY <1>1, FilesStepsKeep
<1>2. CASE UNCHANGED fileVars
  <2>1. UNCHANGED <<dirs, born, outputs, creator, founders, sweeping, stuck, gutted, age>> /\ UNCHANGED files
    BY <1>2 DEF fileVars
  <2> QED
    BY <2>1, ProjectsUnchanged, FilesUnchanged
<1> QED
  BY <1>1, <1>2

(* The inductive invariant of the projects and their files.                *)
LEMMA FilesInvariant == FilesSpec => [](ProjectsInv /\ FilesTypedAll /\ StoredAsNamed)
  BY FilesInitially, FilesNext, PTL DEF FilesSpec

(* A project is founded once, its files are what their names say, and the  *)
(* sweep leaves no output behind, wherever requests fail, the sweep dies   *)
(* and whatever it cannot remove (projects.py:29-40, files.py:42-161,      *)
(* cleanup.py:47-103).                                                     *)
THEOREM ProjectsAreFoundedOnce == FilesSpec => [](FoundedOnce /\ StoredAsNamed /\ NoOutputBehind)
<1>1. ProjectsInv => FoundedOnce /\ NoOutputBehind
  BY DEF ProjectsInv
<1> QED
  BY <1>1, FilesInvariant, PTL

(* An upload keeps its content, and goes only with an old smoke project,   *)
(* whatever the sweep leaves of it (files.py:164-250, cleanup.py:47-103).  *)
THEOREM UploadsAreKept == FilesSpec => UploadsStay
<1>1. ASSUME ProjectsInv, FilesTypedAll, StoredAsNamed, [FilesStep]_fileVars
      PROVE  \A p \in FileProjects : \A f \in DOMAIN files[p] :
                 \/ f \in DOMAIN files'[p] /\ files'[p][f] = files[p][f]
                 \/ p \in SmokeProjects /\ age >= born[p] + SmokeDays
  BY <1>1, FilesNext DEF FilesKept
<1> QED
  BY <1>1, FilesInvariant, PTL DEF FilesSpec, UploadsStay

(* The types hold.                                                         *)
LEMMA FilesTypes == ProjectsInv /\ FilesTypedAll => FilesTypeOK
  BY DEF ProjectsInv, ProjectsTyped, FilesTypedAll, StoredFiles, FilesTypeOK, DirParts
-----------------------------------------------------------------------------
(* The cache.                                                              *)
Entries == [value : Nat, expires : Nat, moved : Nat]

Noted == [value : Nat, expires : Nat, used : Nat]

\* The entries, each with a use of its own that moved it, and not too many.
StoreTyped ==
    /\ store = [k \in DOMAIN store |-> store[k]] /\ DOMAIN store \subseteq CacheKeys
    /\ IsFiniteSet(DOMAIN store) /\ Cardinality(DOMAIN store) <= MaxEntries
    /\ \A k \in DOMAIN store : /\ store[k] \in Entries /\ store[k].moved <= uses
                               /\ \A j \in DOMAIN store : store[j].moved = store[k].moved => j = k

\* The history knows of every entry what it holds and when it was moved.
HistoryTold ==
    /\ newest \in [CacheKeys -> Noted] /\ \A k \in CacheKeys : newest[k].used <= uses
    /\ \A k \in DOMAIN store : /\ newest[k].value = store[k].value /\ newest[k].expires = store[k].expires
                               /\ newest[k].used = store[k].moved

CallsTyped ==
    /\ cacheClock \in 0..MaxClock /\ sets \in 0..MaxSets /\ uses \in Nat
    /\ setting.on \in BOOLEAN
    /\ setting.on => setting.key \in CacheKeys /\ setting.expires \in Nat /\ setting.value \in Nat
    /\ counted \in [hits : Nat, misses : Nat, evictions : Nat]

EntriesInv == StoreTyped /\ HistoryTold /\ UsedRecentlyStays

CacheInv == CallsTyped /\ EntriesInv

(* An entry has as few no older than it as uses have passed since it moved. *)
LEMMA FewNoOlder ==
    ASSUME StoreTyped, uses \in Nat, NEW k \in DOMAIN store
    PROVE  /\ IsFiniteSet(NoOlder(k)) /\ Cardinality(NoOlder(k)) \in Nat
           /\ Cardinality(NoOlder(k)) <= uses - store[k].moved + 1
<1> DEFINE S == NoOlder(k)
           T == store[k].moved..uses
           f == [j \in S |-> store[j].moved]
<1>1. \A j \in DOMAIN store : store[j].moved \in Nat /\ store[j].moved <= uses
  BY DEF StoreTyped, Entries
<1>2. S \subseteq DOMAIN store /\ \A j \in S : store[j].moved >= store[k].moved
  BY DEF NoOlder
<1>3. f \in [S -> T]
  BY <1>1, <1>2
<1>4. \A i, j \in S : f[i] = f[j] => i = j
  BY <1>2 DEF StoreTyped
<1>5. f \in Injection(S, T)
  <2> HIDE DEF f, S, T
  <2> QED
    BY <1>3, <1>4 DEF Injection, IsInjective
<1>6. IsFiniteSet(T) /\ Cardinality(T) = uses - store[k].moved + 1
  BY <1>1, FS_Interval
<1>7. IsFiniteSet(S)
  BY <1>2, FS_Subset DEF StoreTyped
<1> HIDE DEF f, S, T
<1>8. Cardinality(S) <= Cardinality(T) /\ Cardinality(S) \in Nat
  BY <1>5, <1>6, <1>7, FS_Injection, FS_CardinalityType
<1> QED
  BY <1>6, <1>7, <1>8 DEF S

(* What stays has room for one more.                                       *)
LEMMA RoomForOne ==
    ASSUME StoreTyped, uses \in Nat
    PROVE  /\ Roomy \subseteq DOMAIN store /\ IsFiniteSet(Roomy)
           /\ Cardinality(Roomy) \in Nat /\ Cardinality(Roomy) + 1 <= MaxEntries
<1>1. Roomy \subseteq DOMAIN store /\ IsFiniteSet(Roomy) /\ Cardinality(Roomy) \in Nat
  BY FS_Subset, FS_CardinalityType DEF Roomy, StoreTyped
<1>2. CASE Roomy = {}
  BY <1>1, <1>2, FS_EmptySet, CacheAssumption
<1>3. CASE Roomy # {}
  <2> DEFINE M == {store[k].moved : k \in Roomy}
  <2>1. M \in SUBSET Nat /\ M # {}
    BY <1>1, <1>3 DEF StoreTyped, Entries
  <2>2. PICK n \in M : \A m \in M : n <= m
    <3> HIDE DEF M
    <3> QED
      BY <2>1, LeastNumber
  <2>3. PICK k \in Roomy : store[k].moved = n
    OBVIOUS
  <2>4. Roomy \subseteq NoOlder(k)
    BY <1>1, <2>1, <2>2, <2>3 DEF NoOlder
  <2>5. Cardinality(Roomy) <= Cardinality(NoOlder(k))
    BY <1>1, <2>4, FewNoOlder, FS_Subset
  <2>6. Cardinality(NoOlder(k)) < MaxEntries /\ Cardinality(NoOlder(k)) \in Nat
    BY <1>1, FewNoOlder DEF Roomy
  <2> QED
    BY <1>1, <2>5, <2>6, CacheAssumption
<1> QED
  BY <1>2, <1>3

(* Entries that go are forgotten by the history.                           *)
LEMMA EntriesGo ==
    ASSUME EntriesInv, NEW keys, store' = Without(keys), uses' = uses, uses \in Nat,
           newest' \in [CacheKeys -> Noted],
           \A k \in CacheKeys : newest'[k] = IF k \in keys THEN Nothing ELSE newest[k]
    PROVE  EntriesInv'
<1>0. StoreTyped /\ HistoryTold /\ UsedRecentlyStays
  BY DEF EntriesInv
<1>1. /\ DOMAIN store' = DOMAIN store \ keys /\ \A k \in DOMAIN store' : store'[k] = store[k]
      /\ store' = [k \in DOMAIN store' |-> store'[k]]
  BY DEF Without
<1>2. IsFiniteSet(DOMAIN store') /\ Cardinality(DOMAIN store') <= MaxEntries
  <2>1. IsFiniteSet(DOMAIN store) /\ Cardinality(DOMAIN store) <= MaxEntries /\ DOMAIN store' \subseteq DOMAIN store
    BY <1>0, <1>1 DEF StoreTyped
  <2> QED
    BY <2>1, FS_Subset, FS_CardinalityType, CacheAssumption
<1>3. StoreTyped'
  BY <1>0, <1>1, <1>2 DEF StoreTyped
<1>4. HistoryTold'
  BY <1>0, <1>1 DEF HistoryTold, StoreTyped, Nothing
<1>5. UsedRecentlyStays'
  BY <1>0, <1>1 DEF UsedRecentlyStays, Cached, Nothing
<1> QED
  BY <1>3, <1>4, <1>5 DEF EntriesInv

(* A function of its domain stays one when a value of it is replaced.      *)
LEMMA ValueReplaced ==
    ASSUME NEW f, f = [x \in DOMAIN f |-> f[x]], NEW k \in DOMAIN f, NEW e
    PROVE  LET g == [f EXCEPT ![k] = e]
           IN  /\ DOMAIN g = DOMAIN f /\ g = [x \in DOMAIN g |-> g[x]] /\ g[k] = e
               /\ \A j \in DOMAIN f : j # k => g[j] = f[j]
OBVIOUS

(* A hit makes its entry the newest.                                       *)
LEMMA GetHitsKeeps ==
    ASSUME CacheInv, NEW k \in CacheKeys, GetHits(k)
    PROVE  EntriesInv' /\ uses' \in Nat /\ counted' \in [hits : Nat, misses : Nat, evictions : Nat]
<1>0. StoreTyped /\ HistoryTold /\ UsedRecentlyStays /\ uses \in Nat /\ CallsTyped
  BY DEF CacheInv, EntriesInv, CallsTyped
<1>1. PICK e, n : e = [store[k] EXCEPT !.moved = uses + 1] /\ n = [newest[k] EXCEPT !.used = uses + 1]
  OBVIOUS
<1>2. /\ store' = [store EXCEPT ![k] = e] /\ newest' = [newest EXCEPT ![k] = n]
      /\ uses' = uses + 1 /\ k \in DOMAIN store
  BY <1>1 DEF GetHits, Cached
<1>3. /\ e \in Entries /\ e.moved = uses + 1 /\ e.value = store[k].value /\ e.expires = store[k].expires
      /\ n \in Noted /\ n.used = uses + 1 /\ n.value = newest[k].value /\ n.expires = newest[k].expires
  <2>1. store[k] \in Entries /\ newest[k] \in Noted
    BY <1>0, <1>2 DEF StoreTyped, HistoryTold
  <2> QED
    BY <1>0, <1>1, <2>1 DEF Entries, Noted
<1>4. /\ DOMAIN store' = DOMAIN store /\ store'[k] = e /\ store' = [j \in DOMAIN store' |-> store'[j]]
      /\ \A j \in DOMAIN store : j # k => store'[j] = store[j]
  <2>1. PICK f : f = store
    OBVIOUS
  <2>2. f = [x \in DOMAIN f |-> f[x]] /\ k \in DOMAIN f /\ store' = [f EXCEPT ![k] = e]
    BY <1>0, <1>2, <2>1 DEF StoreTyped
  <2>3. /\ DOMAIN store' = DOMAIN f /\ store'[k] = e /\ store' = [j \in DOMAIN store' |-> store'[j]]
        /\ \A j \in DOMAIN f : j # k => store'[j] = f[j]
    BY <2>2, ValueReplaced
  <2> QED
    BY <2>1, <2>3
<1>5. /\ newest' \in [CacheKeys -> Noted] /\ newest'[k] = n
      /\ \A j \in CacheKeys : j # k => newest'[j] = newest[j]
  BY <1>0, <1>2, <1>3 DEF HistoryTold
<1>6. \A j \in DOMAIN store : store[j].moved \in Nat /\ store[j].moved <= uses /\ store[j].moved # uses + 1
  BY <1>0 DEF StoreTyped, Entries
<1>7. StoreTyped'
  BY <1>0, <1>2, <1>3, <1>4, <1>6 DEF StoreTyped
<1>8. HistoryTold'
  <2>1. \A j \in CacheKeys : newest'[j].used <= uses + 1
    BY <1>0, <1>3, <1>5 DEF HistoryTold, Noted
  <2>2. \A j \in DOMAIN store : /\ newest'[j].value = store'[j].value /\ newest'[j].expires = store'[j].expires
                                /\ newest'[j].used = store'[j].moved
    BY <1>0, <1>3, <1>4, <1>5 DEF HistoryTold, StoreTyped
  <2> QED
    BY <1>2, <1>4, <1>5, <2>1, <2>2 DEF HistoryTold
<1>9. UsedRecentlyStays'
  <2>1. uses' = uses + 1 /\ DOMAIN store' = DOMAIN store
    BY <1>2, <1>4
  <2>2. ASSUME NEW j \in CacheKeys, newest'[j].used > 0, uses' - newest'[j].used < MaxEntries
        PROVE  j \in DOMAIN store'
    <3>1. CASE j = k
      BY <1>2, <2>1, <3>1
    <3>2. CASE j # k
      <4>1. newest[j].used \in Nat /\ newest[j].used = newest'[j].used
        BY <1>0, <1>5, <3>2 DEF HistoryTold, Noted
      <4>2. uses - newest[j].used < MaxEntries /\ newest[j].used > 0
        BY <1>0, <2>1, <2>2, <4>1, CacheAssumption
      <4> QED
        BY <1>0, <2>1, <4>2 DEF UsedRecentlyStays, Cached
    <3> QED
      BY <3>1, <3>2
  <2> QED
    BY ONLY <2>2 DEF UsedRecentlyStays, Cached
<1>10. counted' \in [hits : Nat, misses : Nat, evictions : Nat]
  BY <1>0 DEF GetHits, Count, CallsTyped
<1> QED
  BY <1>0, <1>2, <1>7, <1>8, <1>9, <1>10 DEF EntriesInv

(* A set makes room before it adds its entry, the newest.                  *)
LEMMA CompleteSetKeeps ==
    ASSUME CacheInv, CompleteSet
    PROVE  EntriesInv' /\ uses' \in Nat /\ counted' \in [hits : Nat, misses : Nat, evictions : Nat]
<1>0. StoreTyped /\ HistoryTold /\ UsedRecentlyStays /\ uses \in Nat /\ CallsTyped
  BY DEF CacheInv, EntriesInv, CallsTyped
<1>1. PICK key, R, e, n :
         /\ key = setting.key /\ R = Roomy
         /\ e = [value |-> setting.value, expires |-> setting.expires, moved |-> uses + 1]
         /\ n = [value |-> setting.value, expires |-> setting.expires, used |-> uses + 1]
  OBVIOUS
<1>2. /\ store' = [k \in R \cup {key} |-> IF k = key THEN e ELSE store[k]]
      /\ newest' = [newest EXCEPT ![key] = n] /\ uses' = uses + 1
  BY <1>1 DEF CompleteSet
<1>3. /\ key \in CacheKeys
      /\ e \in Entries /\ e.moved = uses + 1 /\ n \in Noted /\ n.used = uses + 1
      /\ e.value = n.value /\ e.expires = n.expires
  <2>1. key \in CacheKeys /\ setting.expires \in Nat /\ setting.value \in Nat
    BY <1>0, <1>1 DEF CallsTyped, CompleteSet
  <2> QED
    BY <1>0, <1>1, <2>1 DEF Entries, Noted
<1>4. /\ R \subseteq DOMAIN store /\ IsFiniteSet(R)
      /\ Cardinality(R) \in Nat /\ Cardinality(R) + 1 <= MaxEntries
  BY <1>0, <1>1, RoomForOne
<1>5. /\ DOMAIN store' = R \cup {key} /\ store'[key] = e
      /\ \A j \in R : j # key => store'[j] = store[j]
      /\ store' = [j \in DOMAIN store' |-> store'[j]]
  <2>1. PICK f : f = store
    OBVIOUS
  <2>2. store' = [k \in R \cup {key} |-> IF k = key THEN e ELSE f[k]]
    BY <1>2, <2>1
  <2>3. /\ DOMAIN store' = R \cup {key} /\ store'[key] = e
        /\ \A j \in R : j # key => store'[j] = f[j]
    BY <2>2
  <2>4. store' = [j \in DOMAIN store' |-> store'[j]]
    BY <2>2
  <2> QED
    BY <2>1, <2>3, <2>4
<1>6. /\ newest' \in [CacheKeys -> Noted] /\ newest'[key] = n
      /\ \A j \in CacheKeys : j # key => newest'[j] = newest[j]
  BY <1>0, <1>2, <1>3 DEF HistoryTold
<1>7. IsFiniteSet(DOMAIN store') /\ Cardinality(DOMAIN store') <= MaxEntries
  <2>1. PICK S : S = R \cup {key} /\ IsFiniteSet(R) /\ Cardinality(R) \in Nat /\ Cardinality(R) + 1 <= MaxEntries
    BY <1>4
  <2>2. IsFiniteSet(S) /\ (Cardinality(S) = Cardinality(R) \/ Cardinality(S) = Cardinality(R) + 1)
    BY ONLY <2>1, FS_AddElement
  <2>3. Cardinality(S) <= MaxEntries
    BY <2>1, <2>2, CacheAssumption DEF CacheAssumption
  <2> QED
    BY <1>5, <2>1, <2>2, <2>3
<1>8. \A j \in DOMAIN store : store[j].moved \in Nat /\ store[j].moved <= uses /\ store[j].moved # uses + 1
  BY <1>0 DEF StoreTyped, Entries
<1>9. StoreTyped'
  <2>1. DOMAIN store' \subseteq CacheKeys
    BY <1>0, <1>3, <1>4, <1>5 DEF StoreTyped
  <2>2. ASSUME NEW k \in DOMAIN store'
        PROVE  /\ store'[k] \in Entries /\ store'[k].moved <= uses'
               /\ \A j \in DOMAIN store' : store'[j].moved = store'[k].moved => j = k
    <3>1. \A j \in DOMAIN store' : j = key \/ (j \in DOMAIN store /\ j # key /\ store'[j] = store[j])
      BY <1>4, <1>5
    <3>2. store'[k] \in Entries /\ store'[k].moved <= uses'
      <4>1. CASE k = key
        BY <1>0, <1>2, <1>3, <1>5, <4>1
      <4>2. CASE k # key
        <5>1. k \in DOMAIN store /\ store'[k] = store[k] /\ uses' = uses + 1
          BY <1>2, <3>1, <4>2
        <5>2. store[k] \in Entries
          BY <1>0, <5>1 DEF StoreTyped
        <5> QED
          BY <1>0, <1>8, <5>1, <5>2
      <4> QED
        BY <4>1, <4>2
    <3>3. \A j \in DOMAIN store' : store'[j].moved = store'[k].moved => j = k
      BY <1>0, <1>3, <1>5, <1>8, <3>1 DEF StoreTyped
    <3> QED
      BY <3>2, <3>3
  <2> QED
    BY <1>5, <1>7, <2>1, <2>2 DEF StoreTyped
<1>10. HistoryTold'
  <2>1. \A j \in CacheKeys : newest'[j].used <= uses + 1
    BY <1>0, <1>3, <1>6 DEF HistoryTold, Noted
  <2>2. ASSUME NEW j \in DOMAIN store'
        PROVE  /\ newest'[j].value = store'[j].value /\ newest'[j].expires = store'[j].expires
               /\ newest'[j].used = store'[j].moved
    <3>1. j = key \/ (j \in DOMAIN store /\ j \in CacheKeys /\ j # key /\ store'[j] = store[j])
      BY <1>0, <1>4, <1>5 DEF StoreTyped
    <3>2. CASE j = key
      BY <1>3, <1>5, <1>6, <3>2
    <3>3. CASE j \in DOMAIN store /\ j \in CacheKeys /\ j # key /\ store'[j] = store[j]
      <4>1. newest'[j] = newest[j] /\ store'[j] = store[j]
        BY <1>6, <3>3
      <4>2. newest[j].value = store[j].value /\ newest[j].expires = store[j].expires /\ newest[j].used = store[j].moved
        BY <1>0, <3>3 DEF HistoryTold
      <4> QED
        BY <4>1, <4>2
    <3> QED
      BY <3>1, <3>2, <3>3
  <2> QED
    BY <1>2, <1>6, <2>1, <2>2 DEF HistoryTold
<1>11. UsedRecentlyStays'
  <2>1. ASSUME NEW j \in CacheKeys, newest'[j].used > 0, uses' - newest'[j].used < MaxEntries
        PROVE  j \in DOMAIN store'
    <3>1. CASE j = key
      BY <1>5, <3>1
    <3>2. CASE j # key
      <4>1. newest[j].used \in Nat /\ newest[j].used = newest'[j].used
        BY <1>0, <1>6, <3>2 DEF HistoryTold, Noted
      <4>2. uses - newest[j].used + 1 < MaxEntries /\ newest[j].used > 0
        BY <1>0, <1>2, <2>1, <4>1, CacheAssumption
      <4>3. j \in DOMAIN store /\ newest[j].used = store[j].moved
        BY <1>0, <4>1, <4>2, CacheAssumption DEF UsedRecentlyStays, Cached, HistoryTold
      <4>4. Cardinality(NoOlder(j)) < MaxEntries
        BY <1>0, <4>1, <4>2, <4>3, FewNoOlder, CacheAssumption
      <4>5. j \in R
        BY <1>1, <4>3, <4>4 DEF Roomy
      <4> QED
        BY <1>5, <4>5
    <3> QED
      BY <3>1, <3>2
  <2> QED
    BY ONLY <2>1 DEF UsedRecentlyStays, Cached
<1>12. counted' \in [hits : Nat, misses : Nat, evictions : Nat]
  <2>1. Cardinality(DOMAIN store \ Roomy) \in Nat
    BY <1>0, FS_Subset, FS_CardinalityType DEF StoreTyped
  <2>2. PICK c, m : c = counted /\ m = Cardinality(DOMAIN store \ Roomy)
    OBVIOUS
  <2>3. counted' = [c EXCEPT !.evictions = @ + m]
    BY <2>2 DEF CompleteSet, Count
  <2> QED
    BY <1>0, <2>1, <2>2, <2>3 DEF CallsTyped
<1> QED
  BY <1>0, <1>2, <1>9, <1>10, <1>11, <1>12 DEF EntriesInv

(* An entry whose time is over is forgotten.                               *)
LEMMA GetExpiredKeeps ==
    ASSUME CacheInv, NEW k \in CacheKeys, GetExpired(k)
    PROVE  EntriesInv' /\ uses' \in Nat /\ counted' \in [hits : Nat, misses : Nat, evictions : Nat]
<1>0. HistoryTold /\ EntriesInv /\ uses \in Nat /\ CallsTyped
  BY DEF CacheInv, EntriesInv, CallsTyped
<1>1. store' = Without({k}) /\ uses' = uses /\ newest' = [newest EXCEPT ![k] = Nothing]
  BY DEF GetExpired
<1>2. /\ newest' \in [CacheKeys -> Noted]
      /\ \A j \in CacheKeys : newest'[j] = IF j \in {k} THEN Nothing ELSE newest[j]
  BY <1>0, <1>1 DEF HistoryTold, Noted, Nothing
<1>3. EntriesInv'
  BY <1>0, <1>1, <1>2, EntriesGo
<1>4. counted' \in [hits : Nat, misses : Nat, evictions : Nat]
  <2>1. PICK c : c = counted
    OBVIOUS
  <2>2. PICK d : d = [c EXCEPT !.evictions = @ + 1]
    OBVIOUS
  <2>3. c \in [hits : Nat, misses : Nat, evictions : Nat]
    BY <1>0, <2>1 DEF CallsTyped
  <2>4. counted' = [d EXCEPT !.misses = d.misses + 1]
    <3>1. d.misses = c.misses
      BY <2>2, <2>3
    <3> QED
      BY <2>1, <2>2, <3>1 DEF GetExpired
  <2>5. d \in [hits : Nat, misses : Nat, evictions : Nat]
    BY <2>2, <2>3
  <2> QED
    BY <2>4, <2>5
<1> QED
  BY <1>0, <1>1, <1>3, <1>4

(* So is all that an invalidation names.                                   *)
LEMMA InvalidateKeeps ==
    ASSUME CacheInv, NEW keys, Invalidate(keys)
    PROVE  EntriesInv'
<1>0. HistoryTold /\ EntriesInv /\ uses \in Nat
  BY DEF CacheInv, EntriesInv, CallsTyped
<1>1. store' = Without(keys) /\ uses' = uses
      /\ newest' = [k \in CacheKeys |-> IF k \in keys THEN Nothing ELSE newest[k]]
  BY DEF Invalidate
<1>2. /\ newest' \in [CacheKeys -> Noted]
      /\ \A j \in CacheKeys : newest'[j] = IF j \in keys THEN Nothing ELSE newest[j]
  BY <1>0, <1>1 DEF HistoryTold, Noted, Nothing
<1> QED
  BY <1>0, <1>1, <1>2, EntriesGo

(* Steps that touch no entry.                                              *)
LEMMA EntriesStay ==
    ASSUME EntriesInv, store' = store, newest' = newest, uses' = uses
    PROVE  EntriesInv'
<1>1. StoreTyped'
  BY DEF EntriesInv, StoreTyped
<1>2. HistoryTold'
  BY DEF EntriesInv, HistoryTold
<1>3. UsedRecentlyStays'
  BY DEF EntriesInv, UsedRecentlyStays, Cached
<1> QED
  BY <1>1, <1>2, <1>3 DEF EntriesInv

(* The cache starts empty.                                                 *)
LEMMA CacheInitially == CacheInit => CacheInv
<1> SUFFICES ASSUME CacheInit PROVE CacheInv
  OBVIOUS
<1>1. DOMAIN store = {} /\ store = [k \in DOMAIN store |-> store[k]]
  BY DEF CacheInit
<1>2. StoreTyped
  BY <1>1, FS_EmptySet, CacheAssumption DEF StoreTyped
<1>3. newest = [k \in CacheKeys |-> Nothing] /\ Nothing \in Noted /\ uses = 0 /\ Nothing.used = 0
  BY DEF CacheInit, Nothing, Noted
<1>4. newest \in [CacheKeys -> Noted] /\ \A k \in CacheKeys : newest[k].used = 0
  BY <1>3
<1>5. HistoryTold
  BY <1>1, <1>3, <1>4 DEF HistoryTold
<1>6. UsedRecentlyStays
  BY <1>4 DEF UsedRecentlyStays
<1>7. CallsTyped
  BY CacheAssumption DEF CacheInit, CallsTyped, NoSet
<1> QED
  BY <1>2, <1>5, <1>6, <1>7 DEF CacheInv, EntriesInv

(* Every step of the cache keeps its entries and their history together.   *)
LEMMA CacheKeeps == CacheInv /\ [CacheStep]_cacheVars => CacheInv'
<1> SUFFICES ASSUME CacheInv, [CacheStep]_cacheVars PROVE CacheInv'
  OBVIOUS
<1>0. EntriesInv /\ CallsTyped
  BY DEF CacheInv
<1>1. CASE TimePasses
  BY <1>0, <1>1, EntriesStay, CacheAssumption DEF CacheInv, CallsTyped, TimePasses
<1>2. CASE CompleteSet
  BY <1>0, <1>2, CompleteSetKeeps DEF CacheInv, CallsTyped, CompleteSet, NoSet
<1>3. CASE Switch
  BY <1>0, <1>3, EntriesStay DEF CacheInv, CallsTyped, Switch
<1>4. ASSUME NEW k \in CacheKeys, GetMisses(k) PROVE CacheInv'
  <2>1. PICK c : c = counted
    OBVIOUS
  <2>2. counted' = [c EXCEPT !.misses = @ + 1] /\ c \in [hits : Nat, misses : Nat, evictions : Nat]
    BY <1>0, <1>4, <2>1 DEF GetMisses, Count, CallsTyped
  <2>3. counted' \in [hits : Nat, misses : Nat, evictions : Nat]
    BY <2>2
  <2> QED
    BY <1>0, <1>4, <2>3, EntriesStay DEF CacheInv, CallsTyped, GetMisses
<1>5. ASSUME NEW k \in CacheKeys, GetExpired(k) PROVE CacheInv'
  BY <1>0, <1>5, GetExpiredKeeps DEF CacheInv, CallsTyped, GetExpired
<1>6. ASSUME NEW k \in CacheKeys, GetHits(k) PROVE CacheInv'
  BY <1>0, <1>6, GetHitsKeeps DEF CacheInv, CallsTyped, GetHits
<1>7. ASSUME NEW k \in CacheKeys, BeginSet(k) PROVE CacheInv'
  <2>1. PICK e, n : e = cacheClock + TimeToLive[k[2]] /\ n = sets + 1
    OBVIOUS
  <2>2. e \in Nat /\ n \in Nat
    BY <1>0, <2>1, CacheAssumption DEF CallsTyped, CacheKeys
  <2>3. setting' = [on |-> TRUE, key |-> k, expires |-> e, value |-> n]
    BY <1>7, <2>1 DEF BeginSet
  <2>4. setting'.on \in BOOLEAN /\ setting'.key \in CacheKeys /\ setting'.expires \in Nat /\ setting'.value \in Nat
    BY <2>2, <2>3
  <2>5. EntriesInv'
    BY <1>0, <1>7, EntriesStay DEF BeginSet
  <2>6. cacheClock' = cacheClock /\ uses' = uses /\ counted' = counted /\ sets' \in 0..MaxSets
    BY <1>0, <1>7, CacheAssumption DEF BeginSet, CallsTyped
  <2> QED
    BY <1>0, <2>4, <2>5, <2>6 DEF CacheInv, CallsTyped
<1>8. ASSUME NEW keys, Invalidate(keys) PROVE CacheInv'
  BY <1>0, <1>8, InvalidateKeeps DEF CacheInv, CallsTyped, Invalidate
<1>9. CASE UNCHANGED cacheVars
  BY <1>0, <1>9, EntriesStay DEF CacheInv, CallsTyped, cacheVars
<1> QED
  BY <1>1, <1>2, <1>3, <1>4, <1>5, <1>6, <1>7, <1>8, <1>9 DEF CacheStep

(* In every execution the entries are typed, never more than there may be, *)
(* and the history says of each what it holds.                             *)
LEMMA CacheInvariant == CacheSpec => []CacheInv
<1>1. CacheInit => CacheInv
  BY CacheInitially
<1>2. CacheInv /\ [CacheStep]_cacheVars => CacheInv'
  BY CacheKeeps
<1> QED
  BY <1>1, <1>2, PTL DEF CacheSpec

(* The type invariant of the cache.                                        *)
LEMMA CacheTypes == CacheInv => CacheTypeOK
  BY DEF CacheInv, CallsTyped, EntriesInv, StoreTyped, Entries, CacheTypeOK

(* An entry used recently is not evicted: an eviction takes the entries    *)
(* moved least recently, and an entry has as few no older than itself as   *)
(* uses have passed since (cache.py:73-88).                                *)
THEOREM RecentUseIsKept == CacheSpec => []UsedRecentlyStays
<1>1. CacheInv => UsedRecentlyStays
  BY DEF CacheInv, EntriesInv
<1> QED
  BY <1>1, CacheInvariant, PTL

(* A hit serves what the last set of its key stored, and nothing whose     *)
(* time is over (cache.py:50-71).                                          *)
THEOREM HitsServeTheLast == CacheSpec => HitsAreFresh
<1>1. ASSUME CacheInv, [CacheStep]_cacheVars, counted'.hits # counted.hits
      PROVE  served'.value = newest[served'.key].value /\ cacheClock <= newest[served'.key].expires
  <2>0. StoreTyped /\ HistoryTold /\ counted \in [hits : Nat, misses : Nat, evictions : Nat]
    BY <1>1 DEF CacheInv, EntriesInv, CallsTyped
  <2>1. ASSUME \A k \in CacheKeys : ~GetHits(k) PROVE FALSE
    <3>1. PICK c : c = counted
      OBVIOUS
    <3>2. ~(counted' = c)
      BY <1>1, <3>1
    <3>3. \A n \in 0..1 : counted' # [c EXCEPT !.evictions = @ + n, !.misses = @ + 1]
      BY <1>1, <2>0, <3>1
    <3>4. \A n : counted' # [c EXCEPT !.misses = @ + n] /\ counted' # [c EXCEPT !.evictions = @ + n]
      BY <1>1, <2>0, <3>1
    <3>5. ~TimePasses /\ ~Switch /\ ~(UNCHANGED cacheVars) /\ \A keys : ~Invalidate(keys)
      BY <3>1, <3>2 DEF TimePasses, Switch, cacheVars, Invalidate
    <3>6. ~CompleteSet
      BY <3>1, <3>4 DEF CompleteSet, Count
    <3>7. \A k \in CacheKeys : ~GetMisses(k) /\ ~BeginSet(k) /\ ~GetExpired(k)
      BY <3>1, <3>2, <3>3, <3>4 DEF GetMisses, BeginSet, GetExpired, Count
    <3> QED
      BY <1>1, <2>1, <3>5, <3>6, <3>7 DEF CacheStep
  <2>2. PICK k \in CacheKeys : GetHits(k)
    BY <2>1
  <2>3. PICK v : v = store[k].value
    OBVIOUS
  <2>4. served' = [on |-> TRUE, key |-> k, value |-> v] /\ k \in DOMAIN store /\ cacheClock <= store[k].expires
    BY <2>2, <2>3 DEF GetHits, Cached
  <2>5. served'.key = k /\ served'.value = v
    BY <2>4
  <2> QED
    BY <2>0, <2>3, <2>4, <2>5 DEF HistoryTold
<1> QED
  BY <1>1, CacheInvariant, PTL DEF CacheSpec, HitsAreFresh
=============================================================================
