--------------------------- MODULE Archive_proofs ---------------------------
(***************************************************************************)
(* Whatever there is in a repository, its modules arrive in the pod.       *)
(*                                                                         *)
(* The trees that are packed are those of the modules that are in no other *)
(* one's (NestInv), and of the directories that links lead to.  Each is to *)
(* be walked, is in the archive, or has arrived (Delivered), and nothing   *)
(* that has arrived is written over but by another copy of it (Harmless).  *)
(*                                                                         *)
(* For that, one must know where links are in what has been unpacked       *)
(* (TreeInv).  A link is where it was on the disk and leads to what it led *)
(* to there, or it is in a tree that was packed in the place of another    *)
(* link, which then never becomes one.  So what is unpacked through a link *)
(* goes where it was on the disk, or, if it is a copy of what another link *)
(* leads to, to that file (GoesHome): in no case to any other place.       *)
(***************************************************************************)
EXTENDS Archive, FiniteSetTheorems, SequenceTheorems, WellFoundedInduction, TLAPS

-----------------------------------------------------------------------------
(* Induction, and folds.                                                   *)

\* What holds of zero and of each next number holds of all.
LEMMA SetInduction ==
  ASSUME NEW S, 0 \in S, \A n \in Nat : n \in S => n + 1 \in S
  PROVE  Nat \subseteq S
<1> SUFFICES ASSUME Nat \ S # {} PROVE FALSE
  OBVIOUS
<1> DEFINE Less == OpToRel(<, Nat)
<1>0. \A x, y \in Nat : x < y => <<x, y>> \in Less
  BY DEF OpToRel
<1>1. IsWellFoundedOn(Less, Nat)
  BY NatLessThanWellFounded
<1> HIDE DEF Less
<1>2. PICK x \in Nat \ S : \A y \in Nat \ S : <<y, x>> \notin Less
  BY <1>1, WFMin
<1>3. x # 0 /\ x - 1 \in Nat /\ x - 1 < x
  OBVIOUS
<1>4. x - 1 \in S
  BY <1>0, <1>2, <1>3
<1>5. (x - 1) + 1 = x
  BY <1>3
<1> QED
  BY <1>3, <1>4, <1>5

\* A set of numbers has a least one.
LEMMA LeastExists ==
  ASSUME NEW S \in SUBSET Nat, S # {}
  PROVE  (CHOOSE x \in S : \A y \in S : x <= y) \in S
<1> DEFINE Less == OpToRel(<, Nat)
<1>0. \A x, y \in Nat : x < y => <<x, y>> \in Less
  BY DEF OpToRel
<1>1. IsWellFoundedOn(Less, Nat)
  BY NatLessThanWellFounded
<1> HIDE DEF Less
<1>2. PICK x \in S : \A y \in S : <<y, x>> \notin Less
  <2>1. S \subseteq Nat
    OBVIOUS
  <2> QED
    BY <1>1, <2>1, WFMin
<1>3. ASSUME NEW y \in S PROVE x <= y
  <2>1. x \in Nat /\ y \in Nat /\ ~(y < x)
    BY <1>0, <1>2
  <2> QED
    BY <2>1
<1> QED
  BY <1>3

\* The greatest of some numbers.
LEMMA MaxIs ==
  ASSUME NEW n \in Nat, NEW s \in SUBSET (1..n), NEW m \in s, \A y \in s : y <= m
  PROVE  Max(s) = m
<1>1. \A x \in s : (\A y \in s : x >= y) => x = m
  OBVIOUS
<1>2. \A y \in s : m >= y
  OBVIOUS
<1> QED
  BY <1>1, <1>2 DEF Max

LEMMA MaxIsIn ==
  ASSUME NEW n \in Nat, NEW s \in SUBSET (1..n), s # {}
  PROVE  Max(s) \in s /\ \A y \in s : y <= Max(s)
<1> DEFINE S == {k \in Nat : \A t \in SUBSET (1..k) : t # {} => \E m \in t : \A y \in t : y <= m}
<1>1. 0 \in S
  <2>1. 1..0 = {}
    OBVIOUS
  <2>2. \A t \in SUBSET (1..0) : t = {}
    BY <2>1
  <2> QED
    BY <2>2
<1>2. ASSUME NEW k \in Nat, k \in S PROVE k + 1 \in S
  <2>1. ASSUME NEW t \in SUBSET (1..(k + 1)), t # {} PROVE \E m \in t : \A y \in t : y <= m
    <3>1. CASE k + 1 \in t
      <4>1. \A y \in t : y <= k + 1
        OBVIOUS
      <4> QED
        BY <3>1, <4>1
    <3>2. CASE k + 1 \notin t
      <4>1. t \in SUBSET (1..k)
        BY <3>2
      <4> QED
        BY <1>2, <2>1, <4>1
    <3> QED
      BY <3>1, <3>2
  <2> QED
    BY <2>1
<1>3. n \in S
  <2> HIDE DEF S
  <2> QED
    BY <1>1, <1>2, SetInduction
<1>4. PICK m \in s : \A y \in s : y <= m
  BY <1>3
<1> QED
  BY <1>4, MaxIs

\* What a fold computes for each set of positions, the last one last.
Folds(g, n, base, step) ==
  \A s \in SUBSET (1..n) :
    g[s] = IF s = {} THEN base ELSE step[Max(s)][g[s \ {Max(s)}]]

HasFold(n, V, base, step) ==
  \E g \in [SUBSET (1..n) -> V] : Folds(g, n, base, step)

\* There is such a function.
LEMMA FoldExists ==
  ASSUME NEW n \in Nat, NEW V, NEW base \in V, NEW step \in [1..n -> [V -> V]]
  PROVE  HasFold(n, V, base, step)
<1> DEFINE S == {k \in Nat : k <= n => HasFold(k, V, base, step)}
<1>1. 0 \in S
  <2> DEFINE g == [s \in SUBSET (1..0) |-> base]
  <2>1. 1..0 = {} /\ g \in [SUBSET (1..0) -> V]
    OBVIOUS
  <2>2. Folds(g, 0, base, step)
    BY <2>1 DEF Folds
  <2> HIDE DEF g
  <2>3. HasFold(0, V, base, step)
    BY <2>1, <2>2 DEF HasFold
  <2> QED
    BY <2>3
<1>2. ASSUME NEW k \in Nat, k + 1 <= n, HasFold(k, V, base, step)
      PROVE  HasFold(k + 1, V, base, step)
  <2> DEFINE m == k + 1
  <2>1. PICK g \in [SUBSET (1..k) -> V] : Folds(g, k, base, step)
    BY <1>2 DEF HasFold
  <2> DEFINE h == [s \in SUBSET (1..m) |->
                     IF m \in s THEN step[m][g[s \ {m}]] ELSE g[s]]
  <2>2. m \in 1..n /\ \A s \in SUBSET (1..m) : s \ {m} \in SUBSET (1..k)
    BY <1>2
  <2>3. \A s \in SUBSET (1..m) : m \notin s => s \ {m} = s
    OBVIOUS
  <2> HIDE DEF m
  <2>4. \A s \in SUBSET (1..m) : g[s \ {m}] \in V
    BY <2>1, <2>2
  <2>5. h \in [SUBSET (1..m) -> V]
    BY <2>2, <2>3, <2>4
  <2>6. ASSUME NEW s \in SUBSET (1..m)
        PROVE  h[s] = IF s = {} THEN base ELSE step[Max(s)][h[s \ {Max(s)}]]
    <3>1. CASE m \in s
      <4>1. Max(s) = m
        <5>1. m \in Nat /\ \A y \in s : y <= m
          BY <2>2
        <5> QED
          BY <3>1, <5>1, MaxIs
      <4>2. h[s \ {m}] = g[s \ {m}]
        OBVIOUS
      <4> QED
        BY <3>1, <4>1, <4>2
    <3>2. CASE m \notin s
      <4>1. h[s] = g[s] /\ s \in SUBSET (1..k)
        BY <2>2, <2>3, <3>2
      <4>2. h[s \ {Max(s)}] = g[s \ {Max(s)}]
        BY <3>2
      <4> QED
        BY <2>1, <4>1, <4>2 DEF Folds
    <3> QED
      BY <3>1, <3>2
  <2>7. Folds(h, m, base, step)
    <3> HIDE DEF h
    <3> QED
      BY <2>6 DEF Folds
  <2> HIDE DEF h
  <2> QED
    BY <2>5, <2>7 DEF m, HasFold
<1>3. ASSUME NEW k \in Nat, k \in S PROVE k + 1 \in S
  <2>1. k + 1 <= n => k <= n
    OBVIOUS
  <2> QED
    BY <1>2, <1>3, <2>1
<1>4. n \in S
  <2> HIDE DEF S
  <2> QED
    BY <1>1, <1>3, SetInduction
<1> QED
  BY <1>4

\* One position more.
LEMMA FoldStep ==
  ASSUME NEW n \in Nat, NEW k \in Nat, k + 1 <= n
  PROVE  /\ 1..(k + 1) \in SUBSET (1..n) /\ 1..(k + 1) # {}
         /\ Max(1..(k + 1)) = k + 1
         /\ (1..(k + 1)) \ {k + 1} = 1..k
<1>1. 1..(k + 1) \in SUBSET (1..n) /\ k + 1 \in 1..(k + 1)
  OBVIOUS
<1>2. Max(1..(k + 1)) = k + 1
  <2>1. \A y \in 1..(k + 1) : y <= k + 1
    OBVIOUS
  <2> QED
    BY <1>1, <2>1, MaxIs
<1> QED
  BY <1>1, <1>2

-----------------------------------------------------------------------------
(* Paths.                                                                  *)

Path == Seq(STRING)

\* What is under a directory begins with its names.
LEMMA UnderIs ==
  ASSUME NEW p \in Path, NEW dir \in Path
  PROVE  Under(p, dir) <=> /\ Len(dir) <= Len(p)
                           /\ \A i \in 1..Len(dir) : p[i] = dir[i]
<1> DEFINE n == Len(dir)
<1>1. n \in Nat /\ Len(p) \in Nat
  BY LenProperties DEF Path
<1>2. SubSeq(dir, 1, n) = dir
  BY SubSeqFull DEF Path
<1>3. ASSUME n <= Len(p)
      PROVE  /\ SubSeq(p, 1, n) \in Path /\ Len(SubSeq(p, 1, n)) = n
             /\ \A i \in 1..n : SubSeq(p, 1, n)[i] = p[i]
  <2>1. \A i \in 1..n : p[i] \in STRING
    BY <1>1, <1>3, ElementOfSeq DEF Path
  <2> HIDE DEF n
  <2>2. /\ SubSeq(p, 1, n) \in Seq(STRING)
        /\ Len(SubSeq(p, 1, n)) = IF 1 <= n THEN n - 1 + 1 ELSE 0
        /\ \A i \in 1..(n - 1 + 1) : SubSeq(p, 1, n)[i] = p[1 + i - 1]
    BY <1>1, <2>1, SubSeqProperties
  <2> QED
    BY <1>1, <2>2 DEF Path
<1>4. ASSUME n <= Len(p), \A i \in 1..n : p[i] = dir[i]
      PROVE  SubSeq(p, 1, n) = dir
  <2>1. \A i \in 1..n : SubSeq(p, 1, n)[i] = dir[i]
    BY <1>3, <1>4
  <2> QED
    BY <1>3, <1>4, <2>1, SeqEqual DEF Path
<1>5. ASSUME n <= Len(p), SubSeq(p, 1, n) = dir
      PROVE  \A i \in 1..n : p[i] = dir[i]
  BY <1>3, <1>5
<1> QED
  BY <1>2, <1>4, <1>5 DEF Under, IsPrefix

\* It is an order, and what two paths have in common orders them.
LEMMA UnderOrders ==
  ASSUME NEW p \in Path, NEW q \in Path, NEW dir \in Path
  PROVE  /\ Under(p, p)
         /\ Under(p, q) /\ Under(q, dir) => Under(p, dir)
         /\ Under(p, q) /\ Under(q, p) => p = q
         /\ Under(p, q) /\ Under(p, dir) => Under(q, dir) \/ Under(dir, q)
         /\ Under(p, q) /\ Len(p) = Len(q) => p = q
<1>1. Len(p) \in Nat /\ Len(q) \in Nat /\ Len(dir) \in Nat
  BY LenProperties DEF Path
<1>2. ASSUME Under(p, q), Len(p) = Len(q) PROVE p = q
  BY <1>1, <1>2, UnderIs, SeqEqual DEF Path
<1> QED
  BY <1>1, <1>2, UnderIs

\* A path has the names of l, and behind them those that p has behind dir.
IsMoved(path, p, dir, l) ==
  /\ path \in Path /\ Len(path) = Len(l) + Len(p) - Len(dir)
  /\ \A i \in 1..Len(l) : path[i] = l[i]
  /\ \A i \in Len(dir) + 1..Len(p) : path[i - Len(dir) + Len(l)] = p[i]

\* The rest of a path, put behind another one.
LEMMA RestIs ==
  ASSUME NEW p \in Path, NEW dir \in Path, Under(p, dir), NEW l \in Path
  PROVE  /\ Rest(p, dir) \in Path
         /\ IsMoved(l \o Rest(p, dir), p, dir, l)
<1> DEFINE k == Len(dir)
           n == Len(p)
           rest == Rest(p, dir)
<1>1. k \in Nat /\ n \in Nat /\ k <= n /\ Len(l) \in Nat
  BY UnderIs, LenProperties DEF Path
<1>2. \A i \in k + 1..n : p[i] \in STRING
  BY <1>1, ElementOfSeq DEF Path
<1>3. /\ rest \in Seq(STRING)
      /\ Len(rest) = IF k + 1 <= n THEN n - (k + 1) + 1 ELSE 0
      /\ \A i \in 1..(n - (k + 1) + 1) : rest[i] = p[(k + 1) + i - 1]
  <2> HIDE DEF k, n
  <2>1. rest = SubSeq(p, k + 1, n)
    BY DEF Rest, k, n
  <2> HIDE DEF rest
  <2> QED
    BY <1>1, <1>2, <2>1, SubSeqProperties
<1>4. Len(rest) = n - k /\ \A i \in 1..(n - k) : rest[i] = p[k + i]
  <2> HIDE DEF rest, k, n
  <2>1. n - (k + 1) + 1 = n - k /\ \A i \in 1..(n - k) : (k + 1) + i - 1 = k + i
    BY <1>1
  <2> QED
    BY <1>1, <1>3, <2>1
<1>5. /\ l \o rest \in Seq(STRING) /\ Len(l \o rest) = Len(l) + Len(rest)
      /\ \A i \in 1..(Len(l) + Len(rest)) :
           (l \o rest)[i] = IF i <= Len(l) THEN l[i] ELSE rest[i - Len(l)]
  <2> HIDE DEF rest
  <2> QED
    BY <1>3, ConcatProperties DEF Path
<1>6. \A i \in 1..Len(l) : (l \o rest)[i] = l[i]
  <2> HIDE DEF rest, k, n
  <2> QED
    BY <1>1, <1>4, <1>5
<1>7. ASSUME NEW i \in k + 1..n
      PROVE  (l \o rest)[i - k + Len(l)] = p[i]
  <2> HIDE DEF rest, k, n
  <2>1. /\ i - k + Len(l) \in 1..(Len(l) + Len(rest))
        /\ ~(i - k + Len(l) <= Len(l)) /\ i - k + Len(l) - Len(l) = i - k
        /\ i - k \in 1..(n - k) /\ k + (i - k) = i
    BY <1>1, <1>4
  <2> QED
    BY <1>4, <1>5, <2>1
<1> QED
  BY <1>1, <1>3, <1>4, <1>5, <1>6, <1>7 DEF Path, IsMoved

\* A directory and what is under it, put in another place.
LEMMA Moved ==
  ASSUME NEW dir \in Path, NEW l \in Path,
         NEW p \in Path, Under(p, dir), NEW q \in Path, Under(q, dir)
  PROVE  /\ Under(l \o Rest(p, dir), l)
         /\ dir \o Rest(p, dir) = p
         /\ Under(l \o Rest(p, dir), l \o Rest(q, dir)) => Under(p, q)
         /\ l \o Rest(p, dir) = l \o Rest(q, dir) => p = q
         /\ l \o Rest(p, dir) = l <=> p = dir
         /\ dir \o Rest(l \o Rest(p, dir), l) = p
<1> DEFINE lp == l \o Rest(p, dir)
           lq == l \o Rest(q, dir)
<1>1. /\ Len(p) \in Nat /\ Len(q) \in Nat /\ Len(dir) \in Nat /\ Len(l) \in Nat
      /\ Len(dir) <= Len(p) /\ Len(dir) <= Len(q)
      /\ \A i \in 1..Len(dir) : p[i] = dir[i] /\ q[i] = dir[i]
  BY UnderIs, LenProperties DEF Path
<1>2. /\ lp \in Path /\ Len(lp) = Len(l) + Len(p) - Len(dir)
      /\ \A i \in 1..Len(l) : lp[i] = l[i]
      /\ \A i \in Len(dir) + 1..Len(p) : lp[i - Len(dir) + Len(l)] = p[i]
  <2>1. IsMoved(lp, p, dir, l)
    BY RestIs
  <2> HIDE DEF lp
  <2> QED
    BY <2>1 DEF IsMoved
<1>3. /\ lq \in Path /\ Len(lq) = Len(l) + Len(q) - Len(dir)
      /\ \A i \in Len(dir) + 1..Len(q) : lq[i - Len(dir) + Len(l)] = q[i]
  <2>1. IsMoved(lq, q, dir, l)
    BY RestIs
  <2> HIDE DEF lq
  <2> QED
    BY <2>1 DEF IsMoved
<1>4. ASSUME NEW t \in Path, Under(t, dir), t = dir \o Rest(p, dir) PROVE t = p
  <2>1. /\ Len(t) = Len(dir) + Len(p) - Len(dir)
        /\ \A i \in 1..Len(dir) : t[i] = dir[i]
        /\ \A i \in Len(dir) + 1..Len(p) : t[i - Len(dir) + Len(dir)] = p[i]
    <3>1. IsMoved(t, p, dir, dir)
      BY <1>4, RestIs
    <3> QED
      BY <3>1 DEF IsMoved
  <2>2. Len(t) = Len(p) /\ \A i \in 1..Len(p) : t[i] = p[i]
    BY <1>1, <2>1
  <2> QED
    BY <2>2, SeqEqual DEF Path
<1>5. dir \o Rest(p, dir) = p
  <2> DEFINE t == dir \o Rest(p, dir)
  <2>1. /\ t \in Path /\ Len(t) = Len(dir) + Len(p) - Len(dir)
        /\ \A i \in 1..Len(dir) : t[i] = dir[i]
    <3>1. IsMoved(t, p, dir, dir)
      BY <1>1, RestIs
    <3> HIDE DEF t
    <3> QED
      BY <3>1 DEF IsMoved
  <2> HIDE DEF t
  <2>2. Under(t, dir)
    BY <1>1, <2>1, UnderIs
  <2> QED
    BY <1>4, <2>1, <2>2 DEF t
<1> HIDE DEF lp, lq
<1>6. Under(lp, l)
  BY <1>1, <1>2, UnderIs
<1>7. ASSUME Under(lp, lq) PROVE Under(p, q)
  <2>1. Len(lq) <= Len(lp) /\ \A i \in 1..Len(lq) : lp[i] = lq[i]
    BY <1>2, <1>3, <1>7, UnderIs
  <2>2. Len(q) <= Len(p)
    BY <1>1, <1>2, <1>3, <2>1
  <2>3. ASSUME NEW i \in Len(dir) + 1..Len(q) PROVE p[i] = q[i]
    <3>1. /\ i - Len(dir) + Len(l) \in 1..Len(lq)
          /\ i \in Len(dir) + 1..Len(p)
      BY <1>1, <1>3, <2>2
    <3> QED
      BY <1>2, <1>3, <2>1, <3>1
  <2>4. \A i \in 1..Len(q) : p[i] = q[i]
    BY <1>1, <2>3
  <2> QED
    BY <2>2, <2>4, UnderIs
<1>8. ASSUME lp = lq PROVE p = q
  <2>1. Under(p, q) /\ Len(p) = Len(q)
    BY <1>1, <1>2, <1>3, <1>7, <1>8, UnderOrders
  <2> QED
    BY <2>1, UnderOrders
<1>9. lp = l <=> p = dir
  <2>1. ASSUME lp = l PROVE p = dir
    <3>1. Len(p) = Len(dir)
      BY <1>1, <1>2, <2>1
    <3> QED
      BY <3>1, UnderOrders
  <2>2. ASSUME p = dir PROVE lp = l
    <3>1. Len(lp) = Len(l)
      BY <1>1, <1>2, <2>2
    <3> QED
      BY <1>2, <1>6, <3>1, UnderOrders
  <2> QED
    BY <2>1, <2>2
<1>10. dir \o Rest(lp, l) = p
  <2> DEFINE t == dir \o Rest(lp, l)
  <2>1. /\ t \in Path /\ Len(t) = Len(dir) + Len(lp) - Len(l)
        /\ \A i \in 1..Len(dir) : t[i] = dir[i]
        /\ \A i \in Len(l) + 1..Len(lp) : t[i - Len(l) + Len(dir)] = lp[i]
    <3>1. IsMoved(t, lp, l, dir)
      BY <1>2, <1>6, RestIs
    <3> HIDE DEF t
    <3> QED
      BY <3>1 DEF IsMoved
  <2> HIDE DEF t
  <2>2. Len(t) = Len(p)
    BY <1>1, <1>2, <2>1
  <2>3. ASSUME NEW i \in Len(dir) + 1..Len(p) PROVE t[i] = p[i]
    <3> DEFINE j == i - Len(dir) + Len(l)
    <3>1. j \in Len(l) + 1..Len(lp) /\ j - Len(l) + Len(dir) = i
      BY <1>1, <1>2
    <3>2. lp[j] = p[i]
      BY <1>2
    <3> HIDE DEF j
    <3> QED
      BY <2>1, <3>1, <3>2
  <2>4. \A i \in 1..Len(p) : t[i] = p[i]
    BY <1>1, <2>1, <2>3
  <2> QED
    BY <2>1, <2>2, <2>4, SeqEqual DEF Path, t
<1> QED
  BY <1>5, <1>6, <1>7, <1>8, <1>9, <1>10 DEF lp, lq

\* The first names of a path.
LEMMA FirstNames ==
  ASSUME NEW p \in Path, NEW n \in 0..Len(p)
  PROVE  /\ SubSeq(p, 1, n) \in Path /\ Len(SubSeq(p, 1, n)) = n
         /\ \A i \in 1..n : SubSeq(p, 1, n)[i] = p[i]
<1>1. n \in Nat /\ Len(p) \in Nat /\ \A i \in 1..n : p[i] \in STRING
  BY ElementOfSeq, LenProperties DEF Path
<1>2. /\ SubSeq(p, 1, n) \in Seq(STRING)
      /\ Len(SubSeq(p, 1, n)) = IF 1 <= n THEN n - 1 + 1 ELSE 0
      /\ \A i \in 1..(n - 1 + 1) : SubSeq(p, 1, n)[i] = p[1 + i - 1]
  BY <1>1, SubSeqProperties
<1> QED
  BY <1>1, <1>2 DEF Path

\* A path is under its parent, and under nothing between the two.
LEMMA ParentIs ==
  ASSUME NEW p \in Path, p # <<>>
  PROVE  /\ Parent(p) \in Path /\ Len(Parent(p)) = Len(p) - 1 /\ Under(p, Parent(p))
         /\ \A q \in Path : Under(p, q) /\ p # q => Under(Parent(p), q)
<1>1. Len(p) \in Nat /\ Len(p) # 0
  BY EmptySeq, LenProperties DEF Path
<1>2. Parent(p) = SubSeq(p, 1, Len(p) - 1)
  BY DEF Parent, Front
<1> DEFINE n == Len(p) - 1
<1>3. n \in 0..Len(p) /\ Parent(p) = SubSeq(p, 1, n)
  BY <1>1, <1>2
<1> HIDE DEF n
<1>4. /\ Parent(p) \in Path /\ Len(Parent(p)) = n
      /\ \A i \in 1..n : Parent(p)[i] = p[i]
  BY <1>3, FirstNames
<1> HIDE DEF Parent
<1>5. Under(p, Parent(p))
  <2>1. Len(Parent(p)) <= Len(p)
    BY <1>1, <1>3, <1>4
  <2>2. \A i \in 1..Len(Parent(p)) : p[i] = Parent(p)[i]
    BY <1>4
  <2> QED
    BY <1>4, <2>1, <2>2, UnderIs
<1>6. ASSUME NEW q \in Path, Under(p, q), p # q PROVE Under(Parent(p), q)
  <2>1. Len(q) \in Nat /\ Len(q) <= Len(p) /\ Len(q) # Len(p)
    BY <1>6, UnderIs, UnderOrders, LenProperties DEF Path
  <2>2. Len(q) <= n
    BY <1>1, <2>1 DEF n
  <2>3. \A i \in 1..Len(q) : Parent(p)[i] = q[i]
    <3>1. \A i \in 1..Len(q) : p[i] = q[i] /\ i \in 1..n
      BY <1>3, <1>6, <2>1, <2>2, UnderIs
    <3> QED
      BY <1>4, <3>1
  <2> QED
    BY <1>4, <2>2, <2>3, UnderIs
<1> QED
  BY <1>4, <1>5, <1>6 DEF n

-----------------------------------------------------------------------------
(* What is on the disk.                                                    *)

AllPaths == Dirs \cup Files \cup DOMAIN Targets

LEMMA AllArePaths ==
  /\ AllPaths \subseteq Path /\ <<>> \notin AllPaths /\ Base \in Dirs
  /\ Dirs \cap Files = {} /\ (Dirs \cup Files) \cap DOMAIN Targets = {}
<1>1. /\ AllPaths \subseteq Path /\ <<>> \notin Dirs \cup Files /\ Base \in Dirs
      /\ Dirs \cap Files = {} /\ (Dirs \cup Files) \cap DOMAIN Targets = {}
  BY ArchiveAssumption DEF AllPaths, Path, Missing
<1>2. ASSUME <<>> \in DOMAIN Targets PROVE FALSE
  <2>1. Under(<<>>, Base) /\ Base \in Path /\ <<>> \in Path /\ Base # <<>>
    BY <1>1, <1>2, ArchiveAssumption DEF AllPaths
  <2>2. Len(Base) <= 0 /\ Len(Base) # 0
    BY <2>1, UnderIs, EmptySeq DEF Path
  <2> QED
    BY <2>1, <2>2, LenProperties DEF Path
<1> QED
  BY <1>1, <1>2 DEF AllPaths

\* What a path on the disk is under is a directory, and it leads there by way of
\* directories only.
LEMMA AboveAreDirs ==
  ASSUME NEW p \in AllPaths, NEW q \in Path, Under(p, q), p # q, q # <<>>
  PROVE  q \in Dirs
<1> DEFINE S == {k \in Nat : \A d \in Dirs : Len(d) = Len(q) + k /\ Under(d, q) => q \in Dirs}
<1>1. /\ p \in Path /\ p # <<>> /\ Dirs \subseteq Path /\ <<>> \notin Dirs
      /\ Len(q) \in Nat /\ Len(q) # 0
  BY AllArePaths, EmptySeq, LenProperties DEF AllPaths, Path
<1>2. 0 \in S
  <2>1. ASSUME NEW d \in Dirs, Len(d) = Len(q) + 0, Under(d, q) PROVE q \in Dirs
    BY <1>1, <2>1, UnderOrders
  <2> QED
    BY <2>1
<1>3. ASSUME NEW k \in Nat, k \in S PROVE k + 1 \in S
  <2>1. ASSUME NEW d \in Dirs, Len(d) = Len(q) + (k + 1), Under(d, q) PROVE q \in Dirs
    <3>1. d \in Path /\ d # <<>> /\ d # q
      BY <1>1, <2>1
    <3>2. /\ Parent(d) \in Path /\ Len(Parent(d)) = Len(q) + k
          /\ Under(Parent(d), q)
      BY <1>1, <2>1, <3>1, ParentIs
    <3>3. Parent(d) # <<>>
      BY <1>1, <3>2, EmptySeq
    <3>4. Parent(d) \in Dirs
      BY <3>3, ArchiveAssumption
    <3> QED
      BY <1>3, <3>2, <3>4
  <2> QED
    BY <2>1
<1>4. Nat \subseteq S
  <2> HIDE DEF S
  <2> QED
    BY <1>2, <1>3, SetInduction
<1>5. Parent(p) \in Dirs \cup {<<>>} /\ Parent(p) \in Path /\ Under(Parent(p), q)
  BY <1>1, ArchiveAssumption, ParentIs DEF AllPaths
<1>6. Len(q) <= Len(Parent(p)) /\ Len(Parent(p)) \in Nat
  BY <1>5, UnderIs, LenProperties DEF Path
<1>7. Parent(p) \in Dirs
  BY <1>1, <1>5, <1>6, EmptySeq
<1>8. Len(Parent(p)) - Len(q) \in S /\ Len(Parent(p)) = Len(q) + (Len(Parent(p)) - Len(q))
  BY <1>1, <1>4, <1>6
<1> QED
  BY <1>5, <1>7, <1>8

\* So there is nothing under a file or a link.
LEMMA NothingUnder ==
  ASSUME NEW p \in AllPaths, NEW q \in AllPaths, Under(p, q), p # q
  PROVE  q \in Dirs
BY AboveAreDirs, AllArePaths
-----------------------------------------------------------------------------
(* Rules.                                                                  *)

\* A function on the first numbers is a sequence.
LEMMA IsASeqOf ==
  ASSUME NEW n \in Nat, NEW S, NEW f, f = [i \in 1..n |-> f[i]], \A i \in 1..n : f[i] \in S
  PROVE  f \in Seq(S) /\ Len(f) = n /\ DOMAIN f = 1..n
<1>1. f \in [1..n -> S]
  OBVIOUS
<1> QED
  BY <1>1, SeqDef

\* A rule takes paths out or back in.
LEMMA RulesAre ==
  ASSUME repo \in Repos
  PROVE  /\ Len(Rules) \in Nat /\ DOMAIN Rules = 1..Len(Rules)
         /\ \A i \in 1..Len(Rules) : Rules[i].negated \in BOOLEAN
<1> DEFINE R == RuleSet \cup {DefaultExclusions[i] : i \in 1..3}
<1>1. DefaultExclusions \in Seq(R)
  <2>1. Len(DefaultExclusions) = 3 /\ DOMAIN DefaultExclusions = 1..3
    BY DEF DefaultExclusions
  <2>2. \A i \in 1..3 : DefaultExclusions[i] \in R
    OBVIOUS
  <2>3. DefaultExclusions = [i \in 1..3 |-> DefaultExclusions[i]]
    BY DEF DefaultExclusions
  <2> HIDE DEF R
  <2> QED
    BY <2>2, <2>3, IsASeqOf
<1>2. repo.ignore \in Seq(R)
  <2>1. repo.ignore \in Seq(RuleSet)
    BY ArchiveAssumption DEF Repos
  <2> QED
    BY <2>1, SeqMonotonic
<1>3. \A rule \in R : rule.negated \in BOOLEAN
  <2>1. \A i \in 1..3 : i = 1 \/ i = 2 \/ i = 3
    OBVIOUS
  <2>2. \A i \in 1..3 : DefaultExclusions[i].negated \in BOOLEAN
    <3>1. \A i \in 1..3 : \E names, anchored, tree_ : \E negated \in BOOLEAN :
            DefaultExclusions[i] = Rule(names, anchored, tree_, negated)
      <4>1. /\ DefaultExclusions[1] = Rule(<<".git">>, FALSE, TRUE, FALSE)
            /\ DefaultExclusions[2] = Rule(<<".terraform">>, FALSE, TRUE, FALSE)
            /\ DefaultExclusions[3] = Rule(<<".terraform", "modules">>, FALSE, TRUE, TRUE)
        BY DEF DefaultExclusions
      <4>2. TRUE \in BOOLEAN /\ FALSE \in BOOLEAN
        OBVIOUS
      <4> QED
        BY <2>1, <4>1, <4>2
    <3>2. \A names, anchored, tree_, negated :
            Rule(names, anchored, tree_, negated).negated = negated
      BY DEF Rule
    <3> QED
      BY <3>1, <3>2
  <2>3. \A rule \in RuleSet : rule.negated \in BOOLEAN
    BY DEF RuleSet
  <2> QED
    BY <2>2, <2>3
<1> HIDE DEF R
<1>4. Rules \in Seq(R)
  BY <1>1, <1>2, ConcatProperties DEF Rules
<1> QED
  BY <1>3, <1>4, LenProperties, ElementOfSeq

\* The last rule that matches decides.
LEMMA LastRuleDecides ==
  ASSUME repo \in Repos, NEW names
  PROVE  MatchIgnoreRule(names) <=>
           \E i \in DOMAIN Rules :
             /\ Matches(Rules[i], names) /\ ~Rules[i].negated
             /\ \A j \in DOMAIN Rules : j > i /\ Matches(Rules[j], names) => ~Rules[j].negated
<1> DEFINE n == Len(Rules)
           matches(i) == Matches(Rules[i], names)
           Run(g) == g = [s \in SUBSET (1..n) |->
                            IF s = {} THEN FALSE
                            ELSE IF matches(Max(s)) THEN ~Rules[Max(s)].negated
                                 ELSE g[s \ {Max(s)}]]
           iter == CHOOSE g : Run(g)
           Says(k) == \E i \in 1..k :
                        /\ matches(i) /\ ~Rules[i].negated
                        /\ \A j \in 1..k : j > i /\ matches(j) => ~Rules[j].negated
           step == [i \in 1..n |-> [matched \in BOOLEAN |->
                      IF matches(i) THEN ~Rules[i].negated ELSE matched]]
<1>1. n \in Nat /\ DOMAIN Rules = 1..n /\ \A i \in 1..n : Rules[i].negated \in BOOLEAN
  BY RulesAre
<1>2. MatchIgnoreRule(names) = iter[1..n]
  BY <1>1 DEF MatchIgnoreRule, FoldLeft, MapThenFoldSet
<1>3. Run(iter)
  <2>1. step \in [1..n -> [BOOLEAN -> BOOLEAN]]
    BY <1>1
  <2>2. PICK g \in [SUBSET (1..n) -> BOOLEAN] : Folds(g, n, FALSE, step)
    <3> HIDE DEF step, n
    <3>1. HasFold(n, BOOLEAN, FALSE, step)
      BY <1>1, <2>1, FoldExists
    <3> QED
      BY <3>1 DEF HasFold
  <2>3. Run(g)
    <3>1. ASSUME NEW s \in SUBSET (1..n), s # {} PROVE Max(s) \in 1..n
      BY <1>1, <3>1, MaxIsIn
    <3> QED
      BY <2>2, <3>1 DEF Folds
  <2> HIDE DEF Run
  <2> QED
    BY <2>3
<1> HIDE DEF iter, step
<1>4. iter[1..0] = FALSE
  <2>1. 1..0 = {} /\ {} \in SUBSET (1..n)
    OBVIOUS
  <2> QED
    BY <1>3, <2>1
<1>5. ASSUME NEW k \in Nat, k + 1 <= n
      PROVE  iter[1..(k + 1)] = IF matches(k + 1) THEN ~Rules[k + 1].negated ELSE iter[1..k]
  <2> HIDE DEF n, matches
  <2> DEFINE s == 1..(k + 1)
  <2>1. s \in SUBSET (1..n) /\ s # {} /\ Max(s) = k + 1 /\ s \ {k + 1} = 1..k
    BY <1>1, <1>5, FoldStep
  <2> HIDE DEF s
  <2>2. iter[s] = IF s = {} THEN FALSE
                  ELSE IF matches(Max(s)) THEN ~Rules[Max(s)].negated
                       ELSE iter[s \ {Max(s)}]
    BY <1>3, <2>1
  <2> QED
    BY <2>1, <2>2 DEF s
<1> DEFINE S == {k \in Nat : k <= n => (iter[1..k] <=> Says(k))}
<1> HIDE DEF Run
<1>6. 0 \in S
  <2>1. ~Says(0)
    OBVIOUS
  <2> QED
    BY <1>4, <2>1
<1>7. ASSUME NEW k \in Nat, k \in S, k + 1 <= n PROVE iter[1..(k + 1)] <=> Says(k + 1)
  <2>1. \A i \in 1..(k + 1) : i \in 1..k \/ i = k + 1
    OBVIOUS
  <2>2. \A i \in 1..k : i \in 1..(k + 1) /\ k + 1 > i /\ ~(i > k + 1)
    OBVIOUS
  <2>3. k + 1 \in 1..(k + 1) /\ k <= n /\ ~(k + 1 > k + 1)
    BY <1>7
  <2>4. iter[1..k] <=> Says(k)
    BY <1>7, <2>3
  <2> HIDE DEF n
  <2>5. CASE matches(k + 1)
    <3>1. \A j \in 1..(k + 1) : ~(j > k + 1)
      OBVIOUS
    <3>2. Says(k + 1) <=> ~Rules[k + 1].negated
      BY <2>1, <2>2, <2>3, <2>5, <3>1
    <3> QED
      BY <1>5, <1>7, <2>5, <3>2
  <2>6. CASE ~matches(k + 1)
    <3>1. Says(k + 1) <=> Says(k)
      BY <2>1, <2>2, <2>3, <2>6
    <3> QED
      BY <1>5, <1>7, <2>4, <2>6, <3>1
  <2> QED
    BY <2>5, <2>6
<1>8. ASSUME NEW k \in Nat, k \in S PROVE k + 1 \in S
  BY <1>7, <1>8
<1>9. n \in S
  <2> HIDE DEF S, n
  <2> QED
    BY <1>1, <1>6, <1>8, SetInduction
<1> QED
  BY <1>1, <1>2, <1>9

\* What is no directory is ignored when it is to be ignored.
LEMMA IgnoredIs ==
  ASSUME repo \in Repos, NEW p, p \notin Dirs
  PROVE  Ignored(p) <=> ToBeIgnored(p)
BY LastRuleDecides DEF Ignored, ToBeIgnored

-----------------------------------------------------------------------------
(* Nesting.                                                                *)

\* What has a prefix passes it on to what is under it; a name that only goes on
\* does not make a directory.
LEMMA PrefixExtends ==
  ASSUME NEW m \in Path, NEW p \in Path, NEW c \in Path, Under(m, p)
  PROVE  /\ HasPrefix(p, c) => HasPrefix(m, c)
         /\ Shadows(c, p) => Shadows(c, m)
<1>1. /\ Len(m) \in Nat /\ Len(p) \in Nat /\ Len(c) \in Nat /\ Len(p) <= Len(m)
      /\ \A i \in 1..Len(p) : m[i] = p[i]
  BY UnderIs, LenProperties DEF Path
<1>2. Under(p, c) => Under(m, c)
  BY UnderOrders
<1> DEFINE n == Len(c)
           Goes(x) == /\ n \in 1..Len(x) /\ Parent(c) = SubSeq(x, 1, n - 1)
                      /\ <<x[n], Last(c)>> \in Longer
<1>3. ASSUME Goes(p) PROVE Goes(m) /\ n \in 1..Len(p)
  <2>1. n \in 1..Len(p) /\ n \in 1..Len(m) /\ p[n] = m[n]
    BY <1>1, <1>3
  <2> DEFINE k == n - 1
  <2>2. k \in 0..Len(p) /\ k \in 0..Len(m) /\ \A i \in 1..k : p[i] = m[i]
    BY <1>1, <2>1
  <2> HIDE DEF k
  <2>3. SubSeq(p, 1, k) = SubSeq(m, 1, k)
    <3>1. /\ SubSeq(p, 1, k) \in Path /\ Len(SubSeq(p, 1, k)) = k
          /\ \A i \in 1..k : SubSeq(p, 1, k)[i] = p[i]
      BY <2>2, FirstNames
    <3>2. /\ SubSeq(m, 1, k) \in Path /\ Len(SubSeq(m, 1, k)) = k
          /\ \A i \in 1..k : SubSeq(m, 1, k)[i] = m[i]
      BY <2>2, FirstNames
    <3> QED
      BY <2>2, <3>1, <3>2, SeqEqual DEF Path
  <2> QED
    BY <1>3, <2>1, <2>3 DEF k
<1>4. ASSUME n \in 1..Len(p), Under(m, c) PROVE Under(p, c)
  BY <1>1, <1>4, UnderIs
<1>5. \A x : HasPrefix(x, c) <=> Under(x, c) \/ Goes(x)
  BY DEF HasPrefix
<1> HIDE DEF Goes
<1> QED
  BY <1>2, <1>3, <1>4, <1>5 DEF Shadows

\* No two places of a sequence hold the same.
Distinct(q) == \A i, j \in DOMAIN q : i # j => q[i] # q[j]

\* One more is put behind a sequence.
LEMMA AppendIs ==
  ASSUME NEW S, NEW q \in Seq(S), NEW x \in S
  PROVE  /\ Append(q, x) \in Seq(S) /\ ToSet(Append(q, x)) = ToSet(q) \cup {x}
         /\ Distinct(q) /\ x \notin ToSet(q) => Distinct(Append(q, x))
<1> DEFINE r == Append(q, x)
           n == Len(q)
<1>1. n \in Nat /\ DOMAIN q = 1..n
  BY LenProperties
<1>2. /\ r \in Seq(S) /\ DOMAIN r = 1..n + 1 /\ r[n + 1] = x
      /\ \A i \in 1..n : r[i] = q[i]
  BY AppendProperties, LenProperties
<1>3. \A i : i \in 1..n + 1 <=> i \in 1..n \/ i = n + 1
  BY <1>1
<1>4. n + 1 \notin 1..n
  BY <1>1
<1> HIDE DEF r, n
<1>5. ToSet(r) = ToSet(q) \cup {x}
  BY <1>1, <1>2, <1>3 DEF ToSet
<1>6. ASSUME Distinct(q), x \notin ToSet(q) PROVE Distinct(r)
  BY <1>1, <1>2, <1>3, <1>6 DEF Distinct, ToSet
<1> QED
  BY <1>2, <1>5, <1>6 DEF r

\* The loop keeps what the candidate does not nest.
LEMMA WithoutIs ==
  ASSUME NEW S, NEW paths \in Seq(S), NEW c
  PROVE  /\ Without(paths, c) \in Seq(S)
         /\ ToSet(Without(paths, c)) = {p \in ToSet(paths) : ~HasPrefix(p, c)}
         /\ Distinct(paths) => Distinct(Without(paths, c))
<1> DEFINE n == Len(paths)
           Run(g) == g = [s \in SUBSET (1..n) |->
                            IF s = {} THEN <<>>
                            ELSE IF HasPrefix(paths[Max(s)], c) THEN g[s \ {Max(s)}]
                                 ELSE Append(g[s \ {Max(s)}], paths[Max(s)])]
           iter == CHOOSE g : Run(g)
           step == [i \in 1..n |-> [kept \in Seq(S) |->
                      IF HasPrefix(paths[i], c) THEN kept ELSE Append(kept, paths[i])]]
           Kept(k) == {paths[i] : i \in {i \in 1..k : ~HasPrefix(paths[i], c)}}
           Right(k) == /\ iter[1..k] \in Seq(S) /\ ToSet(iter[1..k]) = Kept(k)
                       /\ Distinct(paths) => Distinct(iter[1..k])
<1>1. n \in Nat /\ DOMAIN paths = 1..n /\ \A i \in 1..n : paths[i] \in S
  BY LenProperties, ElementOfSeq
<1>2. Without(paths, c) = iter[1..n]
  BY <1>1 DEF Without, FoldLeft, MapThenFoldSet
<1>3. Run(iter)
  <2>1. step \in [1..n -> [Seq(S) -> Seq(S)]]
    BY <1>1, AppendProperties
  <2>2. <<>> \in Seq(S)
    OBVIOUS
  <2>3. PICK g \in [SUBSET (1..n) -> Seq(S)] : Folds(g, n, <<>>, step)
    <3> HIDE DEF step, n
    <3>1. HasFold(n, Seq(S), <<>>, step)
      BY <1>1, <2>1, <2>2, FoldExists
    <3> QED
      BY <3>1 DEF HasFold
  <2>4. Run(g)
    <3>1. ASSUME NEW s \in SUBSET (1..n), s # {}
          PROVE  Max(s) \in 1..n /\ g[s \ {Max(s)}] \in Seq(S)
      <4>1. Max(s) \in s
        BY <1>1, <3>1, MaxIsIn
      <4> QED
        BY <4>1
    <3> QED
      BY <2>3, <3>1 DEF Folds
  <2> HIDE DEF Run
  <2> QED
    BY <2>4
<1> HIDE DEF iter, step
<1>4. iter[1..0] = <<>>
  <2>1. 1..0 = {} /\ {} \in SUBSET (1..n)
    OBVIOUS
  <2> QED
    BY <1>3, <2>1
<1>5. ASSUME NEW k \in Nat, k + 1 <= n
      PROVE  iter[1..(k + 1)] = IF HasPrefix(paths[k + 1], c) THEN iter[1..k]
                                ELSE Append(iter[1..k], paths[k + 1])
  <2> HIDE DEF n
  <2> DEFINE s == 1..(k + 1)
  <2>1. s \in SUBSET (1..n) /\ s # {} /\ Max(s) = k + 1 /\ s \ {k + 1} = 1..k
    BY <1>1, <1>5, FoldStep
  <2> HIDE DEF s
  <2>2. iter[s] = IF s = {} THEN <<>>
                  ELSE IF HasPrefix(paths[Max(s)], c) THEN iter[s \ {Max(s)}]
                       ELSE Append(iter[s \ {Max(s)}], paths[Max(s)])
    BY <1>3, <2>1
  <2> QED
    BY <2>1, <2>2 DEF s
<1> DEFINE R == {k \in Nat : k <= n => Right(k)}
<1> HIDE DEF Run
<1>6. 0 \in R
  <2>1. 1..0 = {} /\ DOMAIN <<>> = {} /\ <<>> \in Seq(S)
    OBVIOUS
  <2>2. Right(0)
    BY <1>4, <2>1 DEF ToSet, Distinct
  <2> QED
    BY <2>2
<1>7. ASSUME NEW k \in Nat, Right(k), k + 1 <= n PROVE Right(k + 1)
  <2>1. /\ k + 1 \in 1..n /\ \A i \in 1..k : i \in 1..n /\ i # k + 1
        /\ \A i : i \in 1..(k + 1) <=> i \in 1..k \/ i = k + 1
    BY <1>7
  <2>2. paths[k + 1] \in S
    BY <1>1, <2>1
  <2> HIDE DEF n
  <2>3. CASE HasPrefix(paths[k + 1], c)
    <3>1. Kept(k + 1) = Kept(k)
      BY <2>1, <2>3
    <3> QED
      BY <1>5, <1>7, <2>3, <3>1
  <2>4. CASE ~HasPrefix(paths[k + 1], c)
    <3>1. Kept(k + 1) = Kept(k) \cup {paths[k + 1]}
      BY <2>1, <2>4
    <3>2. Distinct(paths) => paths[k + 1] \notin Kept(k)
      BY <1>1, <2>1 DEF Distinct
    <3> HIDE DEF Kept
    <3> DEFINE q == iter[1..k]
               x == paths[k + 1]
    <3>3. /\ q \in Seq(S) /\ ToSet(q) = Kept(k)
          /\ Distinct(paths) => Distinct(q)
      BY <1>7
    <3>4. iter[1..(k + 1)] = Append(q, x)
      BY <1>5, <1>7, <2>4
    <3> HIDE DEF q
    <3>5. /\ Append(q, x) \in Seq(S) /\ ToSet(Append(q, x)) = ToSet(q) \cup {x}
          /\ Distinct(q) /\ x \notin ToSet(q) => Distinct(Append(q, x))
      BY <2>2, <3>3, AppendIs
    <3> HIDE DEF x
    <3> QED
      BY <3>1, <3>2, <3>3, <3>4, <3>5 DEF x
  <2> QED
    BY <2>3, <2>4
<1>8. ASSUME NEW k \in Nat, k \in R PROVE k + 1 \in R
  <2>1. k + 1 <= n => k <= n
    BY <1>1
  <2> HIDE DEF Right
  <2> QED
    BY <1>7, <1>8, <2>1
<1>9. n \in R
  <2> HIDE DEF R, n
  <2> QED
    BY <1>1, <1>6, <1>8, SetInduction
<1>10. Right(n)
  <2> HIDE DEF Right
  <2> QED
    BY <1>1, <1>9
<1>11. Kept(n) = {p \in ToSet(paths) : ~HasPrefix(p, c)}
  BY <1>1 DEF ToSet
<1> QED
  BY <1>2, <1>10, <1>11

\* The candidate joins the others or is nested in one of them.
LEMMA UpdateUnnestedIs ==
  ASSUME NEW S, NEW paths \in Seq(S), NEW c \in S
  PROVE  LET r == UpdateUnnested(paths, c)
         IN /\ r \in Seq(S)
            /\ ToSet(r) = IF \E p \in ToSet(paths) : HasPrefix(c, p) THEN ToSet(paths)
                          ELSE {p \in ToSet(paths) : ~HasPrefix(p, c)} \cup {c}
            /\ Distinct(paths) /\ c \notin ToSet(paths) => Distinct(r)
<1> DEFINE nesting == {i \in DOMAIN paths : HasPrefix(c, paths[i])}
           first == CHOOSE i \in nesting : \A j \in nesting : i <= j
           kept == Without(paths, c)
<1>1. UpdateUnnested(paths, c) =
        IF nesting = {} THEN Append(kept, c)
        ELSE IF paths[first] = c THEN Append(paths, c) ELSE paths
  BY DEF UpdateUnnested
<1>2. nesting = {} <=> ~\E p \in ToSet(paths) : HasPrefix(c, p)
  BY DEF ToSet
<1>3. CASE nesting = {}
  <2>1. /\ kept \in Seq(S) /\ ToSet(kept) = {p \in ToSet(paths) : ~HasPrefix(p, c)}
        /\ Distinct(paths) => Distinct(kept)
    BY WithoutIs
  <2> HIDE DEF kept, nesting
  <2>2. /\ Append(kept, c) \in Seq(S) /\ ToSet(Append(kept, c)) = ToSet(kept) \cup {c}
        /\ Distinct(kept) /\ c \notin ToSet(kept) => Distinct(Append(kept, c))
    BY <2>1, AppendIs
  <2> QED
    BY <1>1, <1>2, <1>3, <2>1, <2>2
<1>4. CASE nesting # {}
  <2>1. first \in nesting
    <3>1. nesting \in SUBSET Nat
      BY LenProperties
    <3> HIDE DEF nesting
    <3> QED
      BY <1>4, <3>1, LeastExists
  <2>2. first \in DOMAIN paths
    BY <2>1
  <2> HIDE DEF first, nesting
  <2>3. CASE paths[first] = c
    <3>1. c \in ToSet(paths)
      BY <2>2, <2>3 DEF ToSet
    <3>2. Append(paths, c) \in Seq(S) /\ ToSet(Append(paths, c)) = ToSet(paths) \cup {c}
      BY AppendIs
    <3> QED
      BY <1>1, <1>2, <1>4, <2>3, <3>1, <3>2
  <2>4. CASE paths[first] # c
    BY <1>1, <1>2, <1>4, <2>4
  <2> QED
    BY <2>3, <2>4
<1> QED
  BY <1>3, <1>4

-----------------------------------------------------------------------------
(* The invariant.                                                          *)

\* Modules that have been looked at for nesting.
Found == {mods[i] : i \in 1..nested}

Own(u) == Walk(u, u)

\* Nothing that was found is left out, and nothing is in another one's tree.
NestInv ==
  /\ repo \in Repos
  /\ mods \in Seq(Dirs) /\ nested \in 0..Len(mods) /\ unnested \in Seq(Found)
  /\ pc = "walk" => nested = 0
  /\ pc \in {"pack", "unpack", "failed", "done"} => nested = Len(mods)
  /\ \A u, v \in ToSet(unnested) : u # v => ~HasPrefix(u, v)
  /\ \A m \in Found : Lost(m) \/ \E u \in ToSet(unnested) : Under(m, u)
  /\ Distinct(mods) => Distinct(unnested)

LinkedDirs == {l \in Links : repo.links[l] \in Dirs}
FromLink(l) == Walk(repo.links[l], l)

AllWalks == {Own(u) : u \in ToSet(unnested)} \cup {FromLink(l) : l \in LinkedDirs}

\* What is on its way comes of a walk.
PackInv ==
  /\ pc \in {"walk", "nest", "pack", "unpack", "refused", "failed", "done"}
  /\ walks \in Seq(AllWalks) /\ archive \in Seq({EntriesOf(w) : w \in AllWalks})
  /\ pc \in {"walk", "nest"} => walks = <<>> /\ archive = <<>> /\ tree = <<>>
  /\ pc \in {"pack", "refused"} => tree = <<>>
  /\ pc \in {"unpack", "failed", "done"} => walks = <<>>
  /\ pc = "done" => archive = <<>>

FileAt(p) == p \in DOMAIN tree /\ tree[p].kind = "file"
LinkAt(l) == IsLink(l) /\ tree[l].leadsTo = repo.links[l]

\* A tree has arrived. In the place of a link that leads out of it is what the link leads
\* to, or the link, if another tree has brought that.
OwnArrived(u) ==
  \A p \in Walked(Own(u)) :
    /\ p \in Files => FileAt(p)
    /\ p \in Links /\ StaysLink(Own(u), p) => LinkAt(p)
    /\ p \in Links /\ ~StaysLink(Own(u), p) /\ repo.links[p] \in Files =>
         FileAt(p) \/ (LinkAt(p) /\ FileAt(repo.links[p]))

LinkedArrived(l) ==
  \A f \in Walked(FromLink(l)) \cap Files :
    FileAt(Place(FromLink(l), f)) \/ (LinkAt(l) /\ FileAt(f))

\* Something in the tree of a module; something in a directory that a link leads to, and
\* something that a link leads to, that may have been written through that link.
InOwnTree(q)    == \E u \in ToSet(unnested) : q \in Walked(Own(u))
InLinkedTree(q) == \E l \in LinkedDirs : q \in Walked(FromLink(l))
BehindLink(q)   == q \in Files /\ \E l \in Links : repo.links[l] = q

\* Something in a tree that was packed in the place of a link.
AtLink(q) ==
  \E l \in LinkedDirs :
    /\ ~IsLink(l)
    /\ \E p \in Walked(FromLink(l)) :
         /\ q = Place(FromLink(l), p)
         /\ IsLink(q) => p \in Links /\ StaysLink(FromLink(l), p)

TreeInv ==
  \A q \in DOMAIN tree :
    /\ q \in Files => /\ tree[q].kind = "file"
                      /\ InOwnTree(q) \/ InLinkedTree(q) \/ BehindLink(q)
    /\ IsLink(q) => (q \in Links /\ LinkAt(q)) \/ AtLink(q)

\* Each tree is yet to be packed, in the archive or has arrived; and so are those that
\* its links lead to.
Delivered ==
  \A u \in ToSet(unnested) :
    \/ Own(u) \in ToSet(walks)
    \/ /\ EntriesOf(Own(u)) \in ToSet(archive) \/ OwnArrived(u)
       /\ \A l \in LinkedDirs :
            FromLink(l) \in LinkedTrees(Own(u)) =>
              \/ FromLink(l) \in ToSet(walks)
              \/ EntriesOf(FromLink(l)) \in ToSet(archive)
              \/ LinkedArrived(l)

IInv ==
  /\ NestInv /\ PackInv /\ TreeInv
  /\ pc \in {"pack", "unpack", "done"} => Delivered

\* If no module was called twice, and what is packed in the place of a link has no links
\* again: no link is packed twice, and nothing is where a link is still to come.
LinksOf(entries) == {e.path : e \in {e \in entries : e.kind = "link"}}
Apart(a, b)      == LinksOf(a) \cap LinksOf(b) = {}

Staying(u) == {l \in Walked(Own(u)) \cap Links : StaysLink(Own(u), l)}
Plain      == Distinct(mods) /\ ~LinksBehindLinks

FirstWalks ==
  {Own(u) : u \in ToSet(unnested)} \cup UNION {LinkedTrees(Own(u)) : u \in ToSet(unnested)}

OrderInv ==
  Plain =>
    /\ pc # "failed"
    /\ pc = "pack" =>
         /\ walks \in Seq(FirstWalks)
         /\ \A i, j \in 1..Len(walks) :
              i # j => Apart(EntriesOf(walks[i]), EntriesOf(walks[j]))
         /\ \A i \in 1..Len(archive), j \in 1..Len(walks) :
              Apart(archive[i], EntriesOf(walks[j]))
    /\ pc \in {"pack", "unpack"} =>
         /\ archive \in Seq({EntriesOf(w) : w \in FirstWalks})
         /\ \A i, j \in 1..Len(archive) : i # j => Apart(archive[i], archive[j])
    /\ pc = "unpack" =>
         /\ \A i \in 1..Len(archive) : \A y \in LinksOf(archive[i]) :
              \A q \in DOMAIN tree : ~Under(q, y)
         /\ \A q \in DOMAIN tree : IsLink(q) => \E u \in ToSet(unnested) : q \in Staying(u)

-----------------------------------------------------------------------------
(* What there is in the repository.                                        *)

\* Links lead to something, and are paths as well as what they lead to.
LEMMA RepoIs ==
  ASSUME repo \in Repos
  PROVE  /\ repo.root \in Dirs
         /\ Links \subseteq DOMAIN Targets /\ Links \cap (Dirs \cup Files) = {}
         /\ \A l \in Links : repo.links[l] \in Dirs \cup Files
         /\ Paths \subseteq AllPaths /\ Paths \subseteq Path
         /\ LinkedDirs \subseteq Links
<1>1. repo.root \in Dirs
  BY ArchiveAssumption DEF Repos
<1>2. Links \subseteq DOMAIN Targets /\ LinkedDirs \subseteq Links
  BY DEF Links, LinkedDirs
<1>3. \A l \in DOMAIN Targets : repo.links[l] \in Targets[l] \cup {Missing}
  BY DEF Repos
<1>4. \A l \in Links : repo.links[l] \in Dirs \cup Files
  BY <1>3, ArchiveAssumption DEF Links
<1>5. Paths \subseteq AllPaths
  BY <1>2 DEF Paths, AllPaths
<1> QED
  BY <1>1, <1>2, <1>4, <1>5, AllArePaths DEF AllPaths

\* What is in no tree but that of a module.
LEMMA FoundAreModules ==
  ASSUME NestInv
  PROVE  /\ Found \subseteq Modules /\ Modules \subseteq Dirs
         /\ ToSet(unnested) \subseteq Found
         /\ nested = Len(mods) => Found = Modules
         /\ Len(mods) \in Nat /\ DOMAIN mods = 1..Len(mods)
<1>1. Len(mods) \in Nat /\ DOMAIN mods = 1..Len(mods) /\ \A i \in 1..Len(mods) : mods[i] \in Dirs
  BY LenProperties, ElementOfSeq DEF NestInv
<1>2. nested \in Nat /\ 1..nested \subseteq 1..Len(mods)
  <2>1. nested \in 0..Len(mods)
    BY DEF NestInv
  <2> QED
    BY <1>1, <2>1
<1>3. ToSet(unnested) \subseteq Found
  <2>1. unnested \in Seq(Found)
    BY DEF NestInv
  <2> HIDE DEF Found
  <2> QED
    BY <2>1, LenProperties, ElementOfSeq DEF ToSet
<1> QED
  BY <1>1, <1>2, <1>3 DEF Found, Modules, ToSet

-----------------------------------------------------------------------------
(* Finding modules.                                                        *)

LEMMA NestInit ==
  ASSUME Init
  PROVE  NestInv
<1>1. /\ repo \in Repos /\ mods = <<repo.root>> /\ nested = 0 /\ unnested = <<>> /\ pc = "walk"
  BY DEF Init
<1>2. repo.root \in Dirs
  BY <1>1, RepoIs
<1>3. Found = {} /\ ToSet(unnested) = {} /\ unnested \in Seq(Found) /\ Distinct(unnested)
  <2>1. 1..0 = {} /\ DOMAIN <<>> = {} /\ \A S : <<>> \in Seq(S)
    OBVIOUS
  <2> QED
    BY <1>1, <2>1 DEF Found, ToSet, Distinct
<1>4. mods \in Seq(Dirs) /\ nested \in 0..Len(mods)
  BY <1>1, <1>2
<1> QED
  BY <1>1, <1>3, <1>4 DEF NestInv

\* One candidate more.
LEMMA NestStep ==
  ASSUME NestInv, RemoveNestedPath
  PROVE  NestInv'
<1> DEFINE c == mods[nested + 1]
           U == ToSet(unnested)
           V == ToSet(unnested')
<1>1. /\ pc = "nest" /\ nested < Len(mods) /\ nested' = nested + 1
      /\ unnested' = UpdateUnnested(unnested, c)
      /\ repo' = repo /\ pc' = pc /\ mods' = mods
  BY DEF RemoveNestedPath
<1>2. /\ Found \subseteq Modules /\ Modules \subseteq Dirs /\ U \subseteq Found
      /\ Len(mods) \in Nat /\ nested \in 0..Len(mods)
      /\ DOMAIN mods = 1..Len(mods) /\ repo \in Repos /\ mods \in Seq(Dirs)
  BY FoundAreModules DEF NestInv
<1>3. nested' \in 0..Len(mods') /\ Found' = Found \cup {c} /\ c \in Modules
  <2>1. \A i : i \in 1..nested + 1 <=> i \in 1..nested \/ i = nested + 1
    BY <1>2
  <2>2. nested + 1 \in 1..Len(mods)
    BY <1>1, <1>2
  <2> QED
    BY <1>1, <1>2, <2>1, <2>2 DEF Found, Modules, ToSet
<1>4. /\ unnested' \in Seq(Found')
      /\ V = IF \E p \in U : HasPrefix(c, p) THEN U
             ELSE {p \in U : ~HasPrefix(p, c)} \cup {c}
      /\ Distinct(unnested) /\ c \notin U => Distinct(unnested')
  <2>1. unnested \in Seq(Found')
    <3>1. unnested \in Seq(Found) /\ Found \subseteq Found'
      BY <1>3 DEF NestInv
    <3> QED
      BY <3>1, SeqMonotonic
  <2>2. c \in Found'
    BY <1>3
  <2> DEFINE F == Found'
             next == UpdateUnnested(unnested, c)
  <2>3. unnested \in Seq(F) /\ c \in F
    BY <2>1, <2>2
  <2> HIDE DEF F, c
  <2>4. /\ next \in Seq(F)
        /\ ToSet(next) = IF \E p \in U : HasPrefix(c, p) THEN U
                         ELSE {p \in U : ~HasPrefix(p, c)} \cup {c}
        /\ Distinct(unnested) /\ c \notin U => Distinct(next)
    BY <2>3, UpdateUnnestedIs
  <2>5. unnested' = next
    BY <1>1
  <2> HIDE DEF next
  <2> QED
    BY <2>4, <2>5 DEF F
<1> HIDE DEF c, U, V
<1>5. \A u, v \in V : u # v => ~HasPrefix(u, v)
  <2>1. \A u, v \in U : u # v => ~HasPrefix(u, v)
    BY DEF NestInv, U
  <2> QED
    BY <1>4, <2>1
<1>6. ASSUME NEW m \in Found' PROVE Lost(m)' \/ \E v \in V : Under(m, v)
  <2>1. Lost(m)' <=> Lost(m)
    BY <1>1 DEF Lost, Modules
  <2>2. /\ m \in Path /\ c \in Path /\ U \subseteq Path
        /\ m \in Found \/ m = c
    BY <1>2, <1>3, AllArePaths DEF AllPaths
  <2>3. CASE \E p \in U : HasPrefix(c, p)
    <3>1. PICK p \in U : HasPrefix(c, p)
      BY <2>3
    <3>2. Lost(c) \/ Under(c, p)
      BY <1>2, <3>1 DEF Lost, Shadows
    <3>3. V = U
      BY <1>4, <2>3
    <3> QED
      BY <2>1, <2>2, <3>1, <3>2, <3>3 DEF NestInv, U
  <2>4. CASE ~\E p \in U : HasPrefix(c, p)
    <3>1. V = {p \in U : ~HasPrefix(p, c)} \cup {c}
      BY <1>4, <2>4
    <3>2. CASE m = c
      BY <2>2, <3>1, <3>2, UnderOrders
    <3>3. CASE m \in Found /\ ~Lost(m)
      <4>1. PICK u \in U : Under(m, u)
        BY <3>3 DEF NestInv, U
      <4>2. CASE ~HasPrefix(u, c)
        BY <3>1, <4>1, <4>2
      <4>3. CASE HasPrefix(u, c)
        <5>1. CASE Under(u, c)
          BY <2>2, <3>1, <4>1, <5>1, UnderOrders
        <5>2. CASE ~Under(u, c)
          <6>1. Shadows(c, m)
            BY <2>2, <4>1, <4>3, <5>2, PrefixExtends DEF Shadows
          <6> QED
            BY <1>3, <3>3, <6>1 DEF Lost
        <5> QED
          BY <5>1, <5>2
      <4> QED
        BY <4>2, <4>3
    <3> QED
      BY <2>1, <2>2, <3>2, <3>3
  <2> QED
    BY <2>3, <2>4
<1>7. ASSUME Distinct(mods) PROVE Distinct(unnested')
  <2>1. c \notin Found
    BY <1>1, <1>2, <1>7 DEF Distinct, Found, c
  <2> QED
    BY <1>2, <1>4, <1>7, <2>1 DEF NestInv
<1> QED
  BY <1>1, <1>2, <1>3, <1>4, <1>5, <1>6, <1>7 DEF NestInv, V

\* The other steps.
LEMMA NestNext ==
  ASSUME NestInv, [Next]_vars
  PROVE  NestInv'
<1>1. CASE FindModule
  <2>1. nested = 0 /\ UNCHANGED <<repo, nested, unnested>>
    BY <1>1 DEF FindModule, NestInv
  <2>2. Found = {} /\ Found' = {}
    <3>1. 1..0 = {}
      OBVIOUS
    <3> QED
      BY <2>1, <3>1 DEF Found
  <2>3. /\ ToSet(unnested) = {} /\ Distinct(unnested) /\ unnested \in Seq(Found')
        /\ ToSet(unnested)' = {} /\ Distinct(unnested')
    <3>1. unnested \in Seq({})
      BY <2>2 DEF NestInv
    <3>2. DOMAIN unnested = 1..Len(unnested) /\ \A i \in 1..Len(unnested) : unnested[i] \in {}
      BY <3>1, LenProperties, ElementOfSeq
    <3>3. DOMAIN unnested = {}
      BY <3>2
    <3> QED
      BY <2>1, <2>2, <3>1, <3>3 DEF ToSet, Distinct
  <2>4. mods' \in Seq(Dirs) /\ nested' \in 0..Len(mods')
    <3>1. mods' = mods \/ \E m \in Dirs : mods' = Append(mods, m)
      BY <1>1 DEF FindModule
    <3>2. mods' \in Seq(Dirs)
      BY <3>1, AppendProperties DEF NestInv
    <3>3. Len(mods') \in Nat
      BY <3>2, LenProperties
    <3> QED
      BY <2>1, <3>2, <3>3
  <2>5. pc' \in {"walk", "refused"}
    BY <1>1 DEF FindModule
  <2> QED
    BY <2>1, <2>2, <2>3, <2>4, <2>5 DEF NestInv
<1>2. CASE RemoveNestedPath
  BY <1>2, NestStep
<1>3. ASSUME /\ UNCHANGED <<repo, mods, nested, unnested>>
             /\ pc' = pc \/ pc' \in {"nest", "refused"} \/ nested = Len(mods)
             /\ pc' = "walk" => pc = "walk"
      PROVE  NestInv'
  <2>1. /\ Found' = Found /\ ToSet(unnested)' = ToSet(unnested)
        /\ \A m : Lost(m)' <=> Lost(m)
        /\ Distinct(mods)' <=> Distinct(mods)
        /\ Distinct(unnested)' <=> Distinct(unnested)
    BY <1>3 DEF Found, ToSet, Lost, Modules, Distinct
  <2> QED
    BY <1>3, <2>1 DEF NestInv
<1>4. CASE LeaveModule
  BY <1>3, <1>4 DEF LeaveModule
<1>5. CASE StartPack
  BY <1>3, <1>5 DEF StartPack, finding
<1>6. CASE Pack
  BY <1>3, <1>6 DEF Pack, finding, NestInv
<1>7. CASE FinishPack
  BY <1>3, <1>7 DEF FinishPack, finding, NestInv
<1>8. CASE Unpack
  BY <1>3, <1>8 DEF Unpack, finding, NestInv
<1>9. CASE FinishUnpack
  BY <1>3, <1>9 DEF FinishUnpack, finding, NestInv
<1>10. CASE UNCHANGED vars
  BY <1>3, <1>10 DEF vars
<1> QED
  BY <1>1, <1>2, <1>4, <1>5, <1>6, <1>7, <1>8, <1>9, <1>10 DEF Next

-----------------------------------------------------------------------------
(* Trees.                                                                  *)

\* A finite set is listed whole.
LEMMA ListingIs ==
  ASSUME NEW S, IsFiniteSet(S)
  PROVE  SetToSeq(S) \in Seq(S) /\ ToSet(SetToSeq(S)) = S
<1> DEFINE D == 1..Cardinality(S)
           f == SetToSeq(S)
<1>1. Cardinality(S) \in Nat /\ ExistsBijection(D, S)
  BY FS_CardinalityType
<1>2. IsFiniteSet(D) /\ Cardinality(D) = Cardinality(S)
  BY <1>1, FS_Interval
<1>3. f \in [D -> S] /\ IsInjective(f)
  <2>1. \E g : g \in [D -> S] /\ IsInjective(g)
    BY <1>1 DEF ExistsBijection, Bijection, Injection
  <2> QED
    BY <2>1 DEF SetToSeq
<1> HIDE DEF f
<1>4. f \in Seq(S)
  BY <1>1, <1>3
<1>5. f \in Injection(D, S)
  BY <1>3 DEF Injection
<1>6. f \in Surjection(D, S)
  BY <1>2, <1>5, FS_Injection
<1>7. ToSet(f) = S
  BY <1>3, <1>6 DEF Surjection, ToSet
<1> QED
  BY <1>4, <1>7 DEF f

\* Links are among what is walked.
LEMMA WalkedLinks ==
  ASSUME NEW w
  PROVE  LinkedTrees(w) =
           {Walk(repo.links[l], l) :
              l \in {l \in Walked(w) \cap Links : ~StaysLink(w, l) /\ repo.links[l] \in Dirs}}
<1>1. \A l : l \in Walked(w) \cap Links <=> l \in Links /\ InTree(w, l)
  BY DEF Walked, Paths
<1> QED
  BY <1>1 DEF LinkedTrees

\* The trees that the links of a tree lead to.
LEMMA LinkedTreesAre ==
  ASSUME repo \in Repos, NEW w
  PROVE  /\ LinkedTrees(w) \subseteq {FromLink(l) : l \in LinkedDirs}
         /\ IsFiniteSet(LinkedTrees(w))
<1> DEFINE L == {l \in Walked(w) \cap Links : ~StaysLink(w, l) /\ repo.links[l] \in Dirs}
           f == [l \in L |-> FromLink(l)]
<1>1. LinkedTrees(w) = {FromLink(l) : l \in L} /\ L \subseteq LinkedDirs
  BY WalkedLinks DEF FromLink, LinkedDirs
<1>2. IsFiniteSet(L)
  <2>1. L \in SUBSET DOMAIN Targets /\ IsFiniteSet(DOMAIN Targets)
    BY ArchiveAssumption DEF Links
  <2> QED
    BY <2>1, FS_Subset
<1>3. f \in Surjection(L, LinkedTrees(w))
  BY <1>1 DEF Surjection
<1>4. IsFiniteSet(LinkedTrees(w))
  BY <1>2, <1>3, FS_Surjection
<1> QED
  BY <1>1, <1>4

\* What is packed depends on the repository alone.
LEMMA SamePacking ==
  ASSUME repo' = repo
  PROVE  /\ Links' = Links /\ Paths' = Paths /\ LinkedDirs' = LinkedDirs
         /\ \A l : FromLink(l)' = FromLink(l)
         /\ \A w, l : StaysLink(w, l)' <=> StaysLink(w, l)
         /\ \A w : Walked(w)' = Walked(w)
         /\ \A w : LinkedTrees(w)' = LinkedTrees(w)
         /\ \A w : EntriesOf(w)' = EntriesOf(w)
<1>1. /\ Links' = Links /\ Paths' = Paths /\ LinkedDirs' = LinkedDirs
      /\ \A l : FromLink(l)' = FromLink(l)
      /\ \A w, l : StaysLink(w, l)' <=> StaysLink(w, l)
  BY DEF Links, Paths, LinkedDirs, FromLink, StaysLink
<1>2. ASSUME NEW names PROVE MatchIgnoreRule(names)' = MatchIgnoreRule(names)
  BY DEF MatchIgnoreRule, Rules, FoldLeft, MapThenFoldSet
<1>3. \A p : Ignored(p)' = Ignored(p)
  BY <1>2 DEF Ignored
<1>4. ASSUME NEW w PROVE Walked(w)' = Walked(w)
  BY <1>1, <1>3 DEF Walked, InTree
<1>5. ASSUME NEW w PROVE LinkedTrees(w)' = LinkedTrees(w)
  <2>1. Links' = Links /\ \A l : StaysLink(w, l)' = StaysLink(w, l)
    BY <1>1 DEF StaysLink
  <2>2. \A p : InTree(w, p)' = InTree(w, p)
    BY <1>3 DEF InTree
  <2> QED
    BY <1>1, <2>1, <2>2 DEF LinkedTrees
<1>6. ASSUME NEW w PROVE EntriesOf(w)' = EntriesOf(w)
  <2>1. \A p : Entry(w, p)' = Entry(w, p)
    BY <1>1 DEF Entry, LinkName
  <2> QED
    BY <1>1, <1>4, <2>1 DEF EntriesOf
<1> QED
  BY <1>1, <1>4, <1>5, <1>6

LEMMA PackInit ==
  ASSUME Init
  PROVE  PackInv
<1>1. \A S : <<>> \in Seq(S)
  OBVIOUS
<1> QED
  BY <1>1 DEF Init, PackInv

LEMMA PackNext ==
  ASSUME NestInv, PackInv, [Next]_vars
  PROVE  PackInv'
<1> DEFINE Archives == {EntriesOf(w) : w \in AllWalks}
<1>0. \A S : <<>> \in Seq(S)
  OBVIOUS
<1>1. /\ walks \in Seq(AllWalks) /\ archive \in Seq(Archives)
      /\ repo \in Repos /\ repo' = repo
  BY DEF PackInv, NestInv, Next, FindModule, LeaveModule, RemoveNestedPath, StartPack, Pack,
         FinishPack, Unpack, FinishUnpack, vars
<1>2. ASSUME unnested' = unnested
      PROVE  AllWalks' = AllWalks /\ Archives' = Archives
  <2>1. AllWalks' = AllWalks
    BY <1>1, <1>2, SamePacking DEF AllWalks, Own
  <2> QED
    BY <1>1, <2>1, SamePacking
<1>3. ASSUME UNCHANGED <<walks, archive, tree>>,
             UNCHANGED unnested \/ pc \in {"walk", "nest"},
             pc' = pc \/ (pc = "walk" /\ pc' \in {"nest", "refused"})
      PROVE  PackInv'
  <2>1. walks' \in Seq(AllWalks') /\ archive' \in Seq(Archives')
    <3>1. CASE unnested' = unnested
      BY <1>1, <1>2, <1>3, <3>1
    <3>2. CASE pc \in {"walk", "nest"}
      <4>1. walks' = <<>> /\ archive' = <<>>
        BY <1>3, <3>2 DEF PackInv
      <4> QED
        BY <1>0, <4>1
    <3> QED
      BY <1>3, <3>1, <3>2
  <2> QED
    BY <1>3, <2>1 DEF PackInv
<1>4. CASE FindModule
  BY <1>3, <1>4 DEF FindModule, packing
<1>5. CASE LeaveModule
  BY <1>3, <1>5 DEF LeaveModule, packing
<1>6. CASE RemoveNestedPath
  BY <1>3, <1>6 DEF RemoveNestedPath, packing
<1>7. CASE StartPack
  <2>1. /\ pc = "nest" /\ pc' = "pack" /\ UNCHANGED <<unnested, archive, tree>>
        /\ walks' = [i \in DOMAIN unnested |-> Own(unnested[i])]
    BY <1>7 DEF StartPack, finding, Own
  <2>2. /\ Len(unnested) \in Nat /\ DOMAIN unnested = 1..Len(unnested)
    BY LenProperties DEF NestInv
  <2>3. \A i \in 1..Len(unnested) : walks'[i] = Own(unnested[i]) /\ walks'[i] \in AllWalks
    BY <2>1, <2>2 DEF AllWalks, ToSet
  <2>4. walks' \in Seq(AllWalks)
    <3> DEFINE n == Len(unnested)
               f == walks'
    <3>1. n \in Nat /\ f = [i \in 1..n |-> f[i]] /\ \A i \in 1..n : f[i] \in AllWalks
      BY <2>1, <2>2, <2>3
    <3> HIDE DEF n, f
    <3>2. f \in Seq(AllWalks)
      BY <3>1, IsASeqOf
    <3> QED
      BY <3>2 DEF f
  <2> QED
    BY <1>1, <1>2, <2>1, <2>4 DEF PackInv
<1>8. CASE Pack
  <2> DEFINE w == Head(walks)
  <2>1. /\ pc = "pack" /\ walks # <<>> /\ archive' = Append(archive, EntriesOf(w))
        /\ walks' = SetToSeq(LinkedTrees(w)) \o Tail(walks)
        /\ pc' \in {"pack", "refused"} /\ UNCHANGED <<unnested, tree>>
    BY <1>8 DEF Pack, finding
  <2>2. w \in AllWalks /\ Tail(walks) \in Seq(AllWalks)
    BY <1>1, <2>1, HeadTailProperties
  <2>3. SetToSeq(LinkedTrees(w)) \in Seq(AllWalks)
    <3>1. LinkedTrees(w) \subseteq AllWalks /\ SetToSeq(LinkedTrees(w)) \in Seq(LinkedTrees(w))
      BY <1>1, LinkedTreesAre, ListingIs DEF AllWalks
    <3> QED
      BY <3>1, SeqMonotonic
  <2>4. walks' \in Seq(AllWalks)
    BY <2>1, <2>2, <2>3, ConcatProperties
  <2>5. archive' \in Seq(Archives)
    <3>1. EntriesOf(w) \in Archives
      BY <2>2
    <3> HIDE DEF Archives
    <3> QED
      BY <1>1, <2>1, <3>1, AppendProperties
  <2> QED
    BY <1>2, <2>1, <2>4, <2>5 DEF PackInv
<1>9. CASE FinishPack
  <2>1. /\ pc = "pack" /\ pc' = "unpack" /\ walks = <<>>
        /\ UNCHANGED <<unnested, walks, archive, tree>>
    BY <1>9 DEF FinishPack, finding, packing
  <2> QED
    BY <1>1, <1>2, <2>1 DEF PackInv
<1>10. CASE Unpack
  <2>1. /\ pc = "unpack" /\ pc' \in {"unpack", "failed"} /\ archive # <<>>
        /\ archive' = Tail(archive) /\ UNCHANGED <<unnested, walks>>
    BY <1>10 DEF Unpack, finding
  <2>2. archive' \in Seq(Archives)
    <3> HIDE DEF Archives
    <3> QED
      BY <1>1, <2>1, HeadTailProperties
  <2> QED
    BY <1>1, <1>2, <2>1, <2>2 DEF PackInv
<1>11. CASE FinishUnpack
  <2>1. /\ pc = "unpack" /\ pc' = "done" /\ archive = <<>>
        /\ UNCHANGED <<unnested, walks, archive, tree>>
    BY <1>11 DEF FinishUnpack, finding, packing
  <2> QED
    BY <1>1, <1>2, <2>1 DEF PackInv
<1>12. CASE UNCHANGED vars
  BY <1>3, <1>12 DEF vars
<1> QED
  BY <1>4, <1>5, <1>6, <1>7, <1>8, <1>9, <1>10, <1>11, <1>12 DEF Next

-----------------------------------------------------------------------------
(* Where what is packed belongs.                                           *)

\* What is packed from the tree of a module has the path that it has on the disk.
LEMMA OwnWalked ==
  ASSUME NestInv, NEW u \in ToSet(unnested)
  PROVE  /\ u \in Modules /\ u \in Path /\ Paths \subseteq Path
         /\ \A p \in Paths : Under(p, u) => Place(Own(u), p) = p
         /\ \A p : p \in Walked(Own(u)) <=>
              p \in Paths /\ Under(p, u) /\ ~Ignored(p) /\ p # Base
<1>1. u \in Modules /\ u \in Path /\ Paths \subseteq Path
  BY FoundAreModules, AllArePaths, RepoIs DEF NestInv, AllPaths
<1>2. Own(u).src = u /\ Own(u).dst = u
  BY DEF Own, Walk
<1>3. ASSUME NEW p \in Paths, Under(p, u) PROVE Place(Own(u), p) = p
  BY <1>1, <1>2, <1>3, Moved DEF Place
<1> QED
  BY <1>1, <1>2, <1>3 DEF Walked, InTree

\* What is packed from a directory that a link leads to is under the link.
LEMMA LinkedWalked ==
  ASSUME NestInv, NEW l \in LinkedDirs, NEW p \in Walked(FromLink(l))
  PROVE  LET dir == repo.links[l]
             x   == Place(FromLink(l), p)
         IN /\ l \in Links /\ l \in Path /\ dir \in Dirs /\ dir \in Path
            /\ p \in Path /\ x \in Path
            /\ p \in Paths /\ Under(p, dir) /\ ~Ignored(p)
            /\ x = l \o Rest(p, dir) /\ Under(x, l) /\ (x = l <=> p = dir)
            /\ dir \o Rest(x, l) = p
<1> DEFINE dir == repo.links[l]
           x == Place(FromLink(l), p)
<1>1. /\ l \in Links /\ l \in Path /\ dir \in Dirs /\ dir \in Path /\ Paths \subseteq Path
  BY RepoIs, AllArePaths DEF NestInv, LinkedDirs, Paths, AllPaths
<1>2. FromLink(l).src = dir /\ FromLink(l).dst = l
  BY DEF FromLink, Walk
<1>3. p \in Paths /\ Under(p, dir) /\ ~Ignored(p) /\ x = l \o Rest(p, dir)
  BY <1>2 DEF Walked, InTree, Place
<1>4. x \in Path
  <2>1. p \in Path /\ Under(p, dir)
    BY <1>1, <1>3
  <2> HIDE DEF dir
  <2>2. l \o Rest(p, dir) \in Path
    BY <1>1, <2>1, RestIs DEF IsMoved
  <2> QED
    BY <1>3, <2>2
<1>5. Under(x, l) /\ (x = l <=> p = dir) /\ dir \o Rest(x, l) = p
  <2> HIDE DEF x, dir
  <2>1. p \in Path /\ Under(p, dir) /\ dir \in Path /\ l \in Path
    BY <1>1, <1>3
  <2>2. /\ Under(l \o Rest(p, dir), l) /\ (l \o Rest(p, dir) = l <=> p = dir)
        /\ dir \o Rest(l \o Rest(p, dir), l) = p
    BY <2>1, Moved
  <2> QED
    BY <1>3, <2>2
<1> QED
  BY <1>1, <1>3, <1>4, <1>5

\* There is nothing under a link but in the tree that is packed in its place.
LEMMA OnlyTheLink ==
  ASSUME NestInv, NEW l \in Links, NEW p \in AllPaths, Under(p, l)
  PROVE  p = l
BY NothingUnder, RepoIs DEF NestInv, AllPaths

LEMMA OneTree ==
  ASSUME NestInv, NEW u \in ToSet(unnested), NEW v \in ToSet(unnested),
         NEW p \in Path, Under(p, u), Under(p, v)
  PROVE  u = v
<1>1. u \in Path /\ v \in Path
  BY OwnWalked
<1>2. Under(u, v) \/ Under(v, u)
  BY <1>1, UnderOrders
<1> QED
  BY <1>2 DEF NestInv, HasPrefix

\* What two paths begin with both.
LEMMA CommonIs ==
  ASSUME NEW p \in Path, NEW q \in Path
  PROVE  LET c == LongestCommonPrefix({p, q})
         IN c \in Path /\ Under(p, c) /\ Under(q, c)
<1> DEFINE C == CommonPrefixes({p, q})
           s == {n \in 1..Len(p) + 1 : SubSeq(p, 1, n - 1) \in C}
           m == Max(s)
           c == SubSeq(p, 1, m - 1)
<1>1. Len(p) \in Nat /\ Len(q) \in Nat
  BY LenProperties DEF Path
<1>2. ASSUME NEW x \in C
      PROVE  /\ x \in Path /\ Under(p, x) /\ Under(q, x)
             /\ Len(x) \in 0..Len(p) /\ x = SubSeq(p, 1, Len(x))
  <2>1. \E t \in {p, q} : \E n \in 0..Len(t) : x = SubSeq(t, 1, n)
    BY DEF CommonPrefixes, Prefixes
  <2>2. x \in Path
    BY <2>1, FirstNames
  <2>3. Under(p, x) /\ Under(q, x)
    BY DEF CommonPrefixes, Under
  <2>4. Len(x) \in Nat /\ Len(x) <= Len(p)
    BY <2>2, <2>3, UnderIs, LenProperties DEF Path
  <2>5. SubSeq(x, 1, Len(x)) = x
    BY <2>2, SubSeqFull DEF Path
  <2>6. x = SubSeq(p, 1, Len(x))
    BY <2>3, <2>5 DEF Under, IsPrefix
  <2> QED
    BY <1>1, <2>2, <2>3, <2>4, <2>6
<1>3. 1 \in s
  <2> DEFINE e == SubSeq(p, 1, 0)
  <2>1. e \in Path /\ Len(e) = 0
    BY <1>1, FirstNames
  <2>2. e \in Prefixes(p)
    BY <1>1 DEF Prefixes
  <2> HIDE DEF e
  <2>3. \A t \in {p, q} : IsPrefix(e, t)
    BY <2>1, UnderIs DEF Under
  <2>4. e \in C
    BY <2>2, <2>3 DEF CommonPrefixes
  <2>5. 1 \in 1..Len(p) + 1 /\ 1 - 1 = 0
    BY <1>1
  <2> QED
    BY <2>4, <2>5 DEF e
<1> HIDE DEF C
<1>4. /\ m \in 1..Len(p) + 1 /\ c \in C
      /\ \A n \in s : n <= m
  <2>1. Len(p) + 1 \in Nat
    BY <1>1
  <2>2. s \in SUBSET (1..Len(p) + 1) /\ s # {}
    BY <1>3
  <2>3. m \in s /\ \A n \in s : n <= m
    <3> HIDE DEF s
    <3> QED
      BY <2>1, <2>2, MaxIsIn
  <2> HIDE DEF m
  <2> QED
    BY <2>3
<1> HIDE DEF m
<1>5. Len(c) = m - 1
  BY <1>1, <1>4, FirstNames
<1>6. ASSUME NEW x \in C PROVE Len(x) <= Len(c)
  <2>1. Len(x) \in 0..Len(p) /\ x = SubSeq(p, 1, Len(x))
    BY <1>2
  <2> DEFINE k == Len(x) + 1
  <2>2. k \in 1..Len(p) + 1 /\ k - 1 = Len(x)
    BY <1>1, <2>1
  <2>3. SubSeq(p, 1, k - 1) \in C
    BY <2>1, <2>2
  <2> HIDE DEF k
  <2>4. k \in s
    BY <2>2, <2>3
  <2>5. k <= m
    BY <1>4, <2>4
  <2> QED
    BY <1>1, <1>4, <1>5, <2>1, <2>5 DEF k
<1> HIDE DEF c, s
<1>7. LongestCommonPrefix({p, q}) \in C
  BY <1>4, <1>6 DEF LongestCommonPrefix, C
<1> QED
  BY <1>2, <1>7

\* A link that is unpacked where it was on the disk leads to what it led to.
LEMMA LeadsThere ==
  ASSUME NestInv, NEW l \in Links, NEW e, e.kind = "link", e.name = LinkName(l)
  PROVE  Written(e, l).kind = "link" /\ Written(e, l).leadsTo = repo.links[l]
<1> DEFINE target == repo.links[l]
           common == LongestCommonPrefix({l, target})
<1>1. /\ target \in Path /\ l \in Path
      /\ Len(l) \in Nat /\ Len(target) \in Nat
  BY RepoIs, AllArePaths, LenProperties DEF NestInv, Paths, AllPaths, Path
<1>2. e.name.up = Len(l) - Len(common) /\ e.name.down = Rest(target, common)
  BY DEF LinkName
<1> HIDE DEF target
<1>3. common \in Path /\ Under(l, common) /\ Under(target, common)
  BY <1>1, CommonIs
<1> HIDE DEF common
<1>4. Len(common) \in Nat
  BY <1>3, LenProperties DEF Path
<1>5. SubSeq(l, 1, Len(common)) = common
  BY <1>3, SubSeqFull DEF Under, IsPrefix, Path
<1>6. common \o Rest(target, common) = target
  BY <1>1, <1>3, Moved
<1>7. Len(l) - e.name.up = Len(common)
  BY <1>1, <1>2, <1>4
<1>8. Written(e, l).leadsTo = target
  BY <1>2, <1>5, <1>6, <1>7 DEF Written
<1> QED
  BY <1>8 DEF Written, target

-----------------------------------------------------------------------------
(* Links in what has been unpacked.                                        *)

\* A link is where it is on the disk, or in a tree that was packed in the place of one.
LEMMA LinkIs ==
  ASSUME NestInv, TreeInv, NEW y, IsLink(y)
  PROVE  \/ y \in Links /\ LinkAt(y)
         \/ \E l \in LinkedDirs : ~IsLink(l) /\ \E p \in Walked(FromLink(l)) \cap Links :
              StaysLink(FromLink(l), p) /\ y = Place(FromLink(l), p)
BY DEF TreeInv, AtLink, IsLink

\* On the disk nothing is under a link, and what is packed in the place of a link
\* is under no other.
LEMMA AboveOwn ==
  ASSUME NestInv, TreeInv, NEW p \in AllPaths
  PROVE  Above(p) = {}
<1>1. SUFFICES ASSUME NEW y, IsLink(y), Under(p, y), p # y
               PROVE  FALSE
  BY DEF Above
<1>2. p \in Path /\ Links \subseteq Path
  BY AllArePaths, RepoIs DEF NestInv, Paths
<1>3. CASE y \in Links
  BY <1>1, <1>3, OnlyTheLink
<1>4. CASE y \notin Links
  <2>1. PICK l \in LinkedDirs : \E k \in Walked(FromLink(l)) : y = Place(FromLink(l), k)
    BY <1>1, <1>4, LinkIs
  <2>2. l \in Links /\ y \in Path /\ Under(y, l)
    BY <2>1, LinkedWalked
  <2>3. Under(p, l)
    BY <1>1, <1>2, <2>2, UnderOrders
  <2>4. p = l
    BY <2>2, <2>3, OnlyTheLink
  <2> QED
    BY <1>1, <1>2, <2>2, <2>4, UnderOrders
<1> QED
  BY <1>3, <1>4

LEMMA AboveLinked ==
  ASSUME NestInv, TreeInv, NEW l \in LinkedDirs, NEW p \in Walked(FromLink(l))
  PROVE  Above(Place(FromLink(l), p)) =
           IF IsLink(l) /\ p # repo.links[l] THEN {l} ELSE {}
<1> DEFINE x == Place(FromLink(l), p)
<1>1. /\ l \in Links /\ l \in Path /\ x \in Path /\ Under(x, l)
      /\ (x = l <=> p = repo.links[l])
  BY LinkedWalked
<1>2. Links \subseteq Path /\ Links \subseteq AllPaths
  BY AllArePaths, RepoIs DEF NestInv, Paths
<1>3. ASSUME NEW y, IsLink(y), Under(x, y), x # y
      PROVE  y = l
  <2>1. ASSUME NEW k \in Links, Under(x, k) PROVE k = l
    <3>1. Under(k, l) \/ Under(l, k)
      BY <1>1, <1>2, <2>1, UnderOrders
    <3> QED
      BY <1>1, <1>2, <3>1, OnlyTheLink
  <2>2. CASE y \in Links
    BY <1>3, <2>1, <2>2
  <2>3. CASE y \notin Links
    <3>0. PICK k \in LinkedDirs :
            \E q \in Walked(FromLink(k)) \cap Links : y = Place(FromLink(k), q)
      BY <1>3, <2>3, LinkIs
    <3>1. PICK q \in Walked(FromLink(k)) \cap Links : y = Place(FromLink(k), q)
      BY <3>0
    <3>2. k \in Links /\ y \in Path /\ Under(y, k)
      BY <3>1, LinkedWalked
    <3>3. Under(x, k)
      BY <1>1, <1>2, <1>3, <3>2, UnderOrders
    <3>4. k = l
      BY <2>1, <3>2, <3>3
    <3> DEFINE dir == repo.links[l]
    <3>5. /\ dir \in Path /\ p \in Path /\ q \in Path /\ Under(p, dir) /\ Under(q, dir)
          /\ x = l \o Rest(p, dir) /\ y = l \o Rest(q, dir) /\ p \in Paths
      BY <3>1, <3>4, LinkedWalked
    <3>6. Under(p, q)
      <4> HIDE DEF dir, x
      <4> QED
        BY <1>1, <1>3, <3>5, Moved
    <3>7. p = q
      BY <3>1, <3>5, <3>6, OnlyTheLink, RepoIs DEF NestInv
    <3> QED
      BY <1>3, <3>5, <3>7
  <2> QED
    BY <2>2, <2>3
<1>4. \A y : y \in Above(x) <=> IsLink(y) /\ Under(x, y) /\ x # y
  BY DEF Above, IsLink
<1> HIDE DEF x
<1>5. Above(x) = IF IsLink(l) /\ p # repo.links[l] THEN {l} ELSE {}
  <2>1. Above(x) \subseteq {l}
    BY <1>3, <1>4
  <2>2. l \in Above(x) <=> IsLink(l) /\ p # repo.links[l]
    BY <1>1, <1>4
  <2> QED
    BY <2>1, <2>2
<1> QED
  BY <1>5 DEF x

\* What can be where a file is, where a link is, and in the place of one.
LEMMA WhereLinksAre ==
  ASSUME NestInv, TreeInv
  PROVE  /\ \A f \in Files : ~IsLink(f)
         /\ \A l \in Links : IsLink(l) => LinkAt(l)
         /\ \A l \in LinkedDirs : \A p \in Walked(FromLink(l)) :
              ~IsLink(l) /\ IsLink(Place(FromLink(l), p)) =>
                p \in Links /\ StaysLink(FromLink(l), p)
<1>1. ASSUME NEW f \in Files PROVE ~IsLink(f)
  BY <1>1 DEF TreeInv, IsLink
<1>2. ASSUME NEW l \in Links, IsLink(l) PROVE LinkAt(l)
  <2>1. ASSUME NEW k \in LinkedDirs, ~IsLink(k), NEW q \in Walked(FromLink(k)),
               l = Place(FromLink(k), q)
        PROVE  FALSE
    <3>1. k \in Links /\ Under(l, k)
      BY <2>1, LinkedWalked
    <3>2. l = k
      BY <3>1, OnlyTheLink, RepoIs DEF NestInv, Paths
    <3> QED
      BY <1>2, <2>1, <3>2
  <2> QED
    BY <1>2, <2>1, LinkIs
<1>3. ASSUME NEW l \in LinkedDirs, NEW p \in Walked(FromLink(l)),
             ~IsLink(l), IsLink(Place(FromLink(l), p))
      PROVE  p \in Links /\ StaysLink(FromLink(l), p)
  <2> DEFINE x == Place(FromLink(l), p)
             dir == repo.links[l]
  <2>1. /\ l \in Links /\ l \in Path /\ x \in Path /\ Under(x, l) /\ (x = l <=> p = dir)
        /\ dir \in Path /\ p \in Path /\ Under(p, dir) /\ x = l \o Rest(p, dir)
    BY LinkedWalked
  <2>2. CASE x \in Links
    BY <1>3, <2>1, <2>2, OnlyTheLink, RepoIs DEF NestInv, Paths
  <2>3. CASE x \notin Links
    <3>0. PICK k \in LinkedDirs : \E q \in Walked(FromLink(k)) \cap Links :
            StaysLink(FromLink(k), q) /\ x = Place(FromLink(k), q)
      BY <1>3, <2>3, LinkIs
    <3>1. PICK q \in Walked(FromLink(k)) \cap Links :
            StaysLink(FromLink(k), q) /\ x = Place(FromLink(k), q)
      BY <3>0
    <3>2. k \in Links /\ k \in Path /\ Under(x, k)
      BY <3>1, LinkedWalked
    <3>3. Under(k, l) \/ Under(l, k)
      BY <2>1, <3>2, UnderOrders
    <3>4. k = l
      BY <2>1, <3>2, <3>3, OnlyTheLink, RepoIs DEF NestInv, Paths
    <3>5. q \in Path /\ Under(q, dir) /\ x = l \o Rest(q, dir)
      BY <3>1, <3>4, LinkedWalked
    <3>6. p = q
      <4>1. /\ l \o Rest(p, dir) = l \o Rest(q, dir) /\ dir \in Path
            /\ l \in Path /\ p \in Path /\ q \in Path /\ Under(p, dir) /\ Under(q, dir)
        BY <2>1, <3>5
      <4> HIDE DEF x, dir
      <4> QED
        BY <4>1, Moved
    <3> QED
      BY <3>1, <3>4, <3>6
  <2> QED
    BY <2>2, <2>3
<1> QED
  BY <1>1, <1>2, <1>3

-----------------------------------------------------------------------------
(* Where what is unpacked goes.                                            *)

\* The entries that are unpacked: a directory that is there is not made again.
Unpacked(entries) == {e \in entries : e.kind = "dir" => Through(e.path) \notin DOMAIN tree}

\* What is there can still be found: no link is written over, and no file but by one.
Harmless(e) ==
  /\ e.kind \in {"dir", "link", "file"}
  /\ e.kind = "link" => ~Exists(tree, Target(e))
  /\ e.kind = "file" => ~IsLink(Target(e))
  /\ e.kind = "dir" => Target(e) = Through(e.path)

LEMMA EntryIs ==
  ASSUME repo \in Repos, NEW w, NEW p \in Paths
  PROVE  LET e == Entry(w, p)
         IN /\ e.path = Place(w, p) /\ e.kind \in {"dir", "link", "file"}
            /\ e.kind = "dir" <=> p \in Dirs
            /\ e.kind = "link" <=> p \in Links /\ StaysLink(w, p)
            /\ e.kind = "link" => e.name = LinkName(p)
<1>1. ~(p \in Dirs /\ p \in Links)
  BY RepoIs
<1> QED
  BY <1>1 DEF Entry

\* Where it was on the disk; or, for a file that is a link there, what the link leads to.
GoesHome(w, p) ==
  LET e == Entry(w, p)
  IN /\ Harmless(e)
     /\ \/ Target(e) = p
        \/ /\ p \in Links /\ ~StaysLink(w, p) /\ LinkAt(p) /\ e.kind = "file"
           /\ Target(e) = repo.links[p] /\ BehindLink(Target(e))

LEMMA HomeIs ==
  ASSUME NestInv, TreeInv, NEW w, NEW p \in Paths,
         CanUnpack(Entry(w, p)), Through(Entry(w, p).path) = p,
         p \in Links /\ ~StaysLink(w, p) => repo.links[p] \in Files
  PROVE  GoesHome(w, p)
<1> DEFINE e == Entry(w, p)
<1>1. /\ e.kind \in {"dir", "link", "file"} /\ (e.kind = "dir" <=> p \in Dirs)
      /\ e.kind = "link" <=> p \in Links /\ StaysLink(w, p)
  BY EntryIs DEF NestInv
<1>2. CanUnpack(e) /\ Through(e.path) = p
  OBVIOUS
<1>3. GoesHome(w, p) <=>
        /\ Harmless(e)
        /\ \/ Target(e) = p
           \/ /\ p \in Links /\ ~StaysLink(w, p) /\ LinkAt(p) /\ e.kind = "file"
              /\ Target(e) = repo.links[p] /\ BehindLink(Target(e))
  BY DEF GoesHome
<1> HIDE DEF e
<1>4. e.kind = "link" => ~Exists(tree, p)
  BY <1>2 DEF CanUnpack
<1>5. CASE ~(e.kind = "file" /\ IsLink(p))
  <2>1. Target(e) = p
    BY <1>2, <1>5 DEF Target
  <2> QED
    BY <1>1, <1>2, <1>3, <1>4, <1>5, <2>1 DEF Harmless
<1>6. CASE e.kind = "file" /\ IsLink(p)
  <2>1. p \in Links /\ ~StaysLink(w, p)
    BY <1>1, <1>6, WhereLinksAre DEF Paths
  <2>2. LinkAt(p) /\ repo.links[p] \in Files
    BY <1>6, <2>1, WhereLinksAre
  <2>3. Target(e) = repo.links[p]
    BY <1>2, <1>6, <2>2 DEF Target, LinkAt
  <2>4. BehindLink(Target(e)) /\ ~IsLink(Target(e))
    BY <2>1, <2>2, <2>3, WhereLinksAre DEF BehindLink
  <2> QED
    BY <1>3, <1>6, <2>1, <2>2, <2>3, <2>4 DEF Harmless
<1> QED
  BY <1>5, <1>6

\* Of the tree of a module, everything goes where it belongs.
LEMMA OwnBatch ==
  ASSUME NestInv, TreeInv, NEW u \in ToSet(unnested), NEW p \in Walked(Own(u)),
         CanUnpack(Entry(Own(u), p)),
         p \in Links /\ ~StaysLink(Own(u), p) => repo.links[p] \in Files
  PROVE  GoesHome(Own(u), p)
<1>1. p \in Paths /\ Under(p, u) /\ p \in AllPaths /\ Place(Own(u), p) = p
  BY OwnWalked, RepoIs DEF NestInv
<1>2. Entry(Own(u), p).path = p
  BY <1>1, EntryIs DEF NestInv
<1>3. Through(p) = p
  BY <1>1, AboveOwn DEF Through
<1> QED
  BY <1>1, <1>2, <1>3, HomeIs

\* So it does of a directory that is packed in the place of a link.
LEMMA LinkedBatch ==
  ASSUME NestInv, TreeInv, NEW l \in LinkedDirs, ~IsLink(l), NEW p \in Walked(FromLink(l)),
         CanUnpack(Entry(FromLink(l), p))
  PROVE  /\ Target(Entry(FromLink(l), p)) = Place(FromLink(l), p)
         /\ Harmless(Entry(FromLink(l), p))
<1> DEFINE w == FromLink(l)
           e == Entry(w, p)
           x == Place(w, p)
<1>1. p \in Paths /\ Above(x) = {}
  BY LinkedWalked, AboveLinked
<1>2. /\ e.path = x /\ e.kind \in {"dir", "link", "file"}
      /\ e.kind = "link" <=> p \in Links /\ StaysLink(w, p)
  BY <1>1, EntryIs DEF NestInv
<1>3. Through(x) = x
  BY <1>1 DEF Through
<1>4. CanUnpack(e)
  OBVIOUS
<1>5. IsLink(x) => p \in Links /\ StaysLink(w, p)
  BY WhereLinksAre
<1> HIDE DEF e, x, w
<1>6. e.kind = "link" => ~Exists(tree, x)
  BY <1>2, <1>3, <1>4 DEF CanUnpack
<1>7. e.kind = "file" => ~IsLink(x)
  BY <1>2, <1>5
<1>8. Target(e) = x
  BY <1>2, <1>3, <1>7 DEF Target
<1>9. Harmless(e)
  BY <1>2, <1>3, <1>6, <1>7, <1>8 DEF Harmless
<1> QED
  BY <1>8, <1>9 DEF e, x, w

\* Where a link is found, what comes for the directory that it leads to goes there.
LEMMA BatchThrough ==
  ASSUME NestInv, TreeInv, NEW l \in LinkedDirs, IsLink(l), NEW p \in Walked(FromLink(l)),
         Entry(FromLink(l), p) \in Unpacked(EntriesOf(FromLink(l))),
         CanUnpack(Entry(FromLink(l), p)),
         p \in Links /\ ~StaysLink(FromLink(l), p) => repo.links[p] \in Files
  PROVE  GoesHome(FromLink(l), p)
<1> DEFINE w == FromLink(l)
           e == Entry(w, p)
           x == Place(w, p)
           dir == repo.links[l]
<1>1. /\ p \in Paths /\ dir \in Dirs /\ l \in Links /\ (x = l <=> p = dir)
      /\ dir \o Rest(x, l) = p
      /\ Above(x) = IF p # dir THEN {l} ELSE {}
  BY LinkedWalked, AboveLinked
<1>2. e.path = x /\ (e.kind = "dir" <=> p \in Dirs)
  BY <1>1, EntryIs DEF NestInv
<1>3. e \in Unpacked(EntriesOf(w))
  OBVIOUS
<1>4. tree[l].leadsTo = dir
  BY <1>1, WhereLinksAre DEF LinkAt
<1>5. Through(x) = p
  <2> HIDE DEF e, x, w, dir
  <2>1. CASE p = dir
    <3>1. Through(x) = l /\ e.kind = "dir" /\ l \in DOMAIN tree
      BY <1>1, <1>2, <2>1 DEF Through, IsLink
    <3> QED
      BY <1>2, <1>3, <3>1 DEF Unpacked
  <2>2. CASE p # dir
    <3>1. Above(x) = {l}
      BY <1>1, <2>2
    <3>2. Through(x) = tree[l].leadsTo \o Rest(x, l)
      BY <3>1 DEF Through
    <3> QED
      BY <1>1, <1>4, <2>2, <3>2
  <2> QED
    BY <2>1, <2>2
<1> QED
  BY <1>1, <1>2, <1>5, HomeIs

-----------------------------------------------------------------------------
(* A tree is unpacked.                                                     *)

\* Unpack, when everything in the tree of w can be unpacked.
Unpacking(w) ==
  LET batch == Unpacked(EntriesOf(w))
  IN /\ \A e \in EntriesOf(w) : CanUnpack(e)
     /\ repo' = repo /\ unnested' = unnested
     /\ DOMAIN tree' = DOMAIN tree \cup {Target(e) : e \in batch}
     /\ \A q \in DOMAIN tree' :
          \/ \E e \in batch : Target(e) = q /\ tree'[q] = Written(e, q)
          \/ q \in DOMAIN tree /\ q \notin {Target(e) : e \in batch} /\ tree'[q] = tree[q]

LEMMA UnpackIs ==
  ASSUME NEW w, Unpack, Head(archive) = EntriesOf(w), pc' # "failed"
  PROVE  Unpacking(w)
<1> DEFINE batch == Unpacked(EntriesOf(w))
           places == {Target(e) : e \in batch}
           chosen(p) == CHOOSE e \in batch : Target(e) = p
<1>1. /\ \A e \in EntriesOf(w) : CanUnpack(e)
      /\ repo' = repo /\ unnested' = unnested
      /\ tree' = [p \in places \cup DOMAIN tree |->
                    IF p \in places THEN Written(chosen(p), p) ELSE tree[p]]
  <2>1. batch = {e \in Head(archive) : e.kind = "dir" => Through(e.path) \notin DOMAIN tree}
    BY DEF Unpacked
  <2> HIDE DEF batch
  <2> QED
    BY <2>1 DEF Unpack, finding
<1> HIDE DEF batch
<1>2. \A q \in places : chosen(q) \in batch /\ Target(chosen(q)) = q
  OBVIOUS
<1> HIDE DEF places, chosen
<1>3. /\ DOMAIN tree' = DOMAIN tree \cup places
      /\ \A q \in DOMAIN tree' :
           tree'[q] = IF q \in places THEN Written(chosen(q), q) ELSE tree[q]
  BY <1>1
<1>4. ASSUME NEW q \in DOMAIN tree'
      PROVE  \/ \E e \in batch : Target(e) = q /\ tree'[q] = Written(e, q)
             \/ q \in DOMAIN tree /\ q \notin places /\ tree'[q] = tree[q]
  BY <1>2, <1>3
<1> QED
  BY <1>1, <1>3, <1>4 DEF Unpacking, batch, places

\* Trees that go home: those of the modules, and those that a link is there for.
Homeward(w) ==
  \/ \E u \in ToSet(unnested) : w = Own(u)
  \/ \E l \in LinkedDirs : w = FromLink(l) /\ IsLink(l)

\* What is in a batch.
LEMMA BatchIs ==
  ASSUME NestInv, TreeInv, NEW w \in AllWalks,
         \A e \in EntriesOf(w) : CanUnpack(e), NEW e \in Unpacked(EntriesOf(w))
  PROVE  /\ Harmless(e)
         /\ \/ /\ Homeward(w)
               /\ \E p \in Walked(w) : e = Entry(w, p) /\ GoesHome(w, p)
            \/ \E l \in LinkedDirs :
                 /\ w = FromLink(l) /\ ~IsLink(l)
                 /\ \E p \in Walked(w) : Target(e) = Place(w, p) /\ e = Entry(w, p)
<1>1. e \in EntriesOf(w) /\ CanUnpack(e)
  BY DEF Unpacked
<1>2. PICK p \in Walked(w) :
        /\ e = Entry(w, p)
        /\ p \in Links /\ ~StaysLink(w, p) => repo.links[p] \in Files
  BY <1>1 DEF EntriesOf
<1>3. GoesHome(w, p) => Harmless(e)
  BY <1>2 DEF GoesHome
<1>4. CASE \E u \in ToSet(unnested) : w = Own(u)
  <2>1. PICK u \in ToSet(unnested) : w = Own(u)
    BY <1>4
  <2>2. GoesHome(w, p)
    BY <1>1, <1>2, <2>1, OwnBatch
  <2> QED
    BY <1>2, <1>3, <1>4, <2>2 DEF Homeward
<1>5. CASE \E l \in LinkedDirs : w = FromLink(l) /\ ~IsLink(l)
  <2>1. PICK l \in LinkedDirs : w = FromLink(l) /\ ~IsLink(l)
    BY <1>5
  <2>2. Target(e) = Place(w, p) /\ Harmless(e)
    BY <1>1, <1>2, <2>1, LinkedBatch
  <2> QED
    BY <1>2, <2>1, <2>2
<1>6. CASE \E l \in LinkedDirs : w = FromLink(l) /\ IsLink(l)
  <2>1. PICK l \in LinkedDirs : w = FromLink(l) /\ IsLink(l)
    BY <1>6
  <2>2. GoesHome(w, p)
    BY <1>1, <1>2, <2>1, BatchThrough
  <2> QED
    BY <1>2, <1>3, <1>6, <2>2 DEF Homeward
<1> QED
  BY <1>4, <1>5, <1>6 DEF AllWalks

\* What has arrived is not lost again.
LEMMA Kept ==
  ASSUME NestInv, TreeInv, NEW w \in AllWalks, Unpacking(w)
  PROVE  /\ \A q : FileAt(q) => FileAt(q)'
         /\ \A q : IsLink(q) => q \in DOMAIN tree' /\ tree'[q] = tree[q]
         /\ \A l : LinkAt(l) => LinkAt(l)'
         /\ \A u : OwnArrived(u) => OwnArrived(u)'
         /\ \A l : LinkedArrived(l) => LinkedArrived(l)'
<1> DEFINE batch == Unpacked(EntriesOf(w))
<1>1. /\ \A e \in EntriesOf(w) : CanUnpack(e)
      /\ DOMAIN tree' = DOMAIN tree \cup {Target(e) : e \in batch}
      /\ \A q \in DOMAIN tree' :
           \/ \E e \in batch : Target(e) = q /\ tree'[q] = Written(e, q)
           \/ q \in DOMAIN tree /\ q \notin {Target(e) : e \in batch} /\ tree'[q] = tree[q]
      /\ repo' = repo
  BY DEF Unpacking
<1>2. ASSUME NEW q \in DOMAIN tree, tree[q].kind # "dir", NEW e \in batch, Target(e) = q
      PROVE  e.kind = "file" /\ ~IsLink(q)
  <2>1. Harmless(e)
    BY <1>1, BatchIs
  <2>2. Exists(tree, q)
    <3>1. Under(q, q)
      BY DEF Under, IsPrefix
    <3> QED
      BY <1>2, <3>1 DEF Exists
  <2>3. e.kind = "dir" => q \notin DOMAIN tree
    BY <1>2, <2>1 DEF Harmless, Unpacked
  <2> QED
    BY <1>2, <2>1, <2>2, <2>3 DEF Harmless
<1>3. ASSUME NEW q, FileAt(q) PROVE FileAt(q)'
  <2>1. \A e : Written(e, q).kind = e.kind
    BY DEF Written
  <2> QED
    BY <1>1, <1>2, <1>3, <2>1 DEF FileAt
<1>4. ASSUME NEW q, IsLink(q) PROVE q \in DOMAIN tree' /\ tree'[q] = tree[q]
  <2>1. q \in DOMAIN tree /\ tree[q].kind = "link"
    BY <1>4 DEF IsLink
  <2> QED
    BY <1>1, <1>2, <1>4, <2>1
<1>5. ASSUME NEW l, LinkAt(l) PROVE LinkAt(l)'
  BY <1>1, <1>4, <1>5 DEF LinkAt, IsLink
<1>6. ASSUME NEW u, OwnArrived(u) PROVE OwnArrived(u)'
  <2>1. /\ \A v : Walked(v)' = Walked(v) /\ Links' = Links
        /\ \A v, l : StaysLink(v, l)' <=> StaysLink(v, l)
    BY <1>1, SamePacking
  <2>2. ASSUME NEW l, FileAt(repo.links[l]) PROVE FileAt(repo.links[l])'
    <3>1. repo.links[l]' = repo.links[l]
      BY <1>1
    <3> QED
      BY <1>3, <2>2, <3>1 DEF FileAt
  <2> QED
    BY <1>1, <1>3, <1>5, <1>6, <2>1, <2>2 DEF OwnArrived, Own
<1>7. ASSUME NEW l, LinkedArrived(l) PROVE LinkedArrived(l)'
  <2>1. /\ \A v : Walked(v)' = Walked(v)
        /\ FromLink(l)' = FromLink(l)
    BY <1>1, SamePacking
  <2> QED
    BY <1>3, <1>5, <1>7, <2>1 DEF LinkedArrived
<1> QED
  BY <1>3, <1>4, <1>5, <1>6, <1>7

\* Unpacking a tree keeps what is there in order.
LEMMA TreeStep ==
  ASSUME NestInv, TreeInv, NEW w \in AllWalks, Unpacking(w)
  PROVE  TreeInv'
<1> DEFINE batch == Unpacked(EntriesOf(w))
           U == ToSet(unnested)
<1>1. /\ \A e \in EntriesOf(w) : CanUnpack(e)
      /\ DOMAIN tree' = DOMAIN tree \cup {Target(e) : e \in batch}
      /\ \A q \in DOMAIN tree' :
           \/ \E e \in batch : Target(e) = q /\ tree'[q] = Written(e, q)
           \/ q \in DOMAIN tree /\ q \notin {Target(e) : e \in batch} /\ tree'[q] = tree[q]
      /\ repo' = repo /\ ToSet(unnested)' = U
  BY DEF Unpacking, ToSet
<1>2. /\ Links' = Links /\ LinkedDirs' = LinkedDirs
      /\ \A l : FromLink(l)' = FromLink(l) /\ Own(l)' = Own(l)
      /\ \A v : Walked(v)' = Walked(v)
      /\ \A v, l : StaysLink(v, l)' <=> StaysLink(v, l)
  BY <1>1, SamePacking DEF Own, Walk
<1>3. \A q : /\ InOwnTree(q)' <=> InOwnTree(q)
             /\ InLinkedTree(q)' <=> InLinkedTree(q)
             /\ BehindLink(q)' <=> BehindLink(q)
  BY <1>1, <1>2 DEF InOwnTree, InLinkedTree, BehindLink
<1>4. \A v, p : Place(v, p)' = Place(v, p)
  BY DEF Place
<1>5. \A e, q : Written(e, q).kind = e.kind
  BY DEF Written
<1>6. ASSUME NEW l \in LinkedDirs, ~IsLink(l), IsLink(l)'
      PROVE  l \in {Target(e) : e \in batch} /\ ~Exists(tree, l) /\ Homeward(w)
  <2>1. PICK e \in batch : Target(e) = l /\ e.kind = "link"
    BY <1>1, <1>5, <1>6 DEF IsLink
  <2>2. ~Exists(tree, l)
    BY <1>1, <2>1, BatchIs DEF Harmless
  <2>3. ASSUME NEW k \in LinkedDirs, w = FromLink(k), NEW p \in Walked(w),
               l = Place(w, p), e = Entry(w, p)
        PROVE  FALSE
    <3>1. /\ k \in Links /\ Under(l, k) /\ repo.links[k] \in Dirs /\ p \in Paths
          /\ l = k <=> p = repo.links[k]
      BY <2>3, LinkedWalked
    <3>2. l = k
      BY <3>1, OnlyTheLink, RepoIs DEF NestInv, Paths
    <3>3. e.kind = "dir"
      BY <2>3, <3>1, <3>2, EntryIs DEF NestInv
    <3> QED
      BY <2>1, <3>3
  <2>4. Homeward(w)
    BY <1>1, <2>1, <2>3, BatchIs
  <2> QED
    BY <2>1, <2>2, <2>4
<1>7. ASSUME NEW q \in DOMAIN tree, q \notin {Target(e) : e \in batch}, AtLink(q)
      PROVE  AtLink(q)'
  <2>1. PICK l \in LinkedDirs :
          /\ ~IsLink(l)
          /\ \E p \in Walked(FromLink(l)) :
               /\ q = Place(FromLink(l), p)
               /\ IsLink(q) => p \in Links /\ StaysLink(FromLink(l), p)
    BY <1>7 DEF AtLink
  <2>2. IsLink(q)' <=> IsLink(q)
    BY <1>1, <1>7 DEF IsLink
  <2>3. ~IsLink(l)'
    <3>1. ASSUME IsLink(l)' PROVE FALSE
      <4>1. ~Exists(tree, l) /\ l \in {Target(e) : e \in batch}
        BY <1>6, <2>1, <3>1
      <4>2. Under(q, l)
        BY <2>1, LinkedWalked
      <4>3. q = l
        BY <1>7, <4>1, <4>2 DEF Exists
      <4> QED
        BY <1>7, <4>1, <4>3
    <3> QED
      BY <3>1
  <2> QED
    BY <1>2, <1>4, <2>1, <2>2, <2>3 DEF AtLink
<1>8. \A q : LinkAt(q) => LinkAt(q)'
  BY Kept
<1>9. ASSUME NEW q \in DOMAIN tree'
      PROVE  /\ q \in Files => /\ tree'[q].kind = "file"
                               /\ InOwnTree(q) \/ InLinkedTree(q) \/ BehindLink(q)
             /\ IsLink(q)' => (q \in Links /\ LinkAt(q)') \/ AtLink(q)'
  <2>1. CASE q \in DOMAIN tree /\ q \notin {Target(e) : e \in batch} /\ tree'[q] = tree[q]
    <3>1. IsLink(q)' <=> IsLink(q)
      BY <1>9, <2>1 DEF IsLink
    <3> QED
      BY <1>7, <1>8, <2>1, <3>1 DEF TreeInv
  <2>2. CASE \E e \in batch : Target(e) = q /\ tree'[q] = Written(e, q)
    <3>1. PICK e \in batch : Target(e) = q /\ tree'[q] = Written(e, q)
      BY <2>2
    <3>2. /\ tree'[q].kind = e.kind
          /\ IsLink(q)' <=> e.kind = "link"
      BY <1>5, <1>9, <3>1 DEF IsLink
    <3>3. ASSUME Homeward(w), NEW p \in Walked(w), e = Entry(w, p), GoesHome(w, p)
          PROVE  /\ q \in Files => /\ e.kind = "file"
                                   /\ InOwnTree(q) \/ InLinkedTree(q) \/ BehindLink(q)
                 /\ IsLink(q)' => q \in Links /\ LinkAt(q)'
      <4>1. /\ p \in Paths /\ Under(p, w.src) /\ w.src \in Dirs
            /\ InOwnTree(p) \/ InLinkedTree(p)
        <5>1. CASE \E u \in U : w = Own(u)
          BY <3>3, <5>1, OwnWalked, FoundAreModules DEF InOwnTree, Own, Walk
        <5>2. CASE \E l \in LinkedDirs : w = FromLink(l)
          <6>1. PICK l \in LinkedDirs : w = FromLink(l)
            BY <5>2
          <6>2. w.src = repo.links[l]
            BY <6>1 DEF FromLink, Walk
          <6>3. p \in Paths /\ Under(p, w.src) /\ w.src \in Dirs
            BY <3>3, <6>1, <6>2, LinkedWalked
          <6>4. InLinkedTree(p)
            BY <3>3, <6>1 DEF InLinkedTree
          <6> QED
            BY <6>3, <6>4
        <5> QED
          BY <3>3, <5>1, <5>2 DEF Homeward
      <4>2. /\ e.kind = "link" <=> p \in Links /\ StaysLink(w, p)
            /\ e.kind = "link" => e.name = LinkName(p)
            /\ e.kind \in {"dir", "link", "file"} /\ (e.kind = "dir" <=> p \in Dirs)
        BY <3>3, <4>1, EntryIs DEF NestInv
      <4>3. CASE q = p
        <5>1. q \in Files => e.kind = "file"
          BY <4>1, <4>2, <4>3, AllArePaths, RepoIs DEF NestInv
        <5>2. ASSUME e.kind = "link" PROVE q \in Links /\ LinkAt(q)'
          <6>1. Written(e, p).leadsTo = repo.links[p]
            BY <4>1, <4>2, <5>2, LeadsThere
          <6>2. IsLink(q)' /\ tree'[q].leadsTo = repo.links[q]
            BY <3>1, <3>2, <4>3, <5>2, <6>1
          <6> QED
            BY <1>1, <4>2, <4>3, <5>2, <6>2 DEF LinkAt
        <5> QED
          BY <3>2, <4>1, <4>3, <5>1, <5>2
      <4>4. CASE q # p
        BY <3>1, <3>2, <3>3, <4>4 DEF GoesHome
      <4> QED
        BY <4>3, <4>4
    <3>4. ASSUME NEW l \in LinkedDirs, w = FromLink(l), ~IsLink(l),
                 NEW p \in Walked(w), q = Place(w, p), e = Entry(w, p)
          PROVE  q \notin Files /\ (IsLink(q)' => AtLink(q)')
      <4>1. l \in Links /\ Under(q, l) /\ p \in Paths
        BY <3>4, LinkedWalked
      <4>2. q \notin Files
        BY <4>1, OnlyTheLink, RepoIs DEF NestInv, AllPaths
      <4>3. ~Homeward(w)
        <5>1. ASSUME NEW u \in U, w = Own(u) PROVE FALSE
          <6>1. repo.links[l] = l
            BY <3>4, <5>1 DEF FromLink, Own, Walk
          <6> QED
            BY <4>1, <6>1, RepoIs DEF NestInv
        <5>2. ASSUME NEW k \in LinkedDirs, w = FromLink(k), IsLink(k) PROVE FALSE
          <6>1. k = l
            BY <3>4, <5>2 DEF FromLink, Walk
          <6> QED
            BY <3>4, <5>2, <6>1
        <5> QED
          BY <5>1, <5>2 DEF Homeward
      <4>4. ~IsLink(l)'
        BY <1>6, <3>4, <4>3
      <4>5. e.kind = "link" => p \in Links /\ StaysLink(w, p)
        BY <3>4, <4>1, EntryIs DEF NestInv
      <4>6. IsLink(q)' => p \in Links /\ StaysLink(w, p)
        BY <3>2, <4>5
      <4> QED
        BY <1>2, <1>4, <3>4, <4>2, <4>4, <4>6 DEF AtLink
    <3> QED
      BY <1>1, <3>1, <3>2, <3>3, <3>4, BatchIs
  <2> QED
    BY <1>1, <1>9, <2>1, <2>2
<1> QED
  BY <1>2, <1>3, <1>9 DEF TreeInv

LEMMA OwnArrives ==
  ASSUME NestInv, TreeInv, NEW u \in ToSet(unnested), Unpacking(Own(u))
  PROVE  OwnArrived(u)'
<1> DEFINE w == Own(u)
           batch == Unpacked(EntriesOf(w))
<1>1. /\ \A e \in EntriesOf(w) : CanUnpack(e)
      /\ DOMAIN tree' = DOMAIN tree \cup {Target(e) : e \in batch}
      /\ \A q \in DOMAIN tree' :
           \/ \E e \in batch : Target(e) = q /\ tree'[q] = Written(e, q)
           \/ q \in DOMAIN tree /\ q \notin {Target(e) : e \in batch} /\ tree'[q] = tree[q]
      /\ repo' = repo
  BY DEF Unpacking
<1>2. w \in AllWalks
  BY DEF AllWalks
<1>3. \A f \in Files : f \in DOMAIN tree' => FileAt(f)'
  <2>1. TreeInv'
    BY <1>2, TreeStep
  <2> QED
    BY <2>1 DEF TreeInv, FileAt
<1>4. ASSUME NEW e \in batch PROVE \E p \in Walked(w) : e = Entry(w, p) /\ GoesHome(w, p)
  <2>1. PICK p \in Walked(w) :
          /\ e = Entry(w, p)
          /\ p \in Links /\ ~StaysLink(w, p) => repo.links[p] \in Files
    BY DEF Unpacked, EntriesOf
  <2> QED
    BY <1>1, <2>1, OwnBatch DEF Unpacked
<1>5. ASSUME NEW p \in Walked(w), p \notin Dirs,
             p \in Links /\ ~StaysLink(w, p) => repo.links[p] \in Files
      PROVE  /\ GoesHome(w, p) /\ Target(Entry(w, p)) \in DOMAIN tree'
             /\ p \in Links /\ Target(Entry(w, p)) = p =>
                  tree'[p] = Written(Entry(w, p), p)
  <2>1. Entry(w, p) \in EntriesOf(w) /\ p \in Paths
    BY <1>5, OwnWalked DEF EntriesOf
  <2>2. Entry(w, p) \in batch
    BY <1>5, <2>1, EntryIs DEF Unpacked, NestInv
  <2>3. GoesHome(w, p) /\ Target(Entry(w, p)) \in DOMAIN tree'
    BY <1>1, <1>5, <2>1, <2>2, OwnBatch
  <2>4. ASSUME p \in Links, Target(Entry(w, p)) = p
        PROVE  tree'[p] = Written(Entry(w, p), p)
    <3>1. PICK e \in batch : Target(e) = p /\ tree'[p] = Written(e, p)
      BY <1>1, <2>2, <2>3, <2>4
    <3>2. PICK k \in Walked(w) : e = Entry(w, k) /\ GoesHome(w, k)
      BY <1>4
    <3>3. p \notin Files
      BY <2>4, RepoIs DEF NestInv
    <3>4. k = p
      BY <3>1, <3>2, <3>3 DEF GoesHome, BehindLink
    <3> QED
      BY <3>1, <3>2, <3>4
  <2> QED
    BY <2>3, <2>4
<1>6. /\ \A v : Walked(v)' = Walked(v) /\ Links' = Links
      /\ \A v, l : StaysLink(v, l)' <=> StaysLink(v, l)
  BY <1>1, SamePacking
<1>7. ASSUME NEW p \in Walked(w)
      PROVE  /\ p \in Files => FileAt(p)'
             /\ p \in Links /\ StaysLink(w, p) => LinkAt(p)'
             /\ p \in Links /\ ~StaysLink(w, p) /\ repo.links[p] \in Files =>
                  FileAt(p)' \/ (LinkAt(p)' /\ FileAt(repo.links[p])')
  <2>1. /\ p \in Paths /\ (p \in Files \cup Links => p \notin Dirs)
        /\ p \in Files => p \notin Links
        /\ Under(p, u) /\ u \in Dirs /\ w.src = u
    BY OwnWalked, FoundAreModules, AllArePaths, RepoIs DEF NestInv, Own, Walk
  <2>2. /\ Entry(w, p).kind \in {"dir", "link", "file"}
        /\ Entry(w, p).kind = "dir" <=> p \in Dirs
        /\ Entry(w, p).kind = "link" <=> p \in Links /\ StaysLink(w, p)
        /\ Entry(w, p).kind = "link" => Entry(w, p).name = LinkName(p)
    BY <2>1, EntryIs DEF NestInv
  <2>3. ASSUME p \in Files PROVE FileAt(p)'
    BY <1>3, <1>5, <2>1, <2>3 DEF GoesHome
  <2>4. ASSUME p \in Links, StaysLink(w, p) PROVE LinkAt(p)'
    <3>1. p \in DOMAIN tree' /\ tree'[p] = Written(Entry(w, p), p)
      BY <1>5, <2>1, <2>4 DEF GoesHome
    <3>2. /\ Written(Entry(w, p), p).kind = "link"
          /\ Written(Entry(w, p), p).leadsTo = repo.links[p]
      BY <2>1, <2>2, <2>4, LeadsThere
    <3> QED
      BY <1>1, <3>1, <3>2 DEF LinkAt, IsLink
  <2>5. ASSUME p \in Links, ~StaysLink(w, p), repo.links[p] \in Files
        PROVE  FileAt(p)' \/ (LinkAt(p)' /\ FileAt(repo.links[p])')
    <3>1. GoesHome(w, p) /\ Target(Entry(w, p)) \in DOMAIN tree'
      BY <1>5, <2>1, <2>5
    <3>2. CASE Target(Entry(w, p)) = p
      <4>1. p \in DOMAIN tree' /\ tree'[p] = Written(Entry(w, p), p)
        BY <1>5, <2>1, <2>5, <3>1, <3>2
      <4>2. Written(Entry(w, p), p).kind = "file"
        BY <2>1, <2>2, <2>5 DEF Written
      <4> QED
        BY <4>1, <4>2 DEF FileAt
    <3>3. CASE Target(Entry(w, p)) # p
      <4>1. LinkAt(p) /\ Target(Entry(w, p)) = repo.links[p]
        BY <3>1, <3>3 DEF GoesHome
      <4>2. LinkAt(p)'
        BY <1>2, <4>1, Kept
      <4>3. repo.links[p] \in DOMAIN tree' /\ repo.links[p]' = repo.links[p]
        BY <1>1, <3>1, <4>1
      <4>4. FileAt(repo.links[p])'
        BY <1>3, <2>5, <4>3 DEF FileAt
      <4> QED
        BY <4>2, <4>4
    <3> QED
      BY <3>2, <3>3
  <2> QED
    BY <2>3, <2>4, <2>5
<1> QED
  BY <1>1, <1>6, <1>7 DEF OwnArrived, Own

LEMMA LinkedArrives ==
  ASSUME NestInv, TreeInv, NEW l \in LinkedDirs, Unpacking(FromLink(l))
  PROVE  LinkedArrived(l)'
<1> DEFINE w == FromLink(l)
           batch == Unpacked(EntriesOf(w))
<1>1. /\ \A e \in EntriesOf(w) : CanUnpack(e)
      /\ DOMAIN tree' = DOMAIN tree \cup {Target(e) : e \in batch}
      /\ \A q \in DOMAIN tree' :
           \/ \E e \in batch : Target(e) = q /\ tree'[q] = Written(e, q)
           \/ q \in DOMAIN tree /\ q \notin {Target(e) : e \in batch} /\ tree'[q] = tree[q]
      /\ repo' = repo
  BY DEF Unpacking
<1>2. Walked(w)' = Walked(w) /\ FromLink(l)' = w
  BY <1>1, SamePacking
<1>3. w \in AllWalks
  BY DEF AllWalks
<1>4. ASSUME NEW f \in Walked(w) \cap Files
      PROVE  f \in Paths /\ f \notin Links /\ Entry(w, f).kind = "file" /\ Entry(w, f) \in batch
  <2>1. f \in Paths /\ f \notin Dirs /\ f \notin Links
    BY LinkedWalked, AllArePaths, RepoIs DEF NestInv
  <2>2. Entry(w, f) \in EntriesOf(w) /\ Entry(w, f).kind = "file"
    BY <2>1, EntryIs DEF EntriesOf, NestInv
  <2> QED
    BY <2>1, <2>2 DEF Unpacked
<1>5. ASSUME NEW f \in Walked(w) \cap Files, IsLink(l) PROVE LinkAt(l)' /\ FileAt(f)'
  <2>1. LinkAt(l)
    BY <1>5, WhereLinksAre DEF LinkedDirs
  <2>2. GoesHome(w, f)
    BY <1>1, <1>4, <1>5, BatchThrough DEF Unpacked
  <2>3. Target(Entry(w, f)) = f
    BY <1>4, <2>2 DEF GoesHome
  <2>4. f \in DOMAIN tree'
    BY <1>1, <1>4, <2>3
  <2>5. TreeInv'
    BY <1>3, TreeStep
  <2>6. FileAt(f)'
    BY <2>4, <2>5 DEF TreeInv, FileAt
  <2> QED
    BY <1>3, <2>1, <2>6, Kept
<1>6. ASSUME NEW f \in Walked(w) \cap Files, ~IsLink(l) PROVE FileAt(Place(w, f))'
  <2> DEFINE e == Entry(w, f)
             x == Place(w, f)
  <2>1. e \in batch /\ e.kind = "file" /\ Target(e) = x
    BY <1>1, <1>4, <1>6, LinkedBatch DEF Unpacked
  <2>2. x \in DOMAIN tree'
    BY <1>1, <2>1
  <2>3. PICK d \in batch : Target(d) = x /\ tree'[x] = Written(d, x)
    BY <1>1, <2>1, <2>2
  <2>4. d \in EntriesOf(w)
    BY <2>3 DEF Unpacked
  <2>5. PICK p \in Walked(w) : d = Entry(w, p)
    BY <2>4 DEF EntriesOf
  <2>6. Place(w, p) = x
    BY <1>1, <1>6, <2>3, <2>4, <2>5, LinkedBatch
  <2>7. p = f
    <3> DEFINE dir == repo.links[l]
    <3>1. /\ l \in Path /\ dir \in Path /\ p \in Path /\ Under(p, dir)
          /\ Place(w, p) = l \o Rest(p, dir)
      BY LinkedWalked
    <3>2. f \in Path /\ Under(f, dir) /\ Place(w, f) = l \o Rest(f, dir)
      BY LinkedWalked
    <3> HIDE DEF dir, w
    <3>3. l \o Rest(p, dir) = l \o Rest(f, dir)
      BY <2>6, <3>1, <3>2
    <3>4. /\ dir \in Path /\ l \in Path /\ p \in Path /\ f \in Path
          /\ Under(p, dir) /\ Under(f, dir)
      BY <3>1, <3>2
    <3> HIDE DEF x, e, batch
    <3> QED
      BY <3>3, <3>4, Moved
  <2>8. x \in DOMAIN tree' /\ tree'[x].kind = "file"
    BY <2>1, <2>2, <2>3, <2>5, <2>7 DEF Written
  <2> QED
    BY <1>2, <2>8 DEF FileAt, Place
<1>7. ASSUME NEW f \in Walked(w) \cap Files
      PROVE  FileAt(Place(w, f))' \/ (LinkAt(l)' /\ FileAt(f)')
  BY <1>5, <1>6
<1> QED
  BY <1>2, <1>7 DEF LinkedArrived

-----------------------------------------------------------------------------
(* Every tree is delivered.                                                *)

LEMMA ConcatIs ==
  ASSUME NEW S, NEW s \in Seq(S), NEW t \in Seq(S)
  PROVE  ToSet(s \o t) = ToSet(s) \cup ToSet(t)
<1> DEFINE m == Len(s)
           n == Len(t)
           r == s \o t
<1>1. /\ m \in Nat /\ n \in Nat /\ DOMAIN s = 1..m /\ DOMAIN t = 1..n
  BY LenProperties
<1>2. /\ r \in Seq(S) /\ Len(r) = m + n
      /\ \A i \in 1..m + n : r[i] = IF i <= m THEN s[i] ELSE t[i - m]
  BY ConcatProperties
<1>3. DOMAIN r = 1..m + n
  BY <1>2, LenProperties
<1> HIDE DEF m, n, r
<1>4. ASSUME NEW i \in 1..m + n PROVE r[i] \in {s[j] : j \in 1..m} \cup {t[j] : j \in 1..n}
  <2>1. i <= m => i \in 1..m
    BY <1>1
  <2>2. ~(i <= m) => i - m \in 1..n
    BY <1>1
  <2> QED
    BY <1>2, <2>1, <2>2
<1>5. ASSUME NEW i \in 1..m PROVE i \in 1..m + n /\ r[i] = s[i]
  BY <1>1, <1>2
<1>6. ASSUME NEW i \in 1..n PROVE i + m \in 1..m + n /\ r[i + m] = t[i]
  <2> DEFINE k == i + m
  <2>1. k \in 1..m + n /\ ~(k <= m) /\ k - m = i
    BY <1>1
  <2> HIDE DEF k
  <2>2. k \in 1..m + n /\ r[k] = t[i]
    BY <1>2, <2>1
  <2> QED
    BY <2>2 DEF k
<1>7. ToSet(r) = ToSet(s) \cup ToSet(t)
  <2>1. ToSet(r) \subseteq ToSet(s) \cup ToSet(t)
    BY <1>1, <1>3, <1>4 DEF ToSet
  <2>2. ToSet(s) \cup ToSet(t) \subseteq ToSet(r)
    BY <1>1, <1>3, <1>5, <1>6 DEF ToSet
  <2> QED
    BY <2>1, <2>2
<1> QED
  BY <1>7 DEF r

LEMMA HeadAndTail ==
  ASSUME NEW S, NEW s \in Seq(S), s # <<>>
  PROVE  /\ Head(s) \in S /\ Tail(s) \in Seq(S) /\ Len(s) \in Nat \ {0}
         /\ Len(Tail(s)) = Len(s) - 1 /\ Head(s) = s[1]
         /\ \A i \in 1..Len(s) - 1 : Tail(s)[i] = s[i + 1]
         /\ \A x \in ToSet(s) : x = Head(s) \/ x \in ToSet(Tail(s))
<1>1. /\ Head(s) \in S /\ Tail(s) \in Seq(S) /\ Head(s) = s[1]
      /\ Len(s) \in Nat /\ Len(s) # 0 /\ DOMAIN s = 1..Len(s)
      /\ Len(Tail(s)) = Len(s) - 1
      /\ \A i \in 1..Len(Tail(s)) : Tail(s)[i] = s[i + 1]
  BY HeadTailProperties, LenProperties, EmptySeq
<1>2. DOMAIN Tail(s) = 1..Len(s) - 1
  BY <1>1, LenProperties
<1>3. ASSUME NEW i \in 1..Len(s), i # 1 PROVE i - 1 \in 1..Len(s) - 1 /\ Tail(s)[i - 1] = s[i]
  <2>1. i - 1 \in 1..Len(s) - 1 /\ i - 1 + 1 = i
    BY <1>1, <1>3
  <2> QED
    BY <1>1, <2>1
<1>4. \A x \in ToSet(s) : x = Head(s) \/ x \in ToSet(Tail(s))
  <2>1. \A i \in 1..Len(s) : s[i] = Head(s) \/ s[i] \in ToSet(Tail(s))
    BY <1>1, <1>2, <1>3 DEF ToSet
  <2> QED
    BY <1>1, <2>1 DEF ToSet
<1> QED
  BY <1>1, <1>4

\* A tree is packed: what is packed is in the archive, and what its links lead to is next.
LEMMA PackDelivers ==
  ASSUME NestInv, PackInv, Delivered, Pack
  PROVE  Delivered'
<1> DEFINE w == Head(walks)
           U == ToSet(unnested)
<1>1. /\ walks # <<>> /\ archive' = Append(archive, EntriesOf(w))
      /\ walks' = SetToSeq(LinkedTrees(w)) \o Tail(walks)
      /\ UNCHANGED <<repo, unnested, tree>> /\ repo \in Repos
      /\ walks \in Seq(AllWalks) /\ archive \in Seq({EntriesOf(v) : v \in AllWalks})
  BY DEF Pack, finding, NestInv, PackInv
<1>2. /\ w \in AllWalks /\ Tail(walks) \in Seq(AllWalks)
      /\ \A v \in ToSet(walks) : v = w \/ v \in ToSet(Tail(walks))
  BY <1>1, HeadAndTail
<1>3. ToSet(walks') = LinkedTrees(w) \cup ToSet(Tail(walks))
  <2>1. /\ SetToSeq(LinkedTrees(w)) \in Seq(AllWalks)
        /\ ToSet(SetToSeq(LinkedTrees(w))) = LinkedTrees(w)
    <3>1. /\ LinkedTrees(w) \subseteq AllWalks
          /\ SetToSeq(LinkedTrees(w)) \in Seq(LinkedTrees(w))
          /\ ToSet(SetToSeq(LinkedTrees(w))) = LinkedTrees(w)
      BY <1>1, LinkedTreesAre, ListingIs DEF AllWalks
    <3> QED
      BY <3>1, SeqMonotonic
  <2> DEFINE first == SetToSeq(LinkedTrees(w))
             rest == Tail(walks)
  <2>2. walks' = first \o rest /\ rest \in Seq(AllWalks)
    BY <1>1, <1>2
  <2>3. ToSet(first) = LinkedTrees(w) /\ first \in Seq(AllWalks)
    BY <2>1
  <2> HIDE DEF first, rest
  <2>4. ToSet(first \o rest) = ToSet(first) \cup ToSet(rest)
    BY <2>2, <2>3, ConcatIs
  <2> QED
    BY <2>2, <2>3, <2>4 DEF rest
<1>4. ToSet(archive') = ToSet(archive) \cup {EntriesOf(w)}
  <2> DEFINE A == {EntriesOf(v) : v \in AllWalks}
  <2>1. EntriesOf(w) \in A
    BY <1>2
  <2> HIDE DEF A, w
  <2> QED
    BY <1>1, <2>1, AppendIs DEF A, w
<1>5. /\ LinkedDirs' = LinkedDirs /\ ToSet(unnested)' = U
      /\ \A l : FromLink(l)' = FromLink(l) /\ Own(l)' = Own(l)
      /\ \A v : EntriesOf(v)' = EntriesOf(v) /\ LinkedTrees(v)' = LinkedTrees(v)
  BY <1>1, SamePacking DEF Own, Walk, ToSet
<1>6. /\ \A u : OwnArrived(u)' <=> OwnArrived(u)
      /\ \A l : LinkedArrived(l)' <=> LinkedArrived(l)
  <2>1. /\ Links' = Links /\ \A v : Walked(v)' = Walked(v)
        /\ \A v, l : StaysLink(v, l)' <=> StaysLink(v, l)
    BY <1>1, SamePacking
  <2>2. \A p : (FileAt(p)' <=> FileAt(p)) /\ (LinkAt(p)' <=> LinkAt(p))
    BY <1>1 DEF FileAt, LinkAt, IsLink
  <2> QED
    BY <1>1, <1>5, <2>1, <2>2 DEF OwnArrived, LinkedArrived, Place
<1> HIDE DEF w
<1>7. ASSUME NEW l \in LinkedDirs,
             \/ FromLink(l) \in ToSet(walks)
             \/ EntriesOf(FromLink(l)) \in ToSet(archive)
             \/ LinkedArrived(l)
      PROVE  \/ FromLink(l) \in ToSet(walks')
             \/ EntriesOf(FromLink(l)) \in ToSet(archive')
             \/ LinkedArrived(l)
  BY <1>2, <1>3, <1>4, <1>7
<1>8. ASSUME NEW u \in U
      PROVE  \/ Own(u) \in ToSet(walks')
             \/ /\ EntriesOf(Own(u)) \in ToSet(archive') \/ OwnArrived(u)
                /\ \A l \in LinkedDirs :
                     FromLink(l) \in LinkedTrees(Own(u)) =>
                       \/ FromLink(l) \in ToSet(walks')
                       \/ EntriesOf(FromLink(l)) \in ToSet(archive')
                       \/ LinkedArrived(l)
  <2>1. CASE Own(u) = w
    BY <1>3, <1>4, <2>1
  <2>2. CASE Own(u) \in ToSet(Tail(walks))
    BY <1>3, <2>2
  <2>3. CASE Own(u) \notin ToSet(walks)
    <3>1. /\ EntriesOf(Own(u)) \in ToSet(archive) \/ OwnArrived(u)
          /\ \A l \in LinkedDirs :
               FromLink(l) \in LinkedTrees(Own(u)) =>
                 \/ FromLink(l) \in ToSet(walks)
                 \/ EntriesOf(FromLink(l)) \in ToSet(archive)
                 \/ LinkedArrived(l)
      BY <2>3 DEF Delivered
    <3> QED
      BY <1>4, <1>7, <3>1
  <2> QED
    BY <1>2, <2>1, <2>2, <2>3
<1>9. ToSet(walks)' = ToSet(walks') /\ ToSet(archive)' = ToSet(archive')
  BY DEF ToSet
<1> QED
  BY <1>5, <1>6, <1>8, <1>9 DEF Delivered

\* A tree is unpacked.
LEMMA UnpackDelivers ==
  ASSUME NestInv, PackInv, TreeInv, Delivered, Unpack, pc' # "failed"
  PROVE  TreeInv' /\ Delivered'
<1> DEFINE Archives == {EntriesOf(w) : w \in AllWalks}
           U == ToSet(unnested)
<1>1. /\ pc = "unpack" /\ archive # <<>> /\ archive' = Tail(archive)
      /\ UNCHANGED <<repo, unnested, walks>> /\ repo \in Repos
  BY DEF Unpack, finding, NestInv
<1>2. /\ Head(archive) \in Archives /\ archive' \in Seq(Archives)
      /\ \A x \in ToSet(archive) : x = Head(archive) \/ x \in ToSet(archive')
  <2>1. archive \in Seq(Archives)
    BY DEF PackInv
  <2> HIDE DEF Archives
  <2> QED
    BY <1>1, <2>1, HeadAndTail
<1>3. \A w : Head(archive) = EntriesOf(w) => Unpacking(w)
  BY UnpackIs
<1>4. PICK w \in AllWalks : Head(archive) = EntriesOf(w)
  BY <1>2
<1>5. Unpacking(w)
  BY <1>3, <1>4
<1>6. TreeInv'
  BY <1>5, TreeStep
<1>7. /\ \A u \in U : OwnArrived(u) \/ EntriesOf(Own(u)) = Head(archive) => OwnArrived(u)'
      /\ \A l \in LinkedDirs :
           LinkedArrived(l) \/ EntriesOf(FromLink(l)) = Head(archive) => LinkedArrived(l)'
  BY <1>3, <1>5, Kept, OwnArrives, LinkedArrives
<1>8. /\ LinkedDirs' = LinkedDirs /\ ToSet(unnested)' = U
      /\ \A l : FromLink(l)' = FromLink(l) /\ Own(l)' = Own(l)
      /\ \A v : EntriesOf(v)' = EntriesOf(v) /\ LinkedTrees(v)' = LinkedTrees(v)
  BY <1>1, SamePacking DEF Own, Walk, ToSet
<1>9. ToSet(walks) = {} /\ ToSet(walks)' = {} /\ ToSet(archive)' = ToSet(archive')
  <2>1. walks = <<>> /\ DOMAIN <<>> = {}
    BY <1>1 DEF PackInv
  <2> QED
    BY <1>1, <2>1 DEF ToSet
<1>10. ASSUME NEW u \in U
       PROVE  /\ EntriesOf(Own(u)) \in ToSet(archive') \/ OwnArrived(u)'
              /\ \A l \in LinkedDirs :
                   FromLink(l) \in LinkedTrees(Own(u)) =>
                     EntriesOf(FromLink(l)) \in ToSet(archive') \/ LinkedArrived(l)'
  <2>1. /\ EntriesOf(Own(u)) \in ToSet(archive) \/ OwnArrived(u)
        /\ \A l \in LinkedDirs :
             FromLink(l) \in LinkedTrees(Own(u)) =>
               EntriesOf(FromLink(l)) \in ToSet(archive) \/ LinkedArrived(l)
    BY <1>9 DEF Delivered
  <2> QED
    BY <1>2, <1>7, <2>1
<1>11. Delivered'
  BY <1>8, <1>9, <1>10 DEF Delivered
<1> QED
  BY <1>6, <1>11

-----------------------------------------------------------------------------
(* The invariant is one.                                                   *)

LEMMA Nothing ==
  tree = <<>> => TreeInv
<1>1. DOMAIN <<>> = {}
  OBVIOUS
<1> QED
  BY <1>1 DEF TreeInv

\* What has been delivered depends on what is packed and unpacked only.
LEMMA SameDelivery ==
  ASSUME repo' = repo, unnested' = unnested, tree' = tree
  PROVE  /\ TreeInv => TreeInv'
         /\ Delivered /\ walks' = walks /\ archive' = archive => Delivered'
<1>1. /\ Links' = Links /\ LinkedDirs' = LinkedDirs /\ ToSet(unnested)' = ToSet(unnested)
      /\ \A l : FromLink(l)' = FromLink(l) /\ Own(l)' = Own(l)
      /\ \A v : Walked(v)' = Walked(v) /\ EntriesOf(v)' = EntriesOf(v)
      /\ \A v : LinkedTrees(v)' = LinkedTrees(v)
      /\ \A v, l : StaysLink(v, l)' <=> StaysLink(v, l)
  BY SamePacking DEF Own, Walk, ToSet
<1>2. \A p : /\ (IsLink(p)' <=> IsLink(p)) /\ (FileAt(p)' <=> FileAt(p))
             /\ (LinkAt(p)' <=> LinkAt(p))
  BY DEF FileAt, LinkAt, IsLink
<1>3. \A u : OwnArrived(u)' <=> OwnArrived(u)
  <2>1. \A p : FileAt(repo.links[p])' <=> FileAt(repo.links[p])
    BY DEF FileAt
  <2> QED
    BY <1>1, <1>2, <2>1 DEF OwnArrived
<1>4. \A l : LinkedArrived(l)' <=> LinkedArrived(l)
  BY <1>1, <1>2 DEF LinkedArrived, Place
<1>5. \A q : /\ InOwnTree(q)' <=> InOwnTree(q)
             /\ InLinkedTree(q)' <=> InLinkedTree(q)
             /\ BehindLink(q)' <=> BehindLink(q)
  BY <1>1 DEF InOwnTree, InLinkedTree, BehindLink
<1>6. \A q : AtLink(q) => AtLink(q)'
  BY <1>1, <1>2 DEF AtLink, Place
<1>7. TreeInv => TreeInv'
  BY <1>1, <1>2, <1>5, <1>6 DEF TreeInv
<1>8. Delivered /\ walks' = walks /\ archive' = archive => Delivered'
  <2>1. /\ walks' = walks => ToSet(walks)' = ToSet(walks)
        /\ archive' = archive => ToSet(archive)' = ToSet(archive)
    BY DEF ToSet
  <2> QED
    BY <1>1, <1>3, <1>4, <2>1 DEF Delivered
<1> QED
  BY <1>7, <1>8

LEMMA IInvInit ==
  ASSUME Init
  PROVE  IInv
<1>1. tree = <<>> /\ pc = "walk"
  BY DEF Init
<1> QED
  BY <1>1, NestInit, PackInit, Nothing DEF IInv

LEMMA IInvNext ==
  ASSUME IInv, [Next]_vars
  PROVE  IInv'
<1>1. NestInv /\ PackInv /\ NestInv' /\ PackInv'
  BY NestNext, PackNext DEF IInv
<1>2. SUFFICES TreeInv' /\ (pc' \in {"pack", "unpack", "done"} => Delivered')
  BY <1>1 DEF IInv
<1>3. tree' = <<>> => TreeInv'
  <2>1. DOMAIN <<>> = {}
    OBVIOUS
  <2> QED
    BY <2>1 DEF TreeInv
<1>4. CASE FindModule \/ LeaveModule \/ RemoveNestedPath
  <2>1. /\ pc \in {"walk", "nest"} /\ tree' = tree /\ pc' \notin {"pack", "unpack", "done"}
    BY <1>4 DEF FindModule, LeaveModule, RemoveNestedPath, packing
  <2> QED
    BY <1>1, <1>3, <2>1 DEF PackInv
<1>5. CASE StartPack
  <2>1. /\ pc = "nest" /\ tree' = tree /\ UNCHANGED <<repo, unnested>>
        /\ walks' = [i \in DOMAIN unnested |-> Own(unnested[i])]
    BY <1>5 DEF StartPack, finding, Own
  <2>2. TreeInv'
    BY <1>1, <1>3, <2>1 DEF PackInv
  <2>3. Delivered'
    <3>1. \A u \in ToSet(unnested) : Own(u) \in ToSet(walks')
      BY <2>1 DEF ToSet
    <3>2. ToSet(unnested)' = ToSet(unnested) /\ \A u : Own(u)' = Own(u)
      BY <2>1 DEF ToSet, Own, Walk
    <3>3. ToSet(walks)' = ToSet(walks')
      BY DEF ToSet
    <3> QED
      BY <3>1, <3>2, <3>3 DEF Delivered
  <2> QED
    BY <2>2, <2>3
<1>6. CASE Pack
  <2>1. pc = "pack" /\ tree' = tree /\ UNCHANGED <<repo, mods>>
    BY <1>6 DEF Pack, finding
  <2>2. Delivered
    BY <2>1 DEF IInv
  <2> QED
    BY <1>1, <1>3, <1>6, <2>1, <2>2, PackDelivers DEF PackInv
<1>7. CASE Unpack
  <2>1. pc = "unpack" /\ UNCHANGED <<repo, mods, unnested>>
    BY <1>7 DEF Unpack, finding
  <2>2. TreeInv /\ Delivered
    BY <2>1 DEF IInv
  <2>3. CASE pc' # "failed"
    BY <1>1, <1>7, <2>2, <2>3, UnpackDelivers
  <2>4. CASE pc' = "failed"
    <3>1. tree' = tree
      BY <1>7, <2>1, <2>4 DEF Unpack
    <3> QED
      BY <2>1, <2>2, <2>4, <3>1, SameDelivery
  <2> QED
    BY <2>3, <2>4
<1>8. CASE FinishPack \/ FinishUnpack \/ UNCHANGED vars
  <2>1. /\ UNCHANGED <<repo, mods, unnested, walks, archive, tree>>
        /\ pc' \in {"pack", "unpack", "done"} => pc \in {"pack", "unpack", "done"}
    BY <1>8 DEF FinishPack, FinishUnpack, finding, packing, vars
  <2> QED
    BY <2>1, SameDelivery DEF IInv
<1> QED
  BY <1>4, <1>5, <1>6, <1>7, <1>8 DEF Next

LEMMA Invariant ==
  Spec => []IInv
<1>1. Init => IInv
  BY IInvInit
<1>2. IInv /\ [Next]_vars => IInv'
  BY IInvNext
<1> QED
  BY <1>1, <1>2, PTL DEF Spec

-----------------------------------------------------------------------------
(* What the pod finds.                                                     *)

\* At the end every tree has arrived.
LEMMA AllHasArrived ==
  ASSUME IInv, pc = "done"
  PROVE  /\ NestInv /\ TreeInv /\ Found = Modules /\ repo \in Repos
         /\ \A u \in ToSet(unnested) : OwnArrived(u) /\
              \A l \in LinkedDirs :
                FromLink(l) \in LinkedTrees(Own(u)) => LinkedArrived(l)
<1>1. NestInv /\ TreeInv /\ Delivered /\ walks = <<>> /\ archive = <<>> /\ nested = Len(mods)
  BY DEF IInv, PackInv, NestInv
<1>2. ToSet(walks) = {} /\ ToSet(archive) = {}
  <2>1. DOMAIN <<>> = {}
    OBVIOUS
  <2> QED
    BY <1>1, <2>1 DEF ToSet
<1>3. Found = Modules /\ repo \in Repos
  BY <1>1, FoundAreModules DEF NestInv
<1> QED
  BY <1>1, <1>2, <1>3 DEF Delivered

LEMMA InvImpliesModulesArrive ==
  IInv => ModulesArrive
<1>1. SUFFICES ASSUME IInv, pc = "done", NEW m \in Modules, NEW f \in Files,
                      Under(f, m), ~Lost(m), ~ToBeIgnored(f)
               PROVE  FileAt(f)
  BY DEF ModulesArrive, FileAt
<1>2. /\ NestInv /\ Found = Modules /\ repo \in Repos
      /\ \A u \in ToSet(unnested) : OwnArrived(u)
  BY <1>1, AllHasArrived
<1>3. PICK u \in ToSet(unnested) : Under(m, u)
  BY <1>1, <1>2 DEF NestInv
<1>4. m \in Path /\ u \in Path /\ f \in Path /\ f \in Paths /\ f \notin Dirs /\ f # Base
  BY <1>2, OwnWalked, FoundAreModules, AllArePaths DEF Paths, AllPaths
<1>5. f \in Walked(Own(u))
  <2>1. Under(f, u)
    BY <1>1, <1>3, <1>4, UnderOrders
  <2>2. ~Ignored(f)
    BY <1>1, <1>2, <1>4, IgnoredIs
  <2> QED
    BY <1>2, <1>4, <2>1, <2>2, OwnWalked
<1> QED
  BY <1>2, <1>5 DEF OwnArrived

LEMMA InvImpliesNothingElseArrives ==
  IInv => NothingElseArrives
<1>1. SUFFICES ASSUME IInv, pc = "done", NEW f \in DOMAIN tree \cap Files
               PROVE  /\ ~ToBeIgnored(f) \/ \E l \in Links : repo.links[l] = f
                      /\ \/ \E m \in Modules : Under(f, m)
                         \/ \E l \in Links : Under(f, repo.links[l])
  BY DEF NothingElseArrives
<1>2. NestInv /\ TreeInv /\ repo \in Repos
  BY <1>1, AllHasArrived
<1>3. f \in Path /\ f \notin Dirs /\ Under(f, f)
  BY AllArePaths, UnderOrders DEF AllPaths
<1>4. CASE InOwnTree(f)
  <2>1. PICK u \in ToSet(unnested) : f \in Walked(Own(u))
    BY <1>4 DEF InOwnTree
  <2>2. u \in Modules /\ Under(f, u) /\ ~Ignored(f)
    BY <1>2, <2>1, OwnWalked
  <2> QED
    BY <1>2, <1>3, <2>2, IgnoredIs
<1>5. CASE BehindLink(f)
  BY <1>3, <1>5 DEF BehindLink
<1>6. CASE InLinkedTree(f)
  <2>1. PICK l \in LinkedDirs : f \in Walked(FromLink(l))
    BY <1>6 DEF InLinkedTree
  <2>2. l \in Links /\ Under(f, repo.links[l]) /\ ~Ignored(f)
    BY <1>2, <2>1, LinkedWalked
  <2> QED
    BY <1>2, <1>3, <2>2, IgnoredIs
<1> QED
  BY <1>1, <1>2, <1>4, <1>5, <1>6 DEF TreeInv

LEMMA InvImpliesLinksLeadToTheSame ==
  IInv => LinksLeadToTheSame
<1>1. SUFFICES ASSUME IInv, pc = "done",
                      NEW m \in Modules, NEW l \in Links, NEW f \in Files,
                      Under(l, m), Under(f, repo.links[l]), ~ToBeIgnored(f), ~ToBeIgnored(l),
                      ~Lost(m), ~Mistaken(l)
               PROVE  \/ FileAt(l \o Rest(f, repo.links[l]))
                      \/ IsLink(l) /\ tree[l].leadsTo \o Rest(f, repo.links[l]) \in DOMAIN tree
  BY DEF LinksLeadToTheSame, FileAt
<1> DEFINE target == repo.links[l]
<1>2. /\ NestInv /\ Found = Modules /\ repo \in Repos
      /\ \A u \in ToSet(unnested) : OwnArrived(u) /\
           \A k \in LinkedDirs : FromLink(k) \in LinkedTrees(Own(u)) => LinkedArrived(k)
  BY <1>1, AllHasArrived
<1>3. PICK u \in ToSet(unnested) : Under(m, u)
  BY <1>1, <1>2 DEF NestInv
<1>4. /\ m \in Path /\ u \in Path /\ f \in Path /\ l \in Path /\ target \in Path
      /\ f \in Paths /\ l \in Paths /\ f \notin Dirs /\ f # Base /\ l \notin Dirs /\ l # Base
      /\ target \in Dirs \cup Files /\ f \in AllPaths /\ target \in AllPaths
  BY <1>2, OwnWalked, FoundAreModules, AllArePaths, RepoIs DEF Paths, AllPaths
<1>5. ~Ignored(f) /\ ~Ignored(l)
  BY <1>1, <1>2, <1>4, IgnoredIs
<1>6. l \in Walked(Own(u))
  <2>1. Under(l, u)
    BY <1>1, <1>3, <1>4, UnderOrders
  <2> QED
    BY <1>2, <1>4, <1>5, <2>1, OwnWalked
<1>7. CASE StaysLink(Own(u), l)
  <2>1. LinkAt(l)
    BY <1>2, <1>6, <1>7 DEF OwnArrived
  <2>2. Under(target, u)
    <3>1. Within(target, u) /\ u \in Modules /\ Under(l, u)
      BY <1>2, <1>6, <1>7, OwnWalked DEF StaysLink, Own, Walk
    <3> QED
      BY <1>1, <3>1 DEF Mistaken
  <2>3. f \in Walked(Own(u))
    <3>1. Under(f, u)
      BY <1>1, <1>4, <2>2, UnderOrders
    <3> QED
      BY <1>2, <1>4, <1>5, <3>1, OwnWalked
  <2>4. f \in DOMAIN tree
    BY <1>2, <2>3 DEF OwnArrived, FileAt
  <2>5. target \o Rest(f, target) = f
    <3>1. Under(f, target)
      BY <1>1
    <3> HIDE DEF target
    <3> QED
      BY <1>4, <3>1, Moved
  <2> QED
    BY <2>1, <2>4, <2>5 DEF LinkAt
<1>8. CASE ~StaysLink(Own(u), l) /\ target \in Files
  <2>1. f = target
    BY <1>1, <1>4, <1>8, NothingUnder, AllArePaths
  <2>2. l \o Rest(f, target) = l
    <3>1. Under(f, target)
      BY <1>1
    <3> HIDE DEF target
    <3> QED
      BY <1>4, <2>1, <3>1, Moved
  <2>3. FileAt(l) \/ (LinkAt(l) /\ FileAt(target))
    BY <1>1, <1>2, <1>6, <1>8 DEF OwnArrived
  <2>4. target \o Rest(f, target) = f
    <3>1. Under(f, target)
      BY <1>1
    <3> HIDE DEF target
    <3> QED
      BY <1>4, <3>1, Moved
  <2> QED
    BY <2>1, <2>2, <2>3, <2>4 DEF LinkAt, FileAt
<1>9. CASE ~StaysLink(Own(u), l) /\ target \in Dirs
  <2>1. l \in LinkedDirs
    BY <1>1, <1>9 DEF LinkedDirs
  <2>2. FromLink(l) \in LinkedTrees(Own(u))
    BY <1>1, <1>6, <1>9, WalkedLinks DEF FromLink
  <2>3. LinkedArrived(l)
    BY <1>2, <2>1, <2>2
  <2> DEFINE x == l \o Rest(f, target)
  <2>4. Place(FromLink(l), f) = x
    BY DEF Place, FromLink, Walk
  <2>5. x # Base
    <3>1. Under(x, l)
      <4>1. Under(f, target)
        BY <1>1
      <4> HIDE DEF target
      <4> QED
        BY <1>4, <4>1, Moved
    <3>2. Base \in AllPaths
      BY AllArePaths DEF AllPaths
    <3> QED
      BY <1>2, <1>4, <3>1, <3>2, OnlyTheLink
  <2>6. f \in Walked(FromLink(l))
    <3>1. FromLink(l).src = target
      BY DEF FromLink, Walk
    <3> QED
      BY <1>1, <1>4, <1>5, <2>4, <2>5, <3>1 DEF Walked, InTree
  <2>7. FileAt(x) \/ (LinkAt(l) /\ FileAt(f))
    BY <2>3, <2>4, <2>6 DEF LinkedArrived
  <2>8. target \o Rest(f, target) = f
    <3>1. Under(f, target)
      BY <1>1
    <3> HIDE DEF target
    <3> QED
      BY <1>4, <3>1, Moved
  <2> QED
    BY <2>7, <2>8 DEF LinkAt, FileAt
<1> QED
  BY <1>4, <1>7, <1>8, <1>9

\* Whatever calls whatever, and whatever the links, the trees and the rules are: every
\* file of every module that is not to be ignored arrives where it belongs
\* (RemoveNestedPaths, Pack, Unpack), unless the name of a module goes on from another's.
THEOREM Arrive ==
  Spec => []ModulesArrive
<1>1. IInv => ModulesArrive
  BY InvImpliesModulesArrive
<1> QED
  BY <1>1, Invariant, PTL

\* Nothing arrives that is to be ignored, or that is in no module, but what a link leads
\* to (packWalkFn, ruleMatcher).
THEOREM NothingElse ==
  Spec => []NothingElseArrives
<1>1. IInv => NothingElseArrives
  BY InvImpliesNothingElseArrives
<1> QED
  BY <1>1, Invariant, PTL

\* Every file that a link of a module leads to can be read by the link in the pod, whether
\* it has stayed one or not (the cases of packWalkFn).
THEOREM LinksLead ==
  Spec => []LinksLeadToTheSame
<1>1. IInv => LinksLeadToTheSame
  BY InvImpliesLinksLeadToTheSame
<1> QED
  BY <1>1, Invariant, PTL

-----------------------------------------------------------------------------
(* Unpacking succeeds where the trees behind links have no links.          *)

\* What is packed at first: only the trees of the modules have links in them.
LEMMA FirstWalkIs ==
  ASSUME NestInv, ~LinksBehindLinks, NEW w \in FirstWalks
  PROVE  \/ \E u \in ToSet(unnested) : w = Own(u)
         \/ /\ \E u \in ToSet(unnested), l \in LinkedDirs :
                 w = FromLink(l) /\ l \in Walked(Own(u)) /\ ~StaysLink(Own(u), l)
            /\ Walked(w) \cap Links = {} /\ LinkedTrees(w) = {}
            /\ LinksOf(EntriesOf(w)) = {}
<1>1. SUFFICES ASSUME NEW u \in ToSet(unnested), w \in LinkedTrees(Own(u))
               PROVE  /\ \E l \in LinkedDirs :
                           w = FromLink(l) /\ l \in Walked(Own(u)) /\ ~StaysLink(Own(u), l)
                      /\ Walked(w) \cap Links = {} /\ LinkedTrees(w) = {}
                      /\ LinksOf(EntriesOf(w)) = {}
  BY DEF FirstWalks
<1>2. \E l \in LinkedDirs :
        w = FromLink(l) /\ l \in Walked(Own(u)) /\ ~StaysLink(Own(u), l)
  BY <1>1, WalkedLinks DEF FromLink, LinkedDirs
<1>3. Walked(w) \cap Links = {}
  BY <1>1 DEF LinksBehindLinks, Own
<1>4. LinkedTrees(w) = {}
  BY <1>3, WalkedLinks
<1>5. ASSUME NEW e \in EntriesOf(w) PROVE e.kind # "link"
  <2>1. PICK p \in Walked(w) : e = Entry(w, p)
    BY DEF EntriesOf
  <2>2. p \in Paths
    BY DEF Walked, InTree
  <2> QED
    BY <1>3, <2>1, <2>2, EntryIs DEF NestInv
<1> QED
  BY <1>2, <1>3, <1>4, <1>5 DEF LinksOf

\* Where a link is that stays one in the tree of its module, and under that, nothing is
\* packed but this link.
LEMMA OnlyThatLink ==
  ASSUME NestInv, ~LinksBehindLinks, NEW u \in ToSet(unnested), NEW y \in Staying(u),
         NEW w \in FirstWalks, NEW e \in EntriesOf(w), Under(e.path, y)
  PROVE  e.path = y /\ e.kind = "link" /\ w = Own(u)
<1>1. /\ y \in Links /\ y \in Walked(Own(u)) /\ StaysLink(Own(u), y)
      /\ Under(y, u) /\ y \in Paths /\ y \in AllPaths /\ y \in Path
  BY OwnWalked, RepoIs DEF Staying, NestInv
<1>2. PICK p \in Walked(w) : e = Entry(w, p)
  BY DEF EntriesOf
<1>3. p \in Paths
  BY DEF Walked, InTree
<1>4. e.path = Place(w, p) /\ (e.kind = "link" <=> p \in Links /\ StaysLink(w, p))
  BY <1>2, <1>3, EntryIs DEF NestInv
<1>5. CASE \E v \in ToSet(unnested) : w = Own(v)
  <2>1. PICK v \in ToSet(unnested) : w = Own(v)
    BY <1>5
  <2>2. Under(p, v) /\ e.path = p /\ p \in AllPaths
    BY <1>2, <1>3, <1>4, <2>1, OwnWalked, RepoIs DEF NestInv
  <2>3. p = y
    BY <1>1, <2>2, OnlyTheLink
  <2>4. u = v
    BY <1>1, <2>2, <2>3, OneTree
  <2> QED
    BY <1>1, <1>4, <2>1, <2>2, <2>3, <2>4
<1>6. CASE \E v \in ToSet(unnested), l \in LinkedDirs :
             w = FromLink(l) /\ l \in Walked(Own(v)) /\ ~StaysLink(Own(v), l)
  <2>1. PICK v \in ToSet(unnested), l \in LinkedDirs :
               w = FromLink(l) /\ l \in Walked(Own(v)) /\ ~StaysLink(Own(v), l)
    BY <1>6
  <2>2. /\ l \in Links /\ l \in Path /\ l \in AllPaths /\ e.path \in Path
        /\ Under(e.path, l)
    BY <1>2, <1>4, <2>1, LinkedWalked, RepoIs DEF NestInv, AllPaths
  <2>3. Under(l, y) \/ Under(y, l)
    BY <1>1, <2>2, UnderOrders
  <2>4. l = y
    BY <1>1, <2>2, <2>3, OnlyTheLink
  <2>5. Under(l, v)
    BY <2>1, OwnWalked
  <2>6. u = v
    BY <1>1, <2>4, <2>5, OneTree
  <2> QED
    BY <1>1, <2>1, <2>4, <2>6
<1> QED
  BY <1>5, <1>6, FirstWalkIs

\* The links in a batch are of one module.
LEMMA LinksAre ==
  ASSUME NestInv, ~LinksBehindLinks, NEW w \in FirstWalks, NEW e \in EntriesOf(w),
         e.kind = "link"
  PROVE  \E u \in ToSet(unnested) : w = Own(u) /\ e.path \in Staying(u)
<1>1. e.path \in LinksOf(EntriesOf(w))
  BY DEF LinksOf
<1>2. PICK u \in ToSet(unnested) : w = Own(u)
  BY <1>1, FirstWalkIs
<1>3. PICK p \in Walked(w) : e = Entry(w, p)
  BY DEF EntriesOf
<1>4. p \in Paths /\ Under(p, u) /\ Place(Own(u), p) = p
  BY <1>2, <1>3, OwnWalked
<1>5. e.path = p /\ p \in Links /\ StaysLink(Own(u), p)
  BY <1>2, <1>3, <1>4, EntryIs DEF NestInv
<1> QED
  BY <1>2, <1>3, <1>5 DEF Staying

\* Modules have no links in common.
LEMMA OwnApart ==
  ASSUME NestInv, ~LinksBehindLinks, NEW u \in ToSet(unnested), NEW v \in ToSet(unnested),
         u # v
  PROVE  Apart(EntriesOf(Own(u)), EntriesOf(Own(v)))
<1>1. SUFFICES ASSUME NEW d \in EntriesOf(Own(u)), NEW e \in EntriesOf(Own(v)),
                      d.kind = "link", e.kind = "link", d.path = e.path
               PROVE  FALSE
  BY DEF Apart, LinksOf
<1>2. Own(u) \in FirstWalks /\ Own(v) \in FirstWalks
  BY DEF FirstWalks
<1>3. PICK t \in ToSet(unnested) : Own(u) = Own(t) /\ d.path \in Staying(t)
  BY <1>1, <1>2, LinksAre
<1>4. e.path \in Staying(u)
  BY <1>1, <1>3 DEF Own, Walk
<1>5. Under(e.path, e.path)
  BY DEF Under, IsPrefix
<1>6. Own(v) = Own(u)
  BY <1>2, <1>4, <1>5, OnlyThatLink
<1> QED
  BY <1>6 DEF Own, Walk

\* The next tree can be unpacked, and is beside the links that are still to come.
LEMMA NextTree ==
  ASSUME NestInv, OrderInv, Plain, pc = "unpack", archive # <<>>
  PROVE  \E w \in FirstWalks :
           /\ Head(archive) = EntriesOf(w)
           /\ \A e \in EntriesOf(w) :
                /\ CanUnpack(e) /\ Target(e) = e.path
                /\ e.kind = "link" => \E u \in ToSet(unnested) : e.path \in Staying(u)
                /\ \A i \in 1..Len(archive) - 1 : \A y \in LinksOf(archive[i + 1]) :
                     ~Under(e.path, y)
<1> DEFINE B == {EntriesOf(w) : w \in FirstWalks}
           n == Len(archive)
<1>1. /\ archive \in Seq(B) /\ ~LinksBehindLinks
      /\ \A i, j \in 1..n : i # j => Apart(archive[i], archive[j])
      /\ \A i \in 1..n : \A y \in LinksOf(archive[i]) : \A q \in DOMAIN tree : ~Under(q, y)
      /\ \A q \in DOMAIN tree : IsLink(q) => \E u \in ToSet(unnested) : q \in Staying(u)
  BY DEF OrderInv, Plain
<1>2. n \in Nat \ {0} /\ Head(archive) = archive[1] /\ Head(archive) \in B
  <2> HIDE DEF B
  <2> QED
    BY <1>1, HeadAndTail
<1>3. 1 \in 1..n /\ \A i \in 1..n - 1 : i + 1 \in 1..n /\ i + 1 # 1
  BY <1>2
<1>4. PICK w \in FirstWalks : Head(archive) = EntriesOf(w)
  BY <1>2
<1>5. ASSUME NEW e \in EntriesOf(w)
      PROVE  /\ CanUnpack(e) /\ Target(e) = e.path
             /\ e.kind = "link" => \E u \in ToSet(unnested) : e.path \in Staying(u)
             /\ \A i \in 1..n - 1 : \A y \in LinksOf(archive[i + 1]) : ~Under(e.path, y)
  <2>1. e.kind = "link" => /\ \E u \in ToSet(unnested) : e.path \in Staying(u)
                           /\ e.path \in LinksOf(archive[1])
    BY <1>1, <1>2, <1>4, LinksAre DEF LinksOf
  <2>2. ASSUME NEW y, IsLink(y), Under(e.path, y)
        PROVE  e.path = y /\ e.kind = "link"
    <3>1. y \in DOMAIN tree
      BY <2>2 DEF IsLink
    <3>2. PICK u \in ToSet(unnested) : y \in Staying(u)
      BY <1>1, <2>2, <3>1
    <3> QED
      BY <1>1, <2>2, <3>2, OnlyThatLink
  <2>3. e.kind = "link" => \A q \in DOMAIN tree : ~Under(q, e.path)
    BY <1>1, <1>3, <2>1
  <2>4. Under(e.path, e.path)
    BY DEF Under, IsPrefix
  <2>5. ~IsLink(e.path)
    BY <2>2, <2>3, <2>4 DEF IsLink
  <2>6. Above(e.path) = {}
    BY <2>2 DEF Above
  <2>7. Through(e.path) = e.path
    BY <2>6 DEF Through
  <2>8. Target(e) = e.path
    BY <2>5, <2>7 DEF Target
  <2>9. CanUnpack(e)
    BY <2>3, <2>6, <2>7, <2>8 DEF CanUnpack, Exists
  <2>10. ASSUME NEW i \in 1..n - 1, NEW y \in LinksOf(archive[i + 1]), Under(e.path, y)
         PROVE  FALSE
    <3>1. i + 1 \in 1..n /\ i + 1 # 1
      BY <1>3
    <3>2. archive[i + 1] \in B
      <4> HIDE DEF B
      <4> QED
        BY <1>1, <3>1, ElementOfSeq
    <3>3. PICK v \in FirstWalks : archive[i + 1] = EntriesOf(v)
      BY <3>2
    <3>4. PICK d \in EntriesOf(v) : d.kind = "link" /\ d.path = y
      BY <3>3 DEF LinksOf
    <3>5. PICK u \in ToSet(unnested) : y \in Staying(u)
      BY <1>1, <3>4, LinksAre
    <3>6. e.path = y /\ e.kind = "link"
      BY <1>1, <2>10, <3>5, OnlyThatLink
    <3>7. y \in LinksOf(archive[1])
      BY <2>1, <3>6
    <3>8. Apart(archive[1], archive[i + 1])
      BY <1>1, <1>3, <3>1
    <3> QED
      BY <2>10, <3>7, <3>8 DEF Apart
  <2> QED
    BY <2>1, <2>8, <2>9, <2>10
<1> QED
  BY <1>4, <1>5

\* What there is in the modules, when nothing but the archive changes.
LEMMA SameOrder ==
  ASSUME UNCHANGED <<repo, mods, unnested>>
  PROVE  /\ Plain' <=> Plain
         /\ FirstWalks' = FirstWalks
         /\ \A w : EntriesOf(w)' = EntriesOf(w)
         /\ \A u : Staying(u)' = Staying(u)
<1>1. /\ Links' = Links
      /\ \A w, l : StaysLink(w, l)' <=> StaysLink(w, l)
      /\ \A w : Walked(w)' = Walked(w)
      /\ \A w : LinkedTrees(w)' = LinkedTrees(w)
      /\ \A w : EntriesOf(w)' = EntriesOf(w)
  BY SamePacking
<1>2. LinksBehindLinks' <=> LinksBehindLinks
  BY <1>1 DEF LinksBehindLinks, Walk
<1>3. FirstWalks' = FirstWalks
  BY <1>1 DEF FirstWalks, Own, Walk
<1>4. \A u : Staying(u)' = Staying(u)
  BY <1>1 DEF Staying, Own, Walk
<1>5. Plain' <=> Plain
  BY <1>2 DEF Plain, Distinct
<1> QED
  BY <1>1, <1>3, <1>4, <1>5

\* What is packed next, and what comes after that.
LEMMA OrderPack ==
  ASSUME NestInv, PackInv, OrderInv, Plain, Pack
  PROVE  OrderInv'
<1> DEFINE w == Head(walks)
           rest == Tail(walks)
           t == SetToSeq(LinkedTrees(w))
           B == {EntriesOf(x) : x \in FirstWalks}
           n == Len(archive)
           k == Len(walks)
           m == Len(t)
<1>1. /\ pc = "pack" /\ pc' \in {"pack", "refused"} /\ walks # <<>>
      /\ archive' = Append(archive, EntriesOf(w)) /\ walks' = t \o rest
      /\ UNCHANGED <<repo, mods, unnested>>
  BY DEF Pack, finding
<1>2. /\ walks \in Seq(FirstWalks) /\ ~LinksBehindLinks
      /\ \A i, j \in 1..k : i # j => Apart(EntriesOf(walks[i]), EntriesOf(walks[j]))
      /\ \A i \in 1..n, j \in 1..k : Apart(archive[i], EntriesOf(walks[j]))
      /\ archive \in Seq(B)
      /\ \A i, j \in 1..n : i # j => Apart(archive[i], archive[j])
  BY <1>1 DEF OrderInv, Plain
<1>3. /\ w \in FirstWalks /\ rest \in Seq(FirstWalks) /\ k \in Nat \ {0}
      /\ Len(rest) = k - 1 /\ w = walks[1]
      /\ \A i \in 1..k - 1 : rest[i] = walks[i + 1]
  BY <1>1, <1>2, HeadAndTail
<1>4. /\ t \in Seq(LinkedTrees(w)) /\ m \in Nat
  <2>1. IsFiniteSet(LinkedTrees(w))
    BY LinkedTreesAre DEF NestInv
  <2> DEFINE T == LinkedTrees(w)
  <2>2. SetToSeq(T) \in Seq(T)
    <3> HIDE DEF T
    <3> QED
      BY <2>1, ListingIs DEF T
  <2> HIDE DEF T
  <2>3. Len(SetToSeq(T)) \in Nat
    BY <2>2, LenProperties
  <2> QED
    BY <2>2, <2>3 DEF T
<1>5. ASSUME NEW x \in LinkedTrees(w)
      PROVE  x \in FirstWalks /\ LinksOf(EntriesOf(x)) = {}
  <2> HIDE DEF w
  <2>1. PICK u \in ToSet(unnested) : w = Own(u)
    BY <1>2, <1>3, <1>5, FirstWalkIs
  <2>2. x \in FirstWalks
    BY <1>5, <2>1 DEF FirstWalks
  <2>3. PICK l \in LinkedDirs : x = FromLink(l)
    BY <1>5, LinkedTreesAre DEF NestInv
  <2>4. \A v : x # Own(v) \/ v \in Links
    BY <2>3 DEF FromLink, Own, Walk, LinkedDirs
  <2>5. \A v \in ToSet(unnested) : v \notin Links
    BY FoundAreModules, RepoIs DEF NestInv
  <2> QED
    BY <1>2, <2>2, <2>4, <2>5, FirstWalkIs
<1> HIDE DEF w, rest, t, B, n, k, m
<1>6. /\ t \o rest \in Seq(FirstWalks) /\ Len(t \o rest) = m + (k - 1)
      /\ \A i \in 1..m + (k - 1) :
           (t \o rest)[i] = IF i <= m THEN t[i] ELSE rest[i - m]
  <2>1. t \in Seq(FirstWalks)
    <3>1. LinkedTrees(w) \subseteq FirstWalks
      BY <1>5
    <3> QED
      BY <1>4, <3>1
  <2> QED
    BY <1>3, <2>1, ConcatProperties DEF m
<1>7. ASSUME NEW i \in 1..m + (k - 1)
      PROVE  \/ LinksOf(EntriesOf(walks'[i])) = {}
             \/ /\ i - m + 1 \in 1..k /\ i - m + 1 # 1
                /\ walks'[i] = walks[i - m + 1]
  <2>1. CASE i <= m
    <3>1. i \in 1..m
      BY <1>4, <2>1
    <3>2. t[i] \in LinkedTrees(w)
      BY <1>4, <3>1, ElementOfSeq DEF m
    <3> QED
      BY <1>1, <1>5, <1>6, <2>1, <3>2
  <2>2. CASE ~(i <= m)
    <3>1. i - m \in 1..k - 1 /\ i - m + 1 \in 1..k /\ i - m + 1 # 1
      BY <1>3, <1>4, <2>2
    <3> QED
      BY <1>1, <1>3, <1>6, <2>2, <3>1
  <2> QED
    BY <2>1, <2>2
<1>8. /\ archive' \in Seq(B) /\ Len(archive') = n + 1 /\ n \in Nat
      /\ archive'[n + 1] = EntriesOf(w)
      /\ \A i \in 1..n : archive'[i] = archive[i]
  <2>1. EntriesOf(w) \in B
    BY <1>3 DEF B
  <2> QED
    BY <1>1, <1>2, <2>1, AppendProperties, LenProperties DEF n
<1>9. ASSUME NEW i \in 1..m + (k - 1), NEW j \in 1..m + (k - 1), i # j
      PROVE  Apart(EntriesOf(walks'[i]), EntriesOf(walks'[j]))
  <2>1. i - m + 1 # j - m + 1
    BY <1>3, <1>4, <1>9
  <2> QED
    BY <1>2, <1>7, <2>1 DEF Apart
<1>10. 1 \in 1..k
  BY <1>3
<1>11. ASSUME NEW i \in 1..n + 1, NEW j \in 1..m + (k - 1)
       PROVE  Apart(archive'[i], EntriesOf(walks'[j]))
  <2>1. i \in 1..n \/ i = n + 1
    BY <1>8
  <2> QED
    BY <1>2, <1>3, <1>7, <1>8, <1>10, <2>1 DEF Apart
<1>12. ASSUME NEW i \in 1..n + 1, NEW j \in 1..n + 1, i # j
       PROVE  Apart(archive'[i], archive'[j])
  <2>1. CASE i \in 1..n /\ j \in 1..n
    BY <1>2, <1>8, <1>12, <2>1 DEF Apart
  <2>2. CASE i = n + 1 /\ j \in 1..n
    BY <1>2, <1>3, <1>8, <1>10, <2>2 DEF Apart
  <2>3. CASE i \in 1..n /\ j = n + 1
    BY <1>2, <1>3, <1>8, <1>10, <2>3 DEF Apart
  <2>4. (i \in 1..n \/ i = n + 1) /\ (j \in 1..n \/ j = n + 1)
    BY <1>8
  <2> QED
    BY <1>12, <2>1, <2>2, <2>3, <2>4
<1>13. /\ FirstWalks' = FirstWalks /\ \A x : EntriesOf(x)' = EntriesOf(x)
  BY <1>1, SameOrder
<1>14. walks' \in Seq(FirstWalks) /\ Len(walks') = m + (k - 1)
  BY <1>1, <1>6
<1>15. pc' # "failed" /\ pc' # "unpack"
  BY <1>1
<1>16. (archive \in Seq({EntriesOf(x) : x \in FirstWalks}))'
  BY <1>8, <1>13 DEF B
<1> QED
  BY <1>8, <1>9, <1>11, <1>12, <1>13, <1>14, <1>15, <1>16 DEF OrderInv, Apart, LinksOf

\* A tree is unpacked, and is beside the links that are still to come.
LEMMA OrderUnpack ==
  ASSUME NestInv, PackInv, OrderInv, Plain, Unpack
  PROVE  OrderInv'
<1> DEFINE B == {EntriesOf(x) : x \in FirstWalks}
           n == Len(archive)
<1>1. /\ pc = "unpack" /\ archive # <<>> /\ archive' = Tail(archive)
      /\ UNCHANGED <<repo, mods, unnested>>
  BY DEF Unpack, finding
<1>2. PICK w \in FirstWalks :
        /\ Head(archive) = EntriesOf(w)
        /\ \A e \in EntriesOf(w) :
             /\ CanUnpack(e) /\ Target(e) = e.path
             /\ e.kind = "link" => \E u \in ToSet(unnested) : e.path \in Staying(u)
             /\ \A i \in 1..Len(archive) - 1 : \A y \in LinksOf(archive[i + 1]) :
                  ~Under(e.path, y)
  BY <1>1, NextTree
<1>3. pc' = "unpack"
  BY <1>1, <1>2 DEF Unpack
<1>4. Unpacking(w)
  BY <1>2, <1>3, UnpackIs
<1>5. /\ archive \in Seq(B)
      /\ \A i, j \in 1..n : i # j => Apart(archive[i], archive[j])
      /\ \A i \in 1..n : \A y \in LinksOf(archive[i]) : \A q \in DOMAIN tree : ~Under(q, y)
      /\ \A q \in DOMAIN tree : IsLink(q) => \E u \in ToSet(unnested) : q \in Staying(u)
  BY <1>1 DEF OrderInv
<1>6. /\ archive' \in Seq(B) /\ Len(archive') = n - 1 /\ n \in Nat \ {0}
      /\ \A i \in 1..n - 1 : archive'[i] = archive[i + 1]
  <2> HIDE DEF B
  <2> QED
    BY <1>1, <1>5, HeadAndTail
<1>7. \A i \in 1..n - 1 : i + 1 \in 1..n
  BY <1>6
<1> HIDE DEF B, n
<1>8. ASSUME NEW i \in 1..n - 1, NEW j \in 1..n - 1, i # j
      PROVE  Apart(archive'[i], archive'[j])
  <2>1. i + 1 \in 1..n /\ j + 1 \in 1..n /\ i + 1 # j + 1
    BY <1>6, <1>7, <1>8
  <2> QED
    BY <1>5, <1>6, <2>1
<1>9. ASSUME NEW q \in DOMAIN tree'
      PROVE  \/ q \in DOMAIN tree /\ tree'[q] = tree[q]
             \/ \E e \in EntriesOf(w) : q = e.path /\ tree'[q].kind = e.kind
  <2>1. \A e \in Unpacked(EntriesOf(w)) : e \in EntriesOf(w)
    BY DEF Unpacked
  <2>2. \A e, p : Written(e, p).kind = e.kind
    BY DEF Written
  <2> QED
    BY <1>2, <1>4, <2>1, <2>2 DEF Unpacking
<1>10. ASSUME NEW i \in 1..n - 1, NEW y \in LinksOf(archive[i + 1]), NEW q \in DOMAIN tree'
       PROVE  ~Under(q, y)
  BY <1>2, <1>5, <1>7, <1>9 DEF n
<1>11. ASSUME NEW q \in DOMAIN tree', tree'[q].kind = "link"
       PROVE  \E u \in ToSet(unnested) : q \in Staying(u)
  BY <1>2, <1>5, <1>9, <1>11 DEF IsLink
<1>12. /\ FirstWalks' = FirstWalks /\ \A x : EntriesOf(x)' = EntriesOf(x)
       /\ \A u : Staying(u)' = Staying(u) /\ ToSet(unnested)' = ToSet(unnested)
  BY <1>1, SameOrder
<1>13. (archive \in Seq({EntriesOf(x) : x \in FirstWalks}))'
  BY <1>6, <1>12 DEF B
<1>14. /\ \A i, j \in 1..Len(archive') : i # j => Apart(archive'[i], archive'[j])
       /\ \A i \in 1..Len(archive') : \A y \in LinksOf(archive'[i]) :
            \A q \in DOMAIN tree' : ~Under(q, y)
       /\ \A q \in DOMAIN tree' :
            IsLink(q)' => \E u \in ToSet(unnested)' : q \in Staying(u)'
  BY <1>6, <1>8, <1>10, <1>11, <1>12 DEF IsLink
<1> QED
  BY <1>3, <1>13, <1>14 DEF OrderInv, Apart, LinksOf, Under

LEMMA OrderNext ==
  ASSUME NestInv, PackInv, OrderInv, [Next]_vars
  PROVE  OrderInv'
<1>1. CASE FindModule \/ LeaveModule \/ RemoveNestedPath
  <2>1. pc' \notin {"failed", "pack", "unpack"}
    BY <1>1 DEF FindModule, LeaveModule, RemoveNestedPath
  <2> QED
    BY <2>1 DEF OrderInv
<1>2. CASE StartPack
  <2>1. /\ pc' = "pack" /\ archive' = <<>>
        /\ walks' = [i \in DOMAIN unnested |-> Own(unnested[i])]
        /\ UNCHANGED <<repo, mods, unnested>>
    BY <1>2 DEF StartPack, finding, Own, PackInv
  <2>2. SUFFICES ASSUME Plain PROVE OrderInv'
    <3>1. Plain' => Plain
      BY <2>1, SameOrder
    <3> QED
      BY <3>1 DEF OrderInv
  <2>3. /\ Len(unnested) \in Nat /\ DOMAIN unnested = 1..Len(unnested)
        /\ Distinct(unnested) /\ ~LinksBehindLinks
        /\ \A i \in 1..Len(unnested) : unnested[i] \in ToSet(unnested)
    BY <2>2, LenProperties DEF NestInv, Plain, ToSet
  <2>4. /\ walks' \in Seq(FirstWalks) /\ Len(walks') = Len(unnested)
        /\ \A i \in 1..Len(unnested) : walks'[i] = Own(unnested[i])
    <3>1. \A i \in 1..Len(unnested) : Own(unnested[i]) \in FirstWalks
      BY <2>3 DEF FirstWalks
    <3> QED
      BY <2>1, <2>3, <3>1
  <2>5. ASSUME NEW i \in 1..Len(unnested), NEW j \in 1..Len(unnested), i # j
        PROVE  Apart(EntriesOf(walks'[i]), EntriesOf(walks'[j]))
    <3>1. unnested[i] # unnested[j]
      BY <2>3, <2>5 DEF Distinct
    <3> QED
      BY <2>3, <2>4, <3>1, OwnApart
  <2>6. /\ FirstWalks' = FirstWalks /\ \A x : EntriesOf(x)' = EntriesOf(x)
    BY <2>1, SameOrder
  <2>7. /\ 1..Len(archive') = {}
        /\ (archive \in Seq({EntriesOf(w) : w \in FirstWalks}))'
    <3>1. Len(archive') = 0 /\ \A S : archive' \in Seq(S)
      BY <2>1
    <3>2. 1..Len(archive') = {}
      BY <3>1
    <3> QED
      BY <3>1, <3>2
  <2>8. /\ walks' \in Seq(FirstWalks)'
        /\ \A i, j \in 1..Len(walks') :
             i # j => Apart(EntriesOf(walks'[i]), EntriesOf(walks'[j]))
    BY <2>4, <2>5, <2>6
  <2>9. pc' # "failed" /\ pc' # "unpack"
    BY <2>1
  <2> QED
    BY <2>6, <2>7, <2>8, <2>9 DEF OrderInv, Apart, LinksOf
<1>3. CASE FinishPack
  <2>1. /\ pc = "pack" /\ pc' = "unpack" /\ tree' = <<>> /\ archive' = archive
        /\ UNCHANGED <<repo, mods, unnested>>
    BY <1>3 DEF FinishPack, finding, packing, PackInv
  <2>2. DOMAIN tree' = {}
    <3>1. DOMAIN <<>> = {}
      OBVIOUS
    <3> QED
      BY <2>1, <3>1
  <2>3. /\ Plain' => Plain
        /\ FirstWalks' = FirstWalks /\ \A x : EntriesOf(x)' = EntriesOf(x)
    BY <2>1, SameOrder
  <2> QED
    BY <2>1, <2>2, <2>3 DEF OrderInv, Apart, LinksOf
<1>4. CASE Pack
  <2>1. Plain' => Plain
    BY <1>4, SameOrder DEF Pack, finding
  <2> QED
    BY <1>4, <2>1, OrderPack DEF OrderInv
<1>5. CASE Unpack
  <2>1. Plain' => Plain
    BY <1>5, SameOrder DEF Unpack, finding
  <2> QED
    BY <1>5, <2>1, OrderUnpack DEF OrderInv
<1>6. CASE FinishUnpack
  BY <1>6 DEF FinishUnpack, OrderInv
<1>7. CASE UNCHANGED vars
  <2>1. UNCHANGED <<repo, pc, mods, unnested, archive, walks, tree>>
    BY <1>7 DEF vars
  <2>2. /\ Plain' => Plain
        /\ FirstWalks' = FirstWalks /\ \A x : EntriesOf(x)' = EntriesOf(x)
        /\ \A u : Staying(u)' = Staying(u)
    BY <2>1, SameOrder
  <2> QED
    BY <2>1, <2>2 DEF OrderInv, Apart, LinksOf, IsLink
<1> QED
  BY <1>1, <1>2, <1>3, <1>4, <1>5, <1>6, <1>7 DEF Next

\* A sequence that does not hold the same twice has as many places as it holds.
LEMMA DistinctIs ==
  ASSUME NEW S, NEW q \in Seq(S), ~Distinct(q)
  PROVE  Cardinality(ToSet(q)) < Len(q)
<1> DEFINE n == Len(q)
           D == 1..n
           T == ToSet(q)
<1>1. n \in Nat /\ DOMAIN q = D /\ q \in [D -> S]
  BY LenProperties
<1>2. IsFiniteSet(D) /\ Cardinality(D) = n
  BY <1>1, FS_Interval
<1>3. q \in Surjection(D, T)
  <2>1. T = {q[i] : i \in D}
    BY <1>1 DEF ToSet
  <2> HIDE DEF D, T
  <2> QED
    BY <1>1, <2>1 DEF Surjection
<1>4. q \notin Injection(D, T)
  BY <1>1 DEF Injection, IsInjective, Distinct
<1> HIDE DEF D, T, n
<1>5. /\ IsFiniteSet(T) /\ Cardinality(T) <= Cardinality(D)
      /\ Cardinality(T) # Cardinality(D)
  BY <1>2, <1>3, <1>4, FS_Surjection
<1>6. Cardinality(T) \in Nat
  BY <1>5, FS_CardinalityType
<1>7. Cardinality(T) < n
  BY <1>1, <1>2, <1>5, <1>6
<1> QED
  BY <1>7 DEF T, n

\* Whatever was packed can be unpacked (CanUnpack), links to directories included: if it
\* cannot, a module was called twice, or what was packed in the place of a link has links
\* again.
THEOREM CanBeUnpacked ==
  Spec => []ArchivesCanBeUnpacked
<1>1. Init => NestInv /\ PackInv /\ OrderInv
  <2>1. Init => pc = "walk"
    BY DEF Init
  <2> QED
    BY <2>1, NestInit, PackInit DEF OrderInv
<1>2. NestInv /\ PackInv /\ OrderInv /\ [Next]_vars => (NestInv /\ PackInv /\ OrderInv)'
  BY NestNext, PackNext, OrderNext
<1>3. NestInv /\ PackInv /\ OrderInv => ArchivesCanBeUnpacked
  <2> SUFFICES ASSUME NestInv, OrderInv, pc = "failed", ~LinksBehindLinks
               PROVE  Cardinality(Modules) < Len(mods)
    BY DEF ArchivesCanBeUnpacked
  <2>1. ~Distinct(mods)
    BY DEF OrderInv, Plain
  <2>2. mods \in Seq(Dirs)
    BY DEF NestInv
  <2> QED
    BY <2>1, <2>2, DistinctIs DEF Modules
<1> QED
  BY <1>1, <1>2, <1>3, PTL DEF Spec

=============================================================================
