---------------------- MODULE DisplayedItemTreeProofs ----------------------
(***************************************************************************)
(* Lemmas about the operators of DisplayedItemTree, for every tree and     *)
(* every MaxLevel: what they return, that they keep a tree well formed,    *)
(* and which items the tree holds afterwards.                              *)
(***************************************************************************)
EXTENDS DisplayedItemTree, SequenceTheorems, WellFoundedInduction, TLAPS

-----------------------------------------------------------------------------
(* Least elements, and functions defined by recursion *)

\* Every nonempty set of natural numbers has a least element.  It stands for
\* induction over the naturals: a property fails at no number because it fails
\* at no least one.
LEMMA LeastNat ==
  ASSUME NEW T, T \subseteq Nat, T # {}
  PROVE  \E n \in T : \A m \in T : n <= m
<1>1. IsWellFoundedOn(OpToRel(<, Nat), Nat)
  BY NatLessThanWellFounded
<1>2. PICK n \in T : \A m \in T : ~(<<m, n>> \in OpToRel(<, Nat))
  BY <1>1, WFMin
<1>3. \A m \in T : ~(m < n)
  BY <1>2 DEF OpToRel
<1>4. QED
  BY <1>3

\* Min of a nonempty set of natural numbers is its least element.
LEMMA MinNat ==
  ASSUME NEW T, T \subseteq Nat, T # {}
  PROVE  Min(T) \in T /\ \A m \in T : Min(T) <= m
<1>1. \E n \in T : \A m \in T : n <= m
  BY LeastNat
<1>2. QED
  BY <1>1 DEF Min

\* Max of a nonempty set of numbers up to n is its greatest element.
LEMMA MaxUpTo ==
  ASSUME NEW n \in Nat, NEW T, T \subseteq 0..n, T # {}
  PROVE  Max(T) \in T /\ \A m \in T : m <= Max(T)
<1> DEFINE bounds == {x \in Nat : \A m \in T : m <= x}
<1>1. n \in bounds
  OBVIOUS
<1>2. PICK x \in bounds : \A y \in bounds : x <= y
  BY <1>1, LeastNat
<1>3. x \in T
  <2>1. SUFFICES ASSUME x \notin T PROVE FALSE
    OBVIOUS
  <2>2. \A m \in T : m <= x-1
    BY <1>2, <2>1
  <2>3. x-1 \in bounds
    <3>1. PICK m : m \in T
      OBVIOUS
    <3>2. x-1 \in Nat
      BY <2>2, <3>1
    <3>3. QED
      BY <2>2, <3>2
  <2>4. QED
    BY <1>2, <2>3
<1>4. \E y \in T : \A m \in T : y >= m
  BY <1>2, <1>3
<1>5. QED
  BY <1>4 DEF Max

\* f satisfies, on 0..n, the recursion that starts with a and goes on with step.
Solves(f, n, a, step) ==
  \A k \in 0..n : f[k] = IF k = 0 THEN a ELSE step[k][f[k-1]]

\* One more value extends a function on 0..n-1 that satisfies a recursion.
LEMMA ExtendRecursion ==
  ASSUME NEW S, NEW a \in S, NEW n \in Nat, NEW m \in 1..n,
         NEW step \in [1..n -> [S -> S]], NEW f \in [0..m-1 -> S],
         Solves(f, m-1, a, step)
  PROVE  \E g \in [0..m -> S] : Solves(g, m, a, step)
<1>1. PICK x \in S : x = step[m][f[m-1]]
  <2>1. f[m-1] \in S
    OBVIOUS
  <2>2. step[m][f[m-1]] \in S
    BY <2>1
  <2>3. QED
    BY <2>2
<1>2. PICK g : g = [k \in 0..m |-> IF k = m THEN x ELSE f[k]]
  OBVIOUS
<1>3. g \in [0..m -> S]
  BY <1>2
<1>4. ASSUME NEW k \in 0..m
      PROVE  g[k] = IF k = 0 THEN a ELSE step[k][g[k-1]]
  <2>1. CASE k = m
    <3>1. g[k] = x /\ g[k-1] = f[m-1] /\ k # 0
      BY <1>2, <2>1
    <3>2. QED
      BY <1>1, <2>1, <3>1
  <2>2. CASE k # m
    <3>1. k \in 0..m-1 /\ g[k] = f[k]
      BY <1>2, <2>2
    <3>2. k # 0 => g[k-1] = f[k-1]
      BY <1>2, <2>2
    <3>3. QED
      BY <3>1, <3>2 DEF Solves
  <2>3. QED
    BY <2>1, <2>2
<1>5. QED
  BY <1>3, <1>4 DEF Solves

\* A function defined by recursion on 0..n exists.
LEMMA RecursionOnPrefix ==
  ASSUME NEW S, NEW a \in S, NEW n \in Nat,
         NEW step \in [1..n -> [S -> S]]
  PROVE  \E f \in [0..n -> S] : Solves(f, n, a, step)
<1> DEFINE Solvable(m) == \E f \in [0..m -> S] : Solves(f, m, a, step)
<1> DEFINE Bad == {m \in 0..n : ~Solvable(m)}
<1>1. Solvable(0)
  <2>1. PICK f : f = [k \in 0..0 |-> a]
    OBVIOUS
  <2>2. f \in [0..0 -> S] /\ \A k \in 0..0 : f[k] = a /\ k = 0
    BY <2>1
  <2>3. QED
    BY <2>2 DEF Solves
<1>2. ASSUME NEW m \in 1..n, Solvable(m-1)
      PROVE  Solvable(m)
  BY <1>2, ExtendRecursion
<1> HIDE DEF Solvable
<1>3. Bad = {}
  <2>1. SUFFICES ASSUME Bad # {} PROVE FALSE
    OBVIOUS
  <2>2. Bad \subseteq Nat
    OBVIOUS
  <2>3. PICK m \in Bad : \A j \in Bad : m <= j
    BY <2>1, <2>2, LeastNat
  <2>4. m # 0
    BY <1>1, <2>3
  <2>5. m \in 1..n /\ m-1 \in 0..n /\ m-1 \notin Bad
    BY <2>3, <2>4
  <2>6. Solvable(m-1)
    BY <2>5
  <2>7. QED
    BY <1>2, <2>3, <2>5, <2>6
<1>4. Solvable(n)
  BY <1>3
<1>5. QED
  BY <1>4 DEF Solvable

-----------------------------------------------------------------------------
(* Sequences cut and put together *)

\* u is p, then m, then q.
IsJoined(u, p, m, q) ==
  /\ Len(u) = Len(p) + Len(m) + Len(q)
  /\ \A k \in 1..Len(p) : u[k] = p[k]
  /\ \A k \in Len(p)+1..Len(p)+Len(m) : u[k] = m[k - Len(p)]
  /\ \A k \in Len(p)+Len(m)+1..Len(p)+Len(m)+Len(q) :
       u[k] = q[k - Len(p) - Len(m)]

\* u is t with the elements from a to b-1 replaced by m.
IsReplaced(u, t, a, b, m) ==
  /\ Len(u) = Len(t) - (b - a) + Len(m)
  /\ \A k \in 1..a-1 : u[k] = t[k]
  /\ \A k \in a..a-1+Len(m) : u[k] = m[k - (a-1)]
  /\ \A k \in a+Len(m)..Len(u) : u[k] = t[k - Len(m) + (b - a)]

\* u is t without the elements from a to b-1.
IsCut(u, t, a, b) ==
  /\ Len(u) = Len(t) - (b - a)
  /\ \A k \in 1..a-1 : u[k] = t[k]
  /\ \A k \in a..Len(u) : u[k] = t[k + (b - a)]

\* The elements of three sequences put together.
LEMMA ThreePieces ==
  ASSUME NEW S, NEW p \in Seq(S), NEW m \in Seq(S), NEW q \in Seq(S)
  PROVE  p \o m \o q \in Seq(S) /\ IsJoined(p \o m \o q, p, m, q)
BY DEF IsJoined

\* The elements of t before a, and those from b on.
LEMMA Ends ==
  ASSUME NEW S, NEW t \in Seq(S),
         NEW a \in 1..Len(t)+1, NEW b \in a..Len(t)+1
  PROVE  /\ SubSeq(t, 1, a-1) \in Seq(S)
         /\ Len(SubSeq(t, 1, a-1)) = a-1
         /\ \A k \in 1..a-1 : SubSeq(t, 1, a-1)[k] = t[k]
         /\ SubSeq(t, b, Len(t)) \in Seq(S)
         /\ Len(SubSeq(t, b, Len(t))) = Len(t) - b + 1
         /\ \A k \in 1..Len(t)-b+1 : SubSeq(t, b, Len(t))[k] = t[b+k-1]
BY SubSeqProperties

\* Positions in the joined sequence, counted in t.
LEMMA JoinedIsReplaced ==
  ASSUME NEW S, NEW t \in Seq(S), NEW m \in Seq(S),
         NEW p \in Seq(S), NEW q \in Seq(S), NEW u \in Seq(S),
         NEW a \in 1..Len(t)+1, NEW b \in a..Len(t)+1,
         Len(p) = a-1, \A k \in 1..a-1 : p[k] = t[k],
         Len(q) = Len(t)-b+1, \A k \in 1..Len(t)-b+1 : q[k] = t[b+k-1],
         IsJoined(u, p, m, q)
  PROVE  IsReplaced(u, t, a, b, m)
<1>1. Len(u) = Len(t) - (b - a) + Len(m)
  BY DEF IsJoined
<1>2. \A k \in 1..a-1 : u[k] = t[k]
  BY DEF IsJoined
<1>3. \A k \in a..a-1+Len(m) : u[k] = m[k - (a-1)]
  BY DEF IsJoined
<1>4. ASSUME NEW k \in a+Len(m)..Len(u)
      PROVE  u[k] = t[k - Len(m) + (b - a)]
  <2>1. k - (a-1) - Len(m) \in 1..Len(t)-b+1
    <3>1. PICK n \in Nat, l \in Nat : n = Len(t) /\ l = Len(m)
      OBVIOUS
    <3>2. Len(u) = n - (b - a) + l
      BY <1>1, <3>1
    <3>3. k - (a-1) - l \in 1..n-b+1
      BY <3>1, <3>2
    <3>4. QED
      BY <3>1, <3>3
  <2>2. u[k] = q[k - (a-1) - Len(m)]
    BY <1>1 DEF IsJoined
  <2>3. b + (k - (a-1) - Len(m)) - 1 = k - Len(m) + (b - a)
    BY <1>1
  <2>4. QED
    BY <2>1, <2>2, <2>3
<1>5. QED
  BY <1>1, <1>2, <1>3, <1>4 DEF IsReplaced

\* What SubSeq and \o return when the elements from a to b-1 are replaced.
LEMMA ReplaceElements ==
  ASSUME NEW S, NEW t \in Seq(S), NEW m \in Seq(S),
         NEW a \in 1..Len(t)+1, NEW b \in a..Len(t)+1
  PROVE  LET u == SubSeq(t, 1, a-1) \o m \o SubSeq(t, b, Len(t)) IN
         u \in Seq(S) /\ IsReplaced(u, t, a, b, m)
<1>1. PICK p \in Seq(S) : p = SubSeq(t, 1, a-1)
  BY Ends
<1>2. PICK q \in Seq(S) : q = SubSeq(t, b, Len(t))
  BY Ends
<1>3. Len(p) = a-1 /\ \A k \in 1..a-1 : p[k] = t[k]
  BY <1>1, Ends
<1>4. Len(q) = Len(t)-b+1 /\ \A k \in 1..Len(t)-b+1 : q[k] = t[b+k-1]
  BY <1>2, Ends
<1>5. PICK u \in Seq(S) : u = p \o m \o q /\ IsJoined(u, p, m, q)
  BY ThreePieces, Zenon
<1>6. IsReplaced(u, t, a, b, m)
  BY <1>3, <1>4, <1>5, JoinedIsReplaced, Zenon
<1>7. QED
  BY <1>1, <1>2, <1>5, <1>6, Zenon

\* What Cut returns (Vec::drain of a range).
LEMMA CutElements ==
  ASSUME NEW S, NEW t \in Seq(S),
         NEW a \in 1..Len(t)+1, NEW b \in a..Len(t)+1
  PROVE  Cut(t, a, b) \in Seq(S) /\ IsCut(Cut(t, a, b), t, a, b)
<1>1. PICK m \in Seq(S) : m = <<>> /\ Len(m) = 0
  BY EmptySeq
<1>2. PICK u \in Seq(S) :
        /\ u = SubSeq(t, 1, a-1) \o m \o SubSeq(t, b, Len(t))
        /\ IsReplaced(u, t, a, b, m)
  BY ReplaceElements, Zenon
<1>3. SubSeq(t, 1, a-1) \in Seq(S)
  BY Ends
<1>4. u = Cut(t, a, b)
  BY <1>1, <1>2, <1>3, ConcatEmptySeq, Zenon DEF Cut
<1>5. IsCut(u, t, a, b)
  <2>1. IsReplaced(u, t, a, b, m) /\ Len(m) = 0
    BY <1>1, <1>2
  <2>2. QED
    BY <2>1 DEF IsReplaced, IsCut
<1>6. QED
  BY <1>4, <1>5, Zenon

-----------------------------------------------------------------------------
(* Subtrees *)

\* subtree_end: the nodes before it are deeper than the root, the one at it,
\* if there is one, is not.
LEMMA SubtreeEndIs ==
  ASSUME NEW refs, NEW t \in Seq(NodeOf(refs)), NEW i \in 1..Len(t)
  PROVE  /\ SubtreeEnd(t, i) \in i+1..Len(t)+1
         /\ \A k \in i+1..SubtreeEnd(t, i)-1 : t[k].level > t[i].level
         /\ SubtreeEnd(t, i) <= Len(t) => t[SubtreeEnd(t, i)].level <= t[i].level
<1> DEFINE ends == {j \in i+1..Len(t)+1 : j <= Len(t) => t[j].level <= t[i].level}
<1>1. ends \subseteq Nat /\ Len(t)+1 \in ends
  OBVIOUS
<1>2. SubtreeEnd(t, i) \in ends /\ \A j \in ends : SubtreeEnd(t, i) <= j
  BY <1>1, MinNat DEF SubtreeEnd
<1>3. ASSUME NEW k \in i+1..SubtreeEnd(t, i)-1
      PROVE  t[k].level > t[i].level
  <2>1. k \notin ends /\ k \in i+1..Len(t)
    BY <1>2
  <2>2. t[k] \in NodeOf(refs) /\ t[i] \in NodeOf(refs)
    BY <2>1
  <2>3. t[k].level \in Int /\ t[i].level \in Int
    BY <2>2 DEF NodeOf, Level
  <2>4. QED
    BY <2>1, <2>3
<1>4. QED
  BY <1>2, <1>3

\* The levels of a tree's nodes are natural numbers up to MaxLevel.
LEMMA LevelsAreLevels ==
  ASSUME NEW refs, NEW t \in Seq(NodeOf(refs))
  PROVE  \A k \in 1..Len(t) : t[k].level \in Nat /\ t[k].level <= MaxLevel
<1>1. ASSUME NEW k \in 1..Len(t)
      PROVE  t[k].level \in Nat /\ t[k].level <= MaxLevel
  <2>1. t[k] \in NodeOf(refs)
    OBVIOUS
  <2>2. QED
    BY <2>1, MaxLevelAssumption DEF NodeOf, Level
<1>2. QED
  BY <1>1

-----------------------------------------------------------------------------
(* Sequences of levels, and of references, as functions *)

\* The first level is 0 and a level is at most one more than the one before.
Climbs(f, n) ==
  /\ n >= 1 => f[1] = 0
  /\ \A k \in 2..n : f[k] <= f[k-1] + 1

Injective(f, n) == \A j, k \in 1..n : f[j] = f[k] => j = k

LevelsIn(t) == [k \in 1..Len(t) |-> t[k].level]

RefsIn(t) == [k \in 1..Len(t) |-> t[k].item_ref]

\* Cutting keeps levels climbing when the first level after the cut fits.
LEMMA CutClimbs ==
  ASSUME NEW n \in Nat, NEW a \in 1..n+1, NEW b \in a..n+1,
         NEW f \in [1..n -> Nat], NEW g \in [1..n-(b-a) -> Nat],
         Climbs(f, n),
         \A k \in 1..a-1 : g[k] = f[k],
         \A k \in a..n-(b-a) : g[k] = f[k+(b-a)],
         b <= n /\ a = 1 => f[b] = 0,
         b <= n /\ a > 1 => f[b] <= f[a-1] + 1
  PROVE  Climbs(g, n-(b-a))
<1>1. n-(b-a) >= 1 => g[1] = 0
  BY DEF Climbs
<1>2. ASSUME NEW k \in 2..n-(b-a)
      PROVE  g[k] <= g[k-1] + 1
  <2>1. CASE k < a
    BY <2>1 DEF Climbs
  <2>2. CASE k = a
    BY <2>2 DEF Climbs
  <2>3. CASE k > a
    <3>1. k-1 \in a..n-(b-a) /\ k + (b-a) \in 2..n
      BY <2>3
    <3>2. g[k] = f[k + (b-a)] /\ g[k-1] = f[k + (b-a) - 1]
      BY <2>3, <3>1
    <3>3. QED
      BY <3>1, <3>2 DEF Climbs
  <2>4. QED
    BY <2>1, <2>2, <2>3
<1>3. QED
  BY <1>1, <1>2 DEF Climbs

\* Replacing keeps levels climbing when both seams fit.
LEMMA ReplaceClimbs ==
  ASSUME NEW n \in Nat, NEW a \in 1..n+1, NEW b \in a..n+1,
         NEW l \in Nat \ {0}, NEW h \in [1..l -> Nat],
         NEW f \in [1..n -> Nat], NEW g \in [1..n-(b-a)+l -> Nat],
         Climbs(f, n), \A k \in 2..l : h[k] <= h[k-1] + 1,
         \A k \in 1..a-1 : g[k] = f[k],
         \A k \in a..a-1+l : g[k] = h[k-(a-1)],
         \A k \in a+l..n-(b-a)+l : g[k] = f[k-l+(b-a)],
         a = 1 => h[1] = 0,
         a > 1 => h[1] <= f[a-1] + 1,
         b <= n => f[b] <= h[l] + 1
  PROVE  Climbs(g, n-(b-a)+l)
<1>1. n-(b-a)+l >= 1 => g[1] = 0
  BY DEF Climbs
<1>2. ASSUME NEW k \in 2..n-(b-a)+l
      PROVE  g[k] <= g[k-1] + 1
  <2>1. CASE k < a
    BY <2>1 DEF Climbs
  <2>2. CASE k = a
    BY <2>2 DEF Climbs
  <2>3. CASE k \in a+1..a-1+l
    BY <2>3 DEF Climbs
  <2>4. CASE k = a+l
    BY <2>4 DEF Climbs
  <2>5. CASE k > a+l
    BY <2>5 DEF Climbs
  <2>6. QED
    BY <2>1, <2>2, <2>3, <2>4, <2>5
<1>3. QED
  BY <1>1, <1>2 DEF Climbs

\* Cutting keeps references distinct.
LEMMA CutInjective ==
  ASSUME NEW n \in Nat, NEW a \in 1..n+1, NEW b \in a..n+1,
         NEW f, NEW g, Injective(f, n),
         \A k \in 1..a-1 : g[k] = f[k],
         \A k \in a..n-(b-a) : g[k] = f[k+(b-a)]
  PROVE  Injective(g, n-(b-a))
<1>1. ASSUME NEW j \in 1..n-(b-a), NEW k \in 1..n-(b-a), g[j] = g[k]
      PROVE  j = k
  <2>1. \A x \in 1..n-(b-a) :
          \E y \in 1..n : g[x] = f[y] /\ y = IF x < a THEN x ELSE x + (b-a)
    OBVIOUS
  <2>2. QED
    BY <1>1, <2>1 DEF Injective
<1>2. QED
  BY <1>1 DEF Injective

\* Replacing keeps references distinct when the new ones are distinct and
\* none is among those that stay.
LEMMA ReplaceInjective ==
  ASSUME NEW n \in Nat, NEW a \in 1..n+1, NEW b \in a..n+1,
         NEW l \in Nat, NEW h, NEW f, NEW g,
         Injective(f, n), Injective(h, l),
         \A k \in 1..a-1 : g[k] = f[k],
         \A k \in a..a-1+l : g[k] = h[k-(a-1)],
         \A k \in a+l..n-(b-a)+l : g[k] = f[k-l+(b-a)],
         \A j \in 1..l, k \in 1..n : k < a \/ k >= b => h[j] # f[k]
  PROVE  Injective(g, n-(b-a)+l)
<1> DEFINE len == n-(b-a)+l
<1>1. \A x \in 1..len : x < a \/ x >= a+l =>
        \E y \in 1..n : /\ g[x] = f[y]
                        /\ y < a \/ y >= b
                        /\ y = IF x < a THEN x ELSE x - l + (b-a)
  OBVIOUS
<1>2. \A x \in 1..len : ~(x < a \/ x >= a+l) =>
        \E y \in 1..l : g[x] = h[y] /\ y = x - (a-1)
  OBVIOUS
<1>3. ASSUME NEW j \in 1..len, NEW k \in 1..len, g[j] = g[k]
      PROVE  j = k
  <2>1. CASE (j < a \/ j >= a+l) /\ (k < a \/ k >= a+l)
    BY <1>1, <1>3, <2>1 DEF Injective
  <2>2. CASE (j < a \/ j >= a+l) /\ ~(k < a \/ k >= a+l)
    BY <1>1, <1>2, <1>3, <2>2
  <2>3. CASE ~(j < a \/ j >= a+l) /\ (k < a \/ k >= a+l)
    BY <1>1, <1>2, <1>3, <2>3
  <2>4. CASE ~(j < a \/ j >= a+l) /\ ~(k < a \/ k >= a+l)
    BY <1>2, <1>3, <2>4 DEF Injective
  <2>5. QED
    BY <2>1, <2>2, <2>3, <2>4
<1>4. QED
  BY <1>3 DEF Injective

\* The levels and references of a tree as functions.
LEMMA TreeFunctions ==
  ASSUME NEW refs, NEW t \in Seq(NodeOf(refs))
  PROVE  /\ Len(t) \in Nat
         /\ LevelsIn(t) \in [1..Len(t) -> Nat]
         /\ RefsIn(t) \in [1..Len(t) -> refs]
         /\ \A k \in 1..Len(t) : /\ LevelsIn(t)[k] = t[k].level
                                 /\ RefsIn(t)[k] = t[k].item_ref
         /\ LevelsMonotone(t) <=> Climbs(LevelsIn(t), Len(t))
         /\ RefsUnique(t) <=> Injective(RefsIn(t), Len(t))
<1>1. Len(t) \in Nat /\ DOMAIN t = 1..Len(t)
  OBVIOUS
<1>2. ASSUME NEW k \in 1..Len(t)
      PROVE  t[k].level \in Nat /\ t[k].item_ref \in refs
  <2>1. t[k] \in NodeOf(refs)
    OBVIOUS
  <2>2. t[k].level \in Level /\ t[k].item_ref \in refs
    BY <2>1 DEF NodeOf
  <2>3. QED
    BY <2>2, MaxLevelAssumption DEF Level
<1>3. LevelsIn(t) \in [1..Len(t) -> Nat] /\ RefsIn(t) \in [1..Len(t) -> refs]
  BY <1>2 DEF LevelsIn, RefsIn
<1>4. \A k \in 1..Len(t) : LevelsIn(t)[k] = t[k].level /\ RefsIn(t)[k] = t[k].item_ref
  BY DEF LevelsIn, RefsIn
<1>5. RefsUnique(t) <=> Injective(RefsIn(t), Len(t))
  BY <1>1, <1>4 DEF RefsUnique, Injective
<1>6. ASSUME LevelsMonotone(t) PROVE Climbs(LevelsIn(t), Len(t))
  <2>1. \A k \in 1..Len(t) : t[k].level <= IF k = 1 THEN 0 ELSE t[k-1].level + 1
    BY <1>1, <1>6, Zenon DEF LevelsMonotone
  <2>2. Len(t) >= 1 => LevelsIn(t)[1] = 0
    BY <1>1, <1>2, <1>4, <2>1
  <2>3. ASSUME NEW k \in 2..Len(t)
        PROVE  LevelsIn(t)[k] <= LevelsIn(t)[k-1] + 1
    BY <1>1, <1>4, <2>1
  <2>4. QED
    BY <2>2, <2>3 DEF Climbs
<1>7. ASSUME Climbs(LevelsIn(t), Len(t)) PROVE LevelsMonotone(t)
  <2>1. ASSUME NEW k \in 1..Len(t)
        PROVE  t[k].level <= IF k = 1 THEN 0 ELSE t[k-1].level + 1
    <3>1. CASE k = 1
      BY <1>1, <1>2, <1>4, <1>7, <3>1 DEF Climbs
    <3>2. CASE k # 1
      BY <1>1, <1>2, <1>4, <1>7, <3>2 DEF Climbs
    <3>3. QED
      BY <3>1, <3>2
  <2>2. QED
    BY <1>1, <2>1, Zenon DEF LevelsMonotone
<1>8. QED
  BY <1>1, <1>3, <1>4, <1>5, <1>6, <1>7

\* The first node is at level 0, the others at most one below the node before.
LEMMA Neighbours ==
  ASSUME NEW refs, NEW t \in Seq(NodeOf(refs)), LevelsMonotone(t),
         NEW i \in 1..Len(t)
  PROVE  /\ t[i].level \in Nat
         /\ i = 1 => t[i].level = 0
         /\ i > 1 => t[i-1].level \in Nat /\ t[i].level <= t[i-1].level + 1
<1>1. /\ \A k \in 1..Len(t) : LevelsIn(t)[k] = t[k].level
      /\ Climbs(LevelsIn(t), Len(t))
  BY TreeFunctions
<1>2. \A k \in 1..Len(t) : t[k].level \in Nat
  BY LevelsAreLevels
<1>3. Len(t) \in Nat
  OBVIOUS
<1>4. i > 1 => i-1 \in 1..Len(t) /\ i \in 2..Len(t)
  BY <1>3
<1>5. QED
  BY <1>1, <1>2, <1>3, <1>4 DEF Climbs

-----------------------------------------------------------------------------
(* Trees cut and put together *)

\* A tree of items of refs whose levels go in by one and that shows no item
\* twice.
WellFormed(t, refs) ==
  t \in Seq(NodeOf(refs)) /\ LevelsMonotone(t) /\ RefsUnique(t)

\* u is made of nodes, and keeps both invariants if t did.
LEMMA CutTree ==
  ASSUME NEW refs, NEW t \in Seq(NodeOf(refs)), WellFormed(t, refs),
         NEW a \in 1..Len(t)+1, NEW b \in a..Len(t)+1,
         b <= Len(t) /\ a = 1 => t[b].level = 0,
         b <= Len(t) /\ a > 1 => t[b].level <= t[a-1].level + 1
  PROVE  WellFormed(Cut(t, a, b), refs)
<1>1. PICK u \in Seq(NodeOf(refs)) : u = Cut(t, a, b) /\ IsCut(u, t, a, b)
  BY CutElements, Zenon
<1>2. PICK n \in Nat : n = Len(t)
  BY TreeFunctions
<1>3. PICK f : f = LevelsIn(t)
  OBVIOUS
<1>4. PICK g : g = LevelsIn(u)
  OBVIOUS
<1>5. Len(u) = n-(b-a)
  BY <1>1, <1>2 DEF IsCut
<1>6. f \in [1..n -> Nat] /\ g \in [1..n-(b-a) -> Nat]
  BY <1>2, <1>3, <1>4, <1>5, TreeFunctions
<1>7. \A k \in 1..n : f[k] = t[k].level /\ RefsIn(t)[k] = t[k].item_ref
  BY <1>2, <1>3, TreeFunctions
<1>8. \A k \in 1..n-(b-a) : g[k] = u[k].level /\ RefsIn(u)[k] = u[k].item_ref
  BY <1>4, <1>5, TreeFunctions
<1>9. \A k \in 1..a-1 : u[k] = t[k]
  BY <1>1 DEF IsCut
<1>10. \A k \in a..n-(b-a) : u[k] = t[k+(b-a)]
  BY <1>1, <1>5 DEF IsCut
<1>11. /\ \A k \in 1..a-1 : g[k] = f[k] /\ RefsIn(u)[k] = RefsIn(t)[k]
       /\ \A k \in a..n-(b-a) : /\ g[k] = f[k+(b-a)]
                                /\ RefsIn(u)[k] = RefsIn(t)[k+(b-a)]
  <2>1. ASSUME NEW k \in 1..a-1
        PROVE  g[k] = f[k] /\ RefsIn(u)[k] = RefsIn(t)[k]
    <3>1. k \in 1..n /\ k \in 1..n-(b-a)
      BY <1>2
    <3>2. QED
      BY <1>7, <1>8, <1>9, <3>1
  <2>2. ASSUME NEW k \in a..n-(b-a)
        PROVE  g[k] = f[k+(b-a)] /\ RefsIn(u)[k] = RefsIn(t)[k+(b-a)]
    <3>1. k+(b-a) \in 1..n /\ k \in 1..n-(b-a)
      BY <1>2
    <3>2. QED
      BY <1>7, <1>8, <1>10, <3>1
  <2>3. QED
    BY <2>1, <2>2
<1>12. Climbs(f, n) /\ Injective(RefsIn(t), n)
  BY <1>2, <1>3, TreeFunctions DEF WellFormed
<1>13. b <= n /\ a = 1 => f[b] = 0
  BY <1>2, <1>7
<1>14. b <= n /\ a > 1 => f[b] <= f[a-1] + 1
  BY <1>2, <1>7
<1>15. Climbs(g, n-(b-a))
  BY <1>2, <1>6, <1>11, <1>12, <1>13, <1>14, CutClimbs
<1>16. Injective(RefsIn(u), n-(b-a))
  BY <1>2, <1>11, <1>12, CutInjective
<1>17. QED
  BY <1>1, <1>4, <1>5, <1>15, <1>16, TreeFunctions DEF WellFormed

\* Put in place of the elements from a to b-1, the nodes of m climb, fit at
\* both seams, and show no item twice or one that stays.
Fits(t, a, b, m) ==
  /\ Len(m) >= 1
  /\ \A k \in 2..Len(m) : m[k].level <= m[k-1].level + 1
  /\ a = 1 => m[1].level = 0
  /\ a > 1 => m[1].level <= t[a-1].level + 1
  /\ b <= Len(t) => t[b].level <= m[Len(m)].level + 1
  /\ RefsUnique(m)
  /\ \A j \in 1..Len(m), k \in 1..Len(t) :
       k < a \/ k >= b => m[j].item_ref # t[k].item_ref

\* Replacing a range by nodes that fit keeps a tree well formed.
LEMMA ReplaceTree ==
  ASSUME NEW refs, NEW t \in Seq(NodeOf(refs)), WellFormed(t, refs),
         NEW a \in 1..Len(t)+1, NEW b \in a..Len(t)+1,
         NEW m \in Seq(NodeOf(refs)), Fits(t, a, b, m)
  PROVE  WellFormed(SubSeq(t, 1, a-1) \o m \o SubSeq(t, b, Len(t)), refs)
<1> PICK l \in Nat \ {0} : l = Len(m)
  BY DEF Fits
<1>0. /\ \A k \in 2..l : m[k].level <= m[k-1].level + 1
      /\ a = 1 => m[1].level = 0
      /\ a > 1 => m[1].level <= t[a-1].level + 1
      /\ b <= Len(t) => t[b].level <= m[l].level + 1
      /\ RefsUnique(m)
      /\ \A j \in 1..l, k \in 1..Len(t) :
           k < a \/ k >= b => m[j].item_ref # t[k].item_ref
  BY DEF Fits
<1>1. PICK u \in Seq(NodeOf(refs)) :
        /\ u = SubSeq(t, 1, a-1) \o m \o SubSeq(t, b, Len(t))
        /\ IsReplaced(u, t, a, b, m)
  BY ReplaceElements, Zenon
<1>2. PICK n \in Nat : n = Len(t)
  BY TreeFunctions
<1>3. PICK f : f = LevelsIn(t)
  OBVIOUS
<1>4. PICK g : g = LevelsIn(u)
  OBVIOUS
<1>5. PICK h : h = LevelsIn(m)
  OBVIOUS
<1>6. Len(u) = n-(b-a)+l
  BY <1>1, <1>2 DEF IsReplaced
<1>7. /\ f \in [1..n -> Nat]
      /\ g \in [1..n-(b-a)+l -> Nat]
      /\ h \in [1..l -> Nat]
  BY <1>2, <1>3, <1>4, <1>5, <1>6, TreeFunctions
<1>8. \A k \in 1..n : f[k] = t[k].level /\ RefsIn(t)[k] = t[k].item_ref
  BY <1>2, <1>3, TreeFunctions
<1>9. \A k \in 1..n-(b-a)+l : g[k] = u[k].level /\ RefsIn(u)[k] = u[k].item_ref
  BY <1>4, <1>6, TreeFunctions
<1>10. \A k \in 1..l : h[k] = m[k].level /\ RefsIn(m)[k] = m[k].item_ref
  BY <1>5, TreeFunctions
<1>11. ASSUME NEW k \in 1..a-1
       PROVE  g[k] = f[k] /\ RefsIn(u)[k] = RefsIn(t)[k]
  <2>1. u[k] = t[k]
    BY <1>1, <1>6 DEF IsReplaced
  <2>2. k \in 1..n /\ k \in 1..n-(b-a)+l
    BY <1>2
  <2>3. g[k] = u[k].level /\ RefsIn(u)[k] = u[k].item_ref
    BY <1>9, <2>2
  <2>4. f[k] = t[k].level /\ RefsIn(t)[k] = t[k].item_ref
    BY <1>8, <2>2
  <2>5. QED
    BY <2>1, <2>3, <2>4
<1>12. ASSUME NEW k \in a..a-1+l
       PROVE  g[k] = h[k-(a-1)] /\ RefsIn(u)[k] = RefsIn(m)[k-(a-1)]
  <2>1. u[k] = m[k-(a-1)]
    BY <1>1, <1>6 DEF IsReplaced
  <2>2. k-(a-1) \in 1..l /\ k \in 1..n-(b-a)+l
    BY <1>2
  <2>3. g[k] = u[k].level /\ RefsIn(u)[k] = u[k].item_ref
    BY <1>9, <2>2
  <2>4. h[k-(a-1)] = m[k-(a-1)].level /\ RefsIn(m)[k-(a-1)] = m[k-(a-1)].item_ref
    BY <1>10, <2>2
  <2>5. QED
    BY <2>1, <2>3, <2>4
<1>13. ASSUME NEW k \in a+l..n-(b-a)+l
       PROVE  g[k] = f[k-l+(b-a)] /\ RefsIn(u)[k] = RefsIn(t)[k-l+(b-a)]
  <2>1. u[k] = t[k-l+(b-a)]
    BY <1>1, <1>6 DEF IsReplaced
  <2>2. k-l+(b-a) \in 1..n /\ k \in 1..n-(b-a)+l
    BY <1>2
  <2>3. QED
    BY <1>8, <1>9, <2>1, <2>2
<1>14. Climbs(f, n) /\ Injective(RefsIn(t), n)
  BY <1>2, <1>3, TreeFunctions DEF WellFormed
<1>15. Injective(RefsIn(m), l)
  BY <1>0, TreeFunctions
<1>16. /\ a = 1 => h[1] = 0
       /\ a > 1 => h[1] <= f[a-1] + 1
       /\ b <= n => f[b] <= h[l] + 1
       /\ \A k \in 2..l : h[k] <= h[k-1] + 1
  <2>1. h[1] = m[1].level /\ h[l] = m[l].level
    BY <1>10
  <2>2. a > 1 => f[a-1] = t[a-1].level
    BY <1>2, <1>8
  <2>3. b <= n => f[b] = t[b].level
    BY <1>2, <1>8
  <2>4. ASSUME NEW k \in 2..l
        PROVE  h[k] <= h[k-1] + 1
    <3>1. h[k] = m[k].level /\ h[k-1] = m[k-1].level
      BY <1>10
    <3>2. QED
      BY <1>0, <3>1
  <2>5. QED
    BY <1>0, <1>2, <2>1, <2>2, <2>3, <2>4
<1>17. \A j \in 1..l, k \in 1..n :
          k < a \/ k >= b => RefsIn(m)[j] # RefsIn(t)[k]
  BY <1>0, <1>2, <1>8, <1>10
<1>18. Climbs(g, n-(b-a)+l)
  <2>1. a \in 1..n+1 /\ b \in a..n+1
    BY <1>2
  <2>2. /\ \A k \in 1..a-1 : g[k] = f[k]
        /\ \A k \in a..a-1+l : g[k] = h[k-(a-1)]
        /\ \A k \in a+l..n-(b-a)+l : g[k] = f[k-l+(b-a)]
    BY <1>11, <1>12, <1>13
  <2>3. QED
    BY <1>7, <1>14, <1>16, <2>1, <2>2, ReplaceClimbs
<1>19. Injective(RefsIn(u), n-(b-a)+l)
  <2>1. a \in 1..n+1 /\ b \in a..n+1 /\ l \in Nat
    BY <1>2
  <2>2. PICK v, o, w : v = RefsIn(u) /\ o = RefsIn(t) /\ w = RefsIn(m)
    OBVIOUS
  <2>3. /\ \A k \in 1..a-1 : v[k] = o[k]
        /\ \A k \in a..a-1+l : v[k] = w[k-(a-1)]
        /\ \A k \in a+l..n-(b-a)+l : v[k] = o[k-l+(b-a)]
    BY <1>11, <1>12, <1>13, <2>2
  <2>4. \A j \in 1..l, k \in 1..n : k < a \/ k >= b => w[j] # o[k]
    BY <1>17, <2>2
  <2>5. Injective(o, n) /\ Injective(w, l)
    BY <1>14, <1>15, <2>2
  <2>6. Injective(v, n-(b-a)+l)
    BY <2>1, <2>3, <2>4, <2>5, ReplaceInjective
  <2>7. QED
    BY <2>2, <2>6
<1>20. QED
  BY <1>1, <1>4, <1>6, <1>18, <1>19, TreeFunctions DEF WellFormed

-----------------------------------------------------------------------------
(* Inserting and removing *)

\* Min and Max of two natural numbers.
LEMMA MinOfTwo ==
  ASSUME NEW x \in Nat, NEW y \in Nat
  PROVE  Min({x, y}) = IF x <= y THEN x ELSE y
<1>1. {x, y} \subseteq Nat /\ {x, y} # {}
  OBVIOUS
<1>2. Min({x, y}) \in {x, y} /\ \A z \in {x, y} : Min({x, y}) <= z
  BY <1>1, MinNat
<1>3. QED
  BY <1>2

\* check_location admits the levels that fit between the two neighbours.
LEMMA LocationFits ==
  ASSUME NEW refs, NEW t \in Seq(NodeOf(refs)), LevelsMonotone(t),
         NEW b \in 1..Len(t)+1, NEW level \in ValidLevels(t, b)
  PROVE  /\ level \in Level
         /\ b = 1 => level = 0
         /\ b > 1 => level <= t[b-1].level + 1
         /\ b <= Len(t) => t[b].level <= level
<1>1. CASE b = 1
  <2>1. level = 0
    BY <1>1 DEF ValidLevels
  <2>2. b <= Len(t) => t[b].level = 0
    BY <1>1, Neighbours
  <2>3. QED
    BY <1>1, <2>1, <2>2, MaxLevelAssumption DEF Level
<1>2. CASE b > 1
  <2>1. PICK x \in Nat : x = t[b-1].level
    BY <1>2, LevelsAreLevels
  <2>2. PICK pre \in Nat : pre = Min({t[b-1].level + 1, MaxLevel})
                           /\ pre <= x + 1 /\ pre <= MaxLevel
    <3>1. Min({x + 1, MaxLevel}) = IF x + 1 <= MaxLevel THEN x + 1 ELSE MaxLevel
      BY MinOfTwo, MaxLevelAssumption
    <3>2. QED
      BY <2>1, <3>1, MaxLevelAssumption
  <2>3. CASE b > Len(t)
    <3>1. level \in 0..pre
      BY <1>2, <2>2, <2>3 DEF ValidLevels
    <3>2. QED
      BY <1>2, <2>1, <2>2, <2>3, <3>1, MaxLevelAssumption DEF Level
  <2>4. CASE b <= Len(t)
    <3>1. PICK y \in Nat : y = t[b].level /\ y <= MaxLevel
      BY <2>4, LevelsAreLevels
    <3>2. y <= x + 1
      <4>1. b \in 1..Len(t)
        BY <2>4
      <4>2. t[b].level <= t[b-1].level + 1
        BY <1>2, <4>1, Neighbours
      <4>3. QED
        BY <2>1, <3>1, <4>2
    <3>3. level = y \/ level \in y..pre
      BY <1>2, <2>1, <2>2, <2>4, <3>1 DEF ValidLevels
    <3>4. level \in Nat /\ level <= MaxLevel /\ y <= level /\ level <= x + 1
      BY <2>2, <3>1, <3>2, <3>3, MaxLevelAssumption
    <3>5. level \in Level
      BY <3>4, MaxLevelAssumption DEF Level
    <3>6. level <= t[b-1].level + 1 /\ t[b].level <= level
      BY <2>1, <3>1, <3>4
    <3>7. QED
      BY <1>2, <3>5, <3>6
  <2>5. QED
    BY <2>3, <2>4
<1>3. QED
  BY <1>1, <1>2

\* insert_item at a location it accepts.
LEMMA InsertTree ==
  ASSUME NEW refs, NEW t, WellFormed(t, refs), NEW ref \in refs \ RefsOf(t),
         NEW target, target.before \in 1..Len(t)+1, CheckLocation(t, target)
  PROVE  WellFormed(InsertNode(t, ref, target), refs)
<1>1. t \in Seq(NodeOf(refs)) /\ LevelsMonotone(t)
  BY DEF WellFormed
<1>2. PICK b \in 1..Len(t)+1 : b = target.before
  OBVIOUS
<1>3. PICK level \in ValidLevels(t, b) : level = target.level
  BY <1>2 DEF CheckLocation
<1>4. /\ level \in Level
      /\ b = 1 => level = 0
      /\ b > 1 => level <= t[b-1].level + 1
      /\ b <= Len(t) => t[b].level <= level
  BY <1>1, LocationFits
<1>5. PICK m : m = <<NewNode(ref, level)>>
  OBVIOUS
<1>6. /\ m \in Seq(NodeOf(refs)) /\ Len(m) = 1
      /\ m[1].level = level /\ m[1].item_ref = ref
  BY <1>4, <1>5 DEF NewNode, NodeOf
<1>7. RefsUnique(m)
  BY <1>6 DEF RefsUnique
<1>8. \A j \in 1..1, k \in 1..Len(t) : m[j].item_ref # t[k].item_ref
  BY <1>1, <1>6 DEF RefsOf
<1>9. b <= Len(t) => t[b].level <= m[1].level + 1
  BY <1>1, <1>4, <1>6, LevelsAreLevels DEF Level
<1>10. Fits(t, b, b, m)
  BY <1>4, <1>6, <1>7, <1>8, <1>9 DEF Fits
<1>11. b \in b..Len(t)+1
  BY <1>1
<1>12. WellFormed(SubSeq(t, 1, b-1) \o m \o SubSeq(t, b, Len(t)), refs)
  BY <1>1, <1>6, <1>10, <1>11, ReplaceTree, Zenon
<1>13. QED
  BY <1>2, <1>3, <1>5, <1>12 DEF InsertNode, InsertAt

\* remove_recursive removes a whole subtree.
LEMMA RemoveTree ==
  ASSUME NEW refs, NEW t, WellFormed(t, refs), NEW i \in 1..Len(t)
  PROVE  WellFormed(RemoveRecursive(t, i), refs)
<1>1. t \in Seq(NodeOf(refs)) /\ LevelsMonotone(t)
  BY DEF WellFormed
<1>2. PICK end \in i..Len(t)+1 :
        /\ end = SubtreeEnd(t, i)
        /\ end <= Len(t) => t[end].level <= t[i].level
  BY <1>1, SubtreeEndIs
<1>3. end <= Len(t) => t[end].level \in Nat /\ t[i].level \in Nat
  BY <1>1, LevelsAreLevels
<1>4. i = 1 => t[i].level = 0
  BY <1>1, Neighbours
<1>5. i > 1 => t[i].level <= t[i-1].level + 1
  BY <1>1, Neighbours
<1>6. i > 1 => t[i-1].level \in Nat
  BY <1>1, Neighbours
<1>7. end <= Len(t) /\ i = 1 => t[end].level = 0
  BY <1>2, <1>3, <1>4
<1>8. end <= Len(t) /\ i > 1 => t[end].level <= t[i-1].level + 1
  BY <1>2, <1>3, <1>5, <1>6
<1>9. i \in 1..Len(t)+1
  BY <1>1
<1>10. WellFormed(Cut(t, i, end), refs)
  BY <1>1, <1>7, <1>8, <1>9, CutTree, Zenon
<1>11. QED
  BY <1>2, <1>10 DEF RemoveRecursive

\* A function on the positions of t with nodes as values is a tree.
LEMMA FunctionIsTree ==
  ASSUME NEW refs, NEW t \in Seq(NodeOf(refs)),
         NEW u \in [DOMAIN t -> NodeOf(refs)]
  PROVE  u \in Seq(NodeOf(refs)) /\ Len(u) = Len(t)
OBVIOUS

\* A change of the levels of a tree that keeps them climbing.
LEMMA RelevelledTree ==
  ASSUME NEW refs, NEW t, WellFormed(t, refs),
         NEW u \in [DOMAIN t -> NodeOf(refs)],
         \A k \in 1..Len(t) : u[k].item_ref = t[k].item_ref,
         Len(t) >= 1 => u[1].level = 0,
         \A k \in 2..Len(t) : u[k].level <= u[k-1].level + 1
  PROVE  WellFormed(u, refs)
<1>1. t \in Seq(NodeOf(refs)) /\ Len(t) \in Nat
  BY DEF WellFormed
<1>2. u \in Seq(NodeOf(refs)) /\ Len(u) = Len(t)
  BY <1>1, FunctionIsTree
<1>3. PICK n \in Nat : n = Len(t) /\ n = Len(u)
  BY <1>1, <1>2
<1>4. \A k \in 1..n : LevelsIn(u)[k] = u[k].level /\ RefsIn(u)[k] = u[k].item_ref
  BY <1>2, <1>3, TreeFunctions
<1>5. Climbs(LevelsIn(u), n)
  <2>1. n >= 1 => LevelsIn(u)[1] = 0
    BY <1>3, <1>4
  <2>2. ASSUME NEW k \in 2..n
        PROVE  LevelsIn(u)[k] <= LevelsIn(u)[k-1] + 1
    BY <1>3, <1>4
  <2>3. QED
    BY <2>1, <2>2 DEF Climbs
<1>6. ASSUME NEW k \in 1..n
      PROVE  RefsIn(u)[k] = RefsIn(t)[k]
  <2>1. RefsIn(t)[k] = t[k].item_ref
    BY <1>1, <1>3, TreeFunctions
  <2>2. QED
    BY <1>3, <1>4, <2>1
<1>7. Injective(RefsIn(u), n)
  BY <1>1, <1>3, <1>6, TreeFunctions DEF WellFormed, Injective
<1>8. QED
  BY <1>2, <1>3, <1>5, <1>7, TreeFunctions DEF WellFormed

\* A change of the fold and selection flags.
LEMMA FlaggedTree ==
  ASSUME NEW refs, NEW t, WellFormed(t, refs),
         NEW u \in [DOMAIN t -> NodeOf(refs)],
         \A k \in 1..Len(t) : /\ u[k].item_ref = t[k].item_ref
                              /\ u[k].level = t[k].level
  PROVE  WellFormed(u, refs)
<1>1. t \in Seq(NodeOf(refs)) /\ Len(t) \in Nat /\ LevelsMonotone(t)
  BY DEF WellFormed
<1>2. Len(t) >= 1 => u[1].level = 0
  <2>1. Len(t) >= 1 => t[1].level = 0
    BY <1>1, TreeFunctions DEF Climbs
  <2>2. QED
    BY <1>1, <2>1
<1>3. ASSUME NEW k \in 2..Len(t)
      PROVE  u[k].level <= u[k-1].level + 1
  <2>1. t[k].level <= t[k-1].level + 1
    BY <1>1, TreeFunctions DEF Climbs
  <2>2. k \in 1..Len(t) /\ k-1 \in 1..Len(t)
    BY <1>1
  <2>3. QED
    BY <2>1, <2>2
<1>4. QED
  BY <1>2, <1>3, RelevelledTree

\* xfold: the flags change and what it hides is deselected.
LEMMA FoldTree ==
  ASSUME NEW refs, NEW t, WellFormed(t, refs), NEW i \in 1..Len(t),
         NEW unfolded \in BOOLEAN
  PROVE  WellFormed(XFold(t, i, unfolded), refs)
<1>1. t \in Seq(NodeOf(refs)) /\ DOMAIN t = 1..Len(t)
  BY DEF WellFormed
<1>2. PICK f : f = [t EXCEPT ![i].unfolded = unfolded]
  OBVIOUS
<1>3. ASSUME NEW k \in 1..Len(t)
      PROVE  /\ f[k] \in NodeOf(refs)
             /\ f[k].item_ref = t[k].item_ref /\ f[k].level = t[k].level
  <2>1. t[k] \in NodeOf(refs)
    BY <1>1
  <2>2. f[k] = IF k = i THEN [t[k] EXCEPT !.unfolded = unfolded] ELSE t[k]
    BY <1>1, <1>2
  <2>3. QED
    BY <2>1, <2>2 DEF NodeOf
<1>4. f \in [DOMAIN t -> NodeOf(refs)]
  BY <1>1, <1>2, <1>3
<1>5. CASE unfolded
  BY <1>2, <1>3, <1>4, <1>5, FlaggedTree DEF XFold
<1>6. CASE ~unfolded
  <2>1. PICK g : g = [k \in DOMAIN t |-> IF k \in i..SubtreeEnd(t, i)-1
                        THEN [f[k] EXCEPT !.selected = FALSE] ELSE f[k]]
    OBVIOUS
  <2>2. g = XFold(t, i, unfolded)
    BY <1>2, <1>6, <2>1 DEF XFold
  <2>3. ASSUME NEW k \in 1..Len(t)
        PROVE  /\ g[k] \in NodeOf(refs)
               /\ g[k].item_ref = t[k].item_ref /\ g[k].level = t[k].level
    <3>1. f[k] \in NodeOf(refs)
      BY <1>3
    <3>2. g[k] = f[k] \/ g[k] = [f[k] EXCEPT !.selected = FALSE]
      BY <1>1, <2>1
    <3>3. QED
      BY <1>3, <3>1, <3>2 DEF NodeOf
  <2>4. g \in [DOMAIN t -> NodeOf(refs)]
    BY <1>1, <2>1, <2>3
  <2>5. QED
    BY <2>2, <2>3, <2>4, FlaggedTree
<1>7. QED
  BY <1>5, <1>6

\* xfold_all
LEMMA FoldAllTree ==
  ASSUME NEW refs, NEW t, WellFormed(t, refs), NEW unfolded \in BOOLEAN
  PROVE  WellFormed(XFoldAll(t, unfolded), refs)
<1>1. t \in Seq(NodeOf(refs)) /\ DOMAIN t = 1..Len(t)
  BY DEF WellFormed
<1>2. PICK g : g = XFoldAll(t, unfolded)
  OBVIOUS
<1>3. ASSUME NEW k \in 1..Len(t)
      PROVE  /\ g[k] \in NodeOf(refs)
             /\ g[k].item_ref = t[k].item_ref /\ g[k].level = t[k].level
  <2>1. t[k] \in NodeOf(refs)
    BY <1>1
  <2>2. PICK s \in BOOLEAN : s = (t[k].selected /\ (unfolded \/ t[k].level = 0))
    OBVIOUS
  <2>3. g[k] = [t[k] EXCEPT !.unfolded = unfolded, !.selected = s]
    BY <1>1, <1>2, <2>2 DEF XFoldAll
  <2>4. QED
    BY <2>1, <2>3 DEF NodeOf
<1>4. g \in [DOMAIN t -> NodeOf(refs)]
  BY <1>1, <1>2, <1>3 DEF XFoldAll
<1>5. QED
  BY <1>2, <1>3, <1>4, FlaggedTree

\* xfold_recursive
LEMMA FoldRecursiveTree ==
  ASSUME NEW refs, NEW t, WellFormed(t, refs), NEW i \in 1..Len(t),
         NEW unfolded \in BOOLEAN
  PROVE  WellFormed(XFoldRecursive(t, i, unfolded), refs)
<1>1. t \in Seq(NodeOf(refs)) /\ DOMAIN t = 1..Len(t)
  BY DEF WellFormed
<1>2. PICK g : g = XFoldRecursive(t, i, unfolded)
  OBVIOUS
<1>3. ASSUME NEW k \in 1..Len(t)
      PROVE  /\ g[k] \in NodeOf(refs)
             /\ g[k].item_ref = t[k].item_ref /\ g[k].level = t[k].level
  <2>1. t[k] \in NodeOf(refs)
    BY <1>1
  <2>2. CASE k \in i..SubtreeEnd(t, i)-1
    <3>1. PICK s \in BOOLEAN : s = (t[k].selected /\ (unfolded \/ k = i))
      OBVIOUS
    <3>2. g[k] = [t[k] EXCEPT !.unfolded = unfolded, !.selected = s]
      BY <1>1, <1>2, <2>2, <3>1 DEF XFoldRecursive
    <3>3. QED
      BY <2>1, <3>2 DEF NodeOf
  <2>3. CASE ~(k \in i..SubtreeEnd(t, i)-1)
    <3>1. g[k] = t[k]
      BY <1>1, <1>2, <2>3 DEF XFoldRecursive
    <3>2. QED
      BY <2>1, <3>1
  <2>4. QED
    BY <2>2, <2>3
<1>4. g \in [DOMAIN t -> NodeOf(refs)]
  BY <1>1, <1>2, <1>3 DEF XFoldRecursive
<1>5. QED
  BY <1>2, <1>3, <1>4, FlaggedTree

\* xselect and its variants, at any positions.
LEMMA SelectTree ==
  ASSUME NEW refs, NEW t, WellFormed(t, refs), NEW positions,
         NEW selected \in BOOLEAN
  PROVE  WellFormed(XSelect(t, positions, selected), refs)
<1>1. t \in Seq(NodeOf(refs)) /\ DOMAIN t = 1..Len(t)
  BY DEF WellFormed
<1>2. PICK g : g = XSelect(t, positions, selected)
  OBVIOUS
<1>3. ASSUME NEW k \in 1..Len(t)
      PROVE  /\ g[k] \in NodeOf(refs)
             /\ g[k].item_ref = t[k].item_ref /\ g[k].level = t[k].level
  <2>1. t[k] \in NodeOf(refs)
    BY <1>1
  <2>2. CASE k \in positions
    <3>1. g[k] = [t[k] EXCEPT !.selected = selected]
      BY <1>1, <1>2, <2>2 DEF XSelect
    <3>2. QED
      BY <2>1, <3>1 DEF NodeOf
  <2>3. CASE ~(k \in positions)
    <3>1. g[k] = t[k]
      BY <1>1, <1>2, <2>3 DEF XSelect
    <3>2. QED
      BY <2>1, <3>1
  <2>4. QED
    BY <2>2, <2>3
<1>4. g \in [DOMAIN t -> NodeOf(refs)]
  BY <1>1, <1>2, <1>3 DEF XSelect
<1>5. QED
  BY <1>2, <1>3, <1>4, FlaggedTree

\* remove_dissolve: the node goes, its descendants move out by one level.
LEMMA DissolveTree ==
  ASSUME NEW refs, NEW t, WellFormed(t, refs), NEW i \in 1..Len(t)
  PROVE  WellFormed(RemoveDissolve(t, i), refs)
<1>1. t \in Seq(NodeOf(refs)) /\ LevelsMonotone(t) /\ DOMAIN t = 1..Len(t)
      /\ Len(t) \in Nat
  BY DEF WellFormed
<1>2. PICK n \in Nat : n = Len(t)
  BY <1>1
<1>3. PICK f \in [1..n -> Nat] : /\ \A k \in 1..n : f[k] = t[k].level
                                 /\ Climbs(f, n)
  BY <1>1, <1>2, TreeFunctions
<1>4. PICK end \in i+1..n+1 :
        /\ end = SubtreeEnd(t, i)
        /\ \A k \in i+1..end-1 : f[k] > f[i]
        /\ end <= n => f[end] <= f[i]
  <2>1. PICK end \in i+1..n+1 : end = SubtreeEnd(t, i)
    BY <1>1, <1>2, SubtreeEndIs
  <2>2. \A k \in i+1..end-1 : t[k].level > t[i].level
    BY <1>1, <2>1, SubtreeEndIs
  <2>3. end <= n => t[end].level <= t[i].level
    BY <1>1, <1>2, <2>1, SubtreeEndIs
  <2>4. f[i] = t[i].level /\ (end <= n => f[end] = t[end].level)
    BY <1>2, <1>3, <2>1
  <2>5. ASSUME NEW k \in i+1..end-1
        PROVE  f[k] > f[i]
    <3>1. f[k] = t[k].level
      BY <1>2, <1>3, <2>1
    <3>2. QED
      BY <2>2, <2>4, <3>1
  <2>6. QED
    BY <2>1, <2>3, <2>4, <2>5
<1>5. PICK g : g = [k \in DOMAIN t |-> IF i < k /\ k < SubtreeEnd(t, i)
                      THEN [t[k] EXCEPT !.level = @ - 1] ELSE t[k]]
  OBVIOUS
<1>6. ASSUME NEW k \in 1..n
      PROVE  /\ g[k] \in NodeOf(refs)
             /\ g[k].item_ref = t[k].item_ref
             /\ g[k].level = IF i < k /\ k < end THEN f[k] - 1 ELSE f[k]
  <2>1. t[k] \in NodeOf(refs) /\ f[k] = t[k].level /\ f[k] \in Nat
    BY <1>1, <1>2, <1>3
  <2>2. CASE i < k /\ k < end
    <3>1. g[k] = [t[k] EXCEPT !.level = f[k] - 1]
      BY <1>1, <1>2, <1>4, <1>5, <2>1, <2>2
    <3>2. f[k] - 1 \in Level
      <4>1. f[k] \in Level
        BY <2>1 DEF NodeOf
      <4>2. f[k] > f[i] /\ f[i] \in Nat
        BY <1>2, <1>3, <1>4, <2>2
      <4>3. QED
        BY <4>1, <4>2, MaxLevelAssumption DEF Level
    <3>3. QED
      BY <2>1, <2>2, <3>1, <3>2 DEF NodeOf
  <2>3. CASE ~(i < k /\ k < end)
    <3>1. g[k] = t[k]
      BY <1>1, <1>2, <1>4, <1>5, <2>3
    <3>2. QED
      BY <2>1, <2>3, <3>1
  <2>4. QED
    BY <2>2, <2>3
<1>7. g \in [DOMAIN t -> NodeOf(refs)]
  BY <1>1, <1>2, <1>5, <1>6
<1>8. Len(t) >= 1 => g[1].level = 0
  BY <1>2, <1>3, <1>6 DEF Climbs
<1>9. ASSUME NEW k \in 2..Len(t)
      PROVE  g[k].level <= g[k-1].level + 1
  <2>1. k \in 1..n /\ k-1 \in 1..n /\ f[k] \in Nat /\ f[k-1] \in Nat /\ f[i] \in Nat
    BY <1>2, <1>3
  <2>2. g[k].level = IF i < k /\ k < end THEN f[k] - 1 ELSE f[k]
    BY <1>6, <2>1
  <2>3. g[k-1].level = IF i < k-1 /\ k-1 < end THEN f[k-1] - 1 ELSE f[k-1]
    BY <1>6, <2>1
  <2>4. f[k] <= f[k-1] + 1
    BY <1>2, <1>3 DEF Climbs
  <2>5. k = end => f[k] <= f[i] /\ (k-1 = i \/ f[i] < f[k-1])
    BY <1>2, <1>4
  <2>6. QED
    BY <2>1, <2>2, <2>3, <2>4, <2>5
<1>10. WellFormed(g, refs)
  BY <1>2, <1>6, <1>7, <1>8, <1>9, RelevelledTree
<1>11. g \in Seq(NodeOf(refs)) /\ Len(g) = n
  BY <1>1, <1>2, <1>7, FunctionIsTree
<1>12. PICK b \in i..n+1 : b = i+1
  BY <1>2
<1>13. /\ b <= n /\ i = 1 => g[b].level = 0
       /\ b <= n /\ i > 1 => g[b].level <= g[i-1].level + 1
  <2>1. i \in 1..n /\ f[i] \in Nat /\ (i > 1 => f[i-1] \in Nat)
    BY <1>2, <1>3
  <2>2. b <= n => g[b].level <= f[i]
    <3>1. b <= n => /\ b \in 1..n /\ f[b] \in Nat
                    /\ g[b].level = IF b < end THEN f[b] - 1 ELSE f[b]
      BY <1>2, <1>3, <1>6, <1>12
    <3>2. b <= n => f[b] <= f[i] + 1
      BY <1>2, <1>3, <1>12 DEF Climbs
    <3>3. b <= n /\ b = end => f[b] <= f[i]
      BY <1>4
    <3>4. QED
      BY <1>4, <1>12, <2>1, <3>1, <3>2, <3>3
  <2>3. b <= n => g[b].level \in Nat
    BY <1>11, <1>12, LevelsAreLevels
  <2>4. i = 1 => f[i] = 0
    BY <1>2, <1>3 DEF Climbs
  <2>5. i > 1 => f[i] <= f[i-1] + 1 /\ g[i-1].level = f[i-1]
    <3>1. i > 1 => f[i] <= f[i-1] + 1
      BY <1>2, <1>3 DEF Climbs
    <3>2. i > 1 => i-1 \in 1..n
      BY <1>2
    <3>3. QED
      BY <1>6, <3>1, <3>2
  <2>6. QED
    BY <2>1, <2>2, <2>3, <2>4, <2>5
<1>14. WellFormed(Cut(g, i, b), refs)
  <2>1. i \in 1..Len(g)+1 /\ b \in i..Len(g)+1
    BY <1>2, <1>11, <1>12
  <2>2. /\ b <= Len(g) /\ i = 1 => g[b].level = 0
        /\ b <= Len(g) /\ i > 1 => g[b].level <= g[i-1].level + 1
    BY <1>11, <1>13
  <2>3. QED
    BY <1>10, <1>11, <2>1, <2>2, CutTree, Zenon
<1>15. Cut(g, i, b) = RemoveDissolve(t, i)
  BY <1>5, <1>12 DEF Cut, RemoveDissolve, RemoveAt
<1>16. QED
  BY <1>14, <1>15

-----------------------------------------------------------------------------
(* Shifting a subtree to another level *)

\* The prefix of length k of s.
LEMMA Prefix ==
  ASSUME NEW S, NEW s \in Seq(S), NEW k \in 1..Len(s)
  PROVE  /\ SubSeq(s, 1, k) \in Seq(S)
         /\ Len(SubSeq(s, 1, k)) = k
         /\ DOMAIN SubSeq(s, 1, k) = 1..k
         /\ \A j \in 1..k : SubSeq(s, 1, k)[j] = s[j]
BY SubSeqProperties

\* The levels of a subtree: they climb and none is below the first.
IsSubtree(f, n) ==
  /\ \A k \in 2..n : f[k] <= f[k-1] + 1
  /\ \A k \in 1..n : f[k] >= f[1]

\* r is s with its levels shifted so that the first becomes `level', as far
\* as a u8 can hold them.
IsShifted(r, s, n, level) ==
  /\ \A k \in 1..n : r[k].item_ref = s[k].item_ref
  /\ \A k \in 2..n : r[k].level <= r[k-1].level + 1
  /\ r[1].level \in {level, s[1].level}
  /\ CanShift(s, level) => r[1].level = level /\ \A k \in 1..n : r[k].level >= level
  /\ level >= s[1].level => \A k \in 1..n : r[k].level >= s[k].level

\* shift_subtree_to_level, also when it fails half way upwards.
LEMMA ShiftNodes ==
  ASSUME NEW refs, NEW s \in Seq(NodeOf(refs)), NEW n \in Nat \ {0}, n = Len(s),
         NEW f \in [1..n -> Nat], \A k \in 1..n : f[k] = s[k].level,
         IsSubtree(f, n), NEW level \in Nat,
         CanShift(s, level) \/ level >= f[1]
  PROVE  /\ Shift(s, level) \in Seq(NodeOf(refs))
         /\ Len(Shift(s, level)) = n
         /\ IsShifted(Shift(s, level), s, n, level)
<1> DEFINE can(k) == \A j \in 1..k : f[j] + level - f[1] \in Level
<1>1. DOMAIN s = 1..n
  OBVIOUS
<1>2. ASSUME NEW k \in 1..n
      PROVE  CanShift(SubSeq(s, 1, k), level) <=> can(k)
  <2>1. PICK p : /\ p = SubSeq(s, 1, k) /\ DOMAIN p = 1..k
                 /\ \A j \in 1..k : p[j] = s[j]
    <3>1. k \in 1..Len(s)
      OBVIOUS
    <3>2. /\ DOMAIN SubSeq(s, 1, k) = 1..k
          /\ \A j \in 1..k : SubSeq(s, 1, k)[j] = s[j]
      BY <3>1, Prefix
    <3>3. QED
      BY <3>2, Zenon
  <2>2. \A j \in 1..k : p[j].level = f[j] /\ p[1].level = f[1]
    BY <2>1
  <2>3. CanShift(p, level) <=> can(k)
    BY <2>1, <2>2 DEF CanShift
  <2>4. QED
    BY <2>1, <2>3
<1>3. CanShift(s, level) <=> can(n)
  <2>1. 1 \in 1..n /\ f[1] = s[1].level
    OBVIOUS
  <2>2. ASSUME NEW k \in 1..n
        PROVE  s[k].level + level - s[1].level = f[k] + level - f[1]
    BY <2>1
  <2>3. QED
    BY <1>1, <2>2, Zenon DEF CanShift
<1>4. PICK r : r = Shift(s, level)
  OBVIOUS
<1>5. ASSUME NEW k \in 1..n
      PROVE  /\ r[k] \in NodeOf(refs)
             /\ r[k].item_ref = s[k].item_ref
             /\ r[k].level = IF can(k) THEN f[k] + level - f[1] ELSE f[k]
  <2>1. s[k] \in NodeOf(refs)
    OBVIOUS
  <2>2. CASE can(k)
    <3>1. CanShift(SubSeq(s, 1, k), level)
      BY <1>2, <2>2
    <3>2. r[k] = [s[k] EXCEPT !.level = @ + level - s[1].level]
      BY <1>1, <1>4, <3>1, Zenon DEF Shift
    <3>3. r[k] = [s[k] EXCEPT !.level = f[k] + level - f[1]]
      BY <3>2
    <3>4. f[k] + level - f[1] \in Level
      BY <2>2
    <3>5. QED
      BY <2>1, <2>2, <3>3, <3>4 DEF NodeOf
  <2>3. CASE ~can(k)
    <3>1. ~CanShift(SubSeq(s, 1, k), level)
      BY <1>2, <2>3
    <3>2. r[k] = s[k]
      BY <1>1, <1>4, <3>1, Zenon DEF Shift
    <3>3. QED
      BY <2>1, <2>3, <3>2
  <2>4. QED
    BY <2>2, <2>3
<1>6. r \in [DOMAIN s -> NodeOf(refs)]
  BY <1>1, <1>4, <1>5, Zenon DEF Shift
<1>7. r \in Seq(NodeOf(refs)) /\ Len(r) = n
  BY <1>6, FunctionIsTree
<1>8. \A k \in 2..n : can(k) => can(k-1)
  OBVIOUS
<1>9. \A k \in 1..n : can(n) => can(k)
  OBVIOUS
<1> HIDE DEF can
<1>10. ASSUME NEW k \in 2..n
       PROVE  r[k].level <= r[k-1].level + 1
  <2>1. k \in 1..n /\ k-1 \in 1..n /\ 1 \in 1..n
    OBVIOUS
  <2>2. /\ r[k].level = IF can(k) THEN f[k] + level - f[1] ELSE f[k]
        /\ r[k-1].level = IF can(k-1) THEN f[k-1] + level - f[1] ELSE f[k-1]
    BY <1>5, <2>1
  <2>3. f[k] <= f[k-1] + 1
    BY DEF IsSubtree
  <2>4. can(k) => can(k-1)
    BY <1>8
  <2>5. can(n) => can(k) /\ can(k-1)
    BY <1>9, <2>1
  <2>6. f[k] \in Nat /\ f[k-1] \in Nat /\ f[1] \in Nat
    BY <2>1
  <2>7. CASE can(k)
    <3>1. /\ r[k].level = f[k] + level - f[1]
          /\ r[k-1].level = f[k-1] + level - f[1]
      BY <2>2, <2>4, <2>7
    <3>2. QED
      BY <2>3, <2>6, <3>1
  <2>8. CASE ~can(k)
    <3>1. level >= f[1]
      BY <1>3, <2>1, <2>5, <2>8
    <3>2. r[k].level = f[k] /\ f[k-1] <= r[k-1].level
      BY <2>2, <2>6, <2>8, <3>1
    <3>3. r[k-1].level \in Int
      BY <2>2, <2>6
    <3>4. QED
      BY <2>3, <2>6, <3>2, <3>3
  <2>9. QED
    BY <2>7, <2>8
<1>11. ASSUME CanShift(s, level), NEW k \in 1..n
       PROVE  r[1].level = level /\ r[k].level >= level
  <2>1. can(k) /\ can(1)
    BY <1>3, <1>9, <1>11
  <2>2. r[k].level = f[k] + level - f[1] /\ r[1].level = level
    BY <1>5, <2>1
  <2>3. f[k] >= f[1]
    BY DEF IsSubtree
  <2>4. QED
    BY <2>2, <2>3
<1>12. ASSUME level >= s[1].level, NEW k \in 1..n
       PROVE  r[k].level >= s[k].level
  BY <1>5, <1>12
<1>13. r[1].level \in {level, s[1].level}
  BY <1>5
<1>14. IsShifted(r, s, n, level)
  BY <1>5, <1>10, <1>11, <1>12, <1>13 DEF IsShifted
<1>15. QED
  BY <1>4, <1>7, <1>14

\* s is the subtree at i, which ends before end.
SubtreeIs(t, i, s, end) ==
  /\ end = SubtreeEnd(t, i)
  /\ s = SubSeq(t, i, end-1)
  /\ Len(s) = end - i
  /\ \A k \in 1..end-i : s[k] = t[i+k-1]
  /\ RefsUnique(s)
  /\ IsSubtree(LevelsIn(s), end-i)

\* The nodes of the subtree at i, as a sequence of their own.
LEMMA SubtreeNodes ==
  ASSUME NEW refs, NEW t, WellFormed(t, refs), NEW i \in 1..Len(t)
  PROVE  \E s \in Seq(NodeOf(refs)), end \in i+1..Len(t)+1 : SubtreeIs(t, i, s, end)
<1>1. t \in Seq(NodeOf(refs)) /\ Len(t) \in Nat
  BY DEF WellFormed
<1>2. PICK n \in Nat : n = Len(t)
  BY <1>1
<1>3. PICK end \in i+1..n+1 :
        /\ end = SubtreeEnd(t, i)
        /\ \A k \in i+1..end-1 : t[k].level > t[i].level
  BY <1>1, <1>2, SubtreeEndIs
<1>4. PICK s \in Seq(NodeOf(refs)) :
        /\ s = SubSeq(t, i, end-1)
        /\ Len(s) = end - i
        /\ \A k \in 1..end-i : s[k] = t[i+k-1]
  <2>1. PICK e \in 0..n : e = end-1 /\ e >= i
    OBVIOUS
  <2>2. SubSeq(t, i, e) \in Seq(NodeOf(refs)) /\ Len(SubSeq(t, i, e)) = e-i+1
        /\ \A k \in 1..e-i+1 : SubSeq(t, i, e)[k] = t[i+k-1]
    BY <1>1, <1>2, <2>1, SubSeqProperties
  <2>3. PICK s : s = SubSeq(t, i, e)
    OBVIOUS
  <2>4. s \in Seq(NodeOf(refs)) /\ Len(s) = e-i+1 /\ \A k \in 1..e-i+1 : s[k] = t[i+k-1]
    BY <2>2, <2>3, Zenon
  <2>5. s = SubSeq(t, i, end-1)
    BY <2>1, <2>3, Zenon
  <2>6. e-i+1 = end-i
    BY <2>1
  <2>7. Len(s) = end-i /\ \A k \in 1..end-i : s[k] = t[i+k-1]
    BY <2>4, <2>6, Zenon
  <2>8. QED
    BY <2>4, <2>5, <2>7, Zenon
<1>5. PICK m \in Nat \ {0} : m = end-i
  OBVIOUS
<1>6. PICK f \in [1..n -> Nat] : f = LevelsIn(t) /\ Climbs(f, n)
                                 /\ \A k \in 1..n : f[k] = t[k].level
  BY <1>1, <1>2, TreeFunctions DEF WellFormed
<1>7. PICK g \in [1..m -> Nat] : g = LevelsIn(s)
                                 /\ \A k \in 1..m : g[k] = s[k].level
  <2>1. Len(s) = m
    BY <1>4, <1>5
  <2>2. LevelsIn(s) \in [1..m -> Nat] /\ \A k \in 1..m : LevelsIn(s)[k] = s[k].level
    BY <2>1, TreeFunctions
  <2>3. QED
    BY <2>2, Zenon
<1>8. ASSUME NEW k \in 1..m
      PROVE  g[k] = f[i+k-1] /\ i+k-1 \in 1..n
  <2>1. i+k-1 \in 1..n
    BY <1>2, <1>5
  <2>2. s[k] = t[i+k-1]
    BY <1>4, <1>5
  <2>3. QED
    BY <1>6, <1>7, <2>1, <2>2
<1>9. IsSubtree(g, m)
  <2>1. ASSUME NEW k \in 2..m
        PROVE  g[k] <= g[k-1] + 1
    <3>1. g[k] = f[i+k-1] /\ g[k-1] = f[i+k-2] /\ i+k-1 \in 2..n
      BY <1>8
    <3>2. f[i+k-1] <= f[i+k-2] + 1
      BY <1>6, <3>1 DEF Climbs
    <3>3. QED
      BY <3>1, <3>2
  <2>2. ASSUME NEW k \in 1..m
        PROVE  g[k] >= g[1]
    <3>1. g[1] = f[i]
      BY <1>8
    <3>2. CASE k = 1
      BY <3>2
    <3>3. CASE k # 1
      <4>1. i+k-1 \in i+1..end-1 /\ i+k-1 \in 1..n
        BY <1>2, <1>5, <3>3
      <4>2. f[i+k-1] > f[i]
        BY <1>2, <1>3, <1>6, <4>1
      <4>3. QED
        BY <1>8, <3>1, <4>2
    <3>4. QED
      BY <3>2, <3>3
  <2>3. QED
    BY <2>1, <2>2 DEF IsSubtree
<1>10. RefsUnique(s)
  <2>1. DOMAIN s = 1..m
    BY <1>4, <1>5
  <2>2. ASSUME NEW j \in 1..m, NEW k \in 1..m, s[j].item_ref = s[k].item_ref
        PROVE  j = k
    <3>1. i+j-1 \in DOMAIN t /\ i+k-1 \in DOMAIN t
      BY <1>1, <1>2, <1>8
    <3>2. s[j] = t[i+j-1] /\ s[k] = t[i+k-1]
      BY <1>4, <1>5
    <3>3. i+j-1 = i+k-1
      BY <2>2, <3>1, <3>2 DEF WellFormed, RefsUnique
    <3>4. QED
      BY <3>3
  <2>3. QED
    BY <2>1, <2>2 DEF RefsUnique
<1>11. QED
  BY <1>2, <1>3, <1>4, <1>5, <1>7, <1>9, <1>10 DEF SubtreeIs

\* The new level of the subtree at i fits between the node before it and the
\* node after it, and the shift goes up or is complete.
ShiftFits(t, i, level) ==
  /\ \/ CanShift(SubSeq(t, i, SubtreeEnd(t, i) - 1), level)
     \/ level >= t[i].level
  /\ i = 1 => level = 0
  /\ i > 1 => level <= t[i-1].level + 1
  /\ SubtreeEnd(t, i) <= Len(t) => t[SubtreeEnd(t, i)].level <= level + 1

\* The levels f of the n nodes s are those of a subtree that can be shifted to
\* `level', or is not shifted upwards.
Shiftable(s, n, f, level) ==
  /\ n \in Nat \ {0} /\ n = Len(s) /\ level \in Nat
  /\ f \in [1..n -> Nat] /\ \A k \in 1..n : f[k] = s[k].level
  /\ IsSubtree(f, n)
  /\ CanShift(s, level) \/ level >= f[1]

\* ShiftNodes, with what it asks of the nodes in one predicate.
LEMMA ShiftableNodes ==
  ASSUME NEW refs, NEW s \in Seq(NodeOf(refs)), NEW n, NEW f, NEW level,
         Shiftable(s, n, f, level)
  PROVE  /\ Shift(s, level) \in Seq(NodeOf(refs))
         /\ Len(Shift(s, level)) = n
         /\ IsShifted(Shift(s, level), s, n, level)
<1>1. /\ n \in Nat \ {0} /\ n = Len(s) /\ level \in Nat
      /\ f \in [1..n -> Nat] /\ \A k \in 1..n : f[k] = s[k].level
      /\ IsSubtree(f, n)
      /\ CanShift(s, level) \/ level >= f[1]
  BY Zenon DEF Shiftable
<1>2. QED
  BY <1>1, ShiftNodes

\* Nodes that show what unique nodes show are unique.
LEMMA SameRefs ==
  ASSUME NEW r, NEW s, NEW n, DOMAIN r = 1..n, DOMAIN s = 1..n, RefsUnique(s),
         \A k \in 1..n : r[k].item_ref = s[k].item_ref
  PROVE  RefsUnique(r)
<1>1. ASSUME NEW i \in 1..n, NEW j \in 1..n, r[i].item_ref = r[j].item_ref
      PROVE  i = j
  <2>1. s[i].item_ref = s[j].item_ref
    BY <1>1
  <2>2. QED
    BY <2>1 DEF RefsUnique
<1>2. QED
  BY <1>1 DEF RefsUnique

\* A shift in place, also one that stops half way, keeps a tree well formed.
LEMMA ShiftAtTree ==
  ASSUME NEW refs, NEW t, WellFormed(t, refs), NEW i \in 1..Len(t), NEW level \in Nat,
         ShiftFits(t, i, level)
  PROVE  WellFormed(ShiftAt(t, i, level).tree, refs)
<1>1. t \in Seq(NodeOf(refs)) /\ Len(t) \in Nat /\ LevelsMonotone(t)
  BY DEF WellFormed
<1>2. PICK s \in Seq(NodeOf(refs)), end \in i+1..Len(t)+1 :
        /\ end = SubtreeEnd(t, i)
        /\ s = SubSeq(t, i, end-1)
        /\ Len(s) = end - i
        /\ \A k \in 1..end-i : s[k] = t[i+k-1]
        /\ RefsUnique(s)
        /\ IsSubtree(LevelsIn(s), end-i)
  <2>1. \E s \in Seq(NodeOf(refs)), end \in i+1..Len(t)+1 : SubtreeIs(t, i, s, end)
    BY SubtreeNodes
  <2>2. QED
    BY <2>1, Zenon DEF SubtreeIs
<1>3. PICK n \in Nat \ {0} : n = end-i /\ n = Len(s)
  BY <1>2
<1>4. PICK f \in [1..n -> Nat] : f = LevelsIn(s) /\ \A k \in 1..n : f[k] = s[k].level
  <2>1. Len(s) = n
    BY <1>3
  <2>2. LevelsIn(s) \in [1..n -> Nat] /\ \A k \in 1..n : LevelsIn(s)[k] = s[k].level
    BY <2>1, TreeFunctions
  <2>3. QED
    BY <2>2, Zenon
<1>5. f[1] = t[i].level /\ s[1] = t[i]
  BY <1>2, <1>3, <1>4
<1>6. CanShift(s, level) \/ level >= f[1]
  BY <1>2, <1>5 DEF ShiftFits
<1>7. IsSubtree(f, n)
  BY <1>2, <1>3, <1>4
<1>8. PICK r \in Seq(NodeOf(refs)) :
        r = Shift(s, level) /\ Len(r) = n /\ IsShifted(r, s, n, level)
  <2>1. n = Len(s) /\ \A k \in 1..n : f[k] = s[k].level
    BY <1>3, <1>4
  <2>2. /\ Shift(s, level) \in Seq(NodeOf(refs))
        /\ Len(Shift(s, level)) = n
        /\ IsShifted(Shift(s, level), s, n, level)
    <3>1. Shiftable(s, n, f, level)
      BY <1>6, <1>7, <2>1 DEF Shiftable
    <3>2. QED
      BY <3>1, ShiftableNodes
  <2>3. QED
    BY <2>2, Zenon
<1>9. \A k \in 1..n : r[k].item_ref = s[k].item_ref
  BY <1>8 DEF IsShifted
<1>10. r[1].level \in {level, t[i].level}
  BY <1>5, <1>8 DEF IsShifted
<1>11. \A k \in 1..n : r[k].level \in Nat
  BY <1>8, LevelsAreLevels
<1>12. i = 1 => t[i].level = 0
  BY <1>1, Neighbours
<1>13. i > 1 => t[i].level <= t[i-1].level + 1
  BY <1>1, Neighbours
<1>14. end <= Len(t) => t[end].level <= r[n].level + 1
  <2>1. SUFFICES ASSUME end <= Len(t)
                 PROVE  t[end].level <= r[n].level + 1
    OBVIOUS
  <2>2. t[end].level <= level + 1
    BY <1>2, <2>1 DEF ShiftFits
  <2>3. t[end].level <= t[i].level
    BY <1>1, <1>2, <2>1, SubtreeEndIs
  <2>4. t[end].level \in Nat /\ t[i].level \in Nat
    BY <1>1, <2>1, LevelsAreLevels
  <2>5. CASE CanShift(s, level)
    <3>1. r[n].level >= level
      BY <1>8, <2>5 DEF IsShifted
    <3>2. PICK y \in Nat, z \in Nat : y = t[end].level /\ z = r[n].level
      <4>1. r[n].level \in Nat
        BY <1>11
      <4>2. QED
        BY <2>4, <4>1, Zenon
    <3>3. y <= level + 1 /\ z >= level
      BY <2>2, <3>1, <3>2
    <3>4. y <= z + 1
      BY <3>3
    <3>5. QED
      BY <3>2, <3>4
  <2>6. CASE level >= f[1]
    <3>1. r[n].level >= s[n].level
      BY <1>5, <1>8, <2>6 DEF IsShifted
    <3>2. f[n] >= f[1]
      BY <1>7 DEF IsSubtree
    <3>3. f[n] = s[n].level /\ f[n] \in Nat /\ r[n].level \in Nat
      BY <1>4, <1>11
    <3>4. PICK x \in Nat, y \in Nat, z \in Nat : x = t[i].level /\ y = t[end].level /\ z = r[n].level
      BY <2>4, <3>3
    <3>5. f[1] = x
      BY <1>5, <3>4
    <3>6. y <= x /\ x <= f[n] /\ z >= f[n]
      BY <2>3, <3>1, <3>2, <3>3, <3>4, <3>5
    <3>7. y <= z + 1
      BY <3>3, <3>6
    <3>8. QED
      BY <3>4, <3>7
  <2>7. QED
    BY <1>6, <2>5, <2>6
<1>15. RefsUnique(r)
  <2>1. DOMAIN r = 1..n /\ DOMAIN s = 1..n
    BY <1>3, <1>8
  <2>2. RefsUnique(s)
    BY <1>2
  <2>3. QED
    BY <1>9, <2>1, <2>2, SameRefs
<1>16. ASSUME NEW j \in 1..n, NEW k \in 1..Len(t), k < i \/ k >= end
       PROVE  r[j].item_ref # t[k].item_ref
  <2>1. i+j-1 \in 1..Len(t) /\ DOMAIN t = 1..Len(t)
    BY <1>1, <1>3
  <2>2. r[j].item_ref = t[i+j-1].item_ref
    <3>1. r[j].item_ref = s[j].item_ref
      BY <1>9
    <3>2. s[j] = t[i+j-1]
      BY <1>2, <1>3
    <3>3. QED
      BY <3>1, <3>2
  <2>3. i+j-1 # k
    BY <1>3, <1>16
  <2>4. QED
    BY <2>1, <2>2, <2>3 DEF WellFormed, RefsUnique
<1>17. Fits(t, i, end, r)
  <2>1. \A k \in 2..n : r[k].level <= r[k-1].level + 1
    BY <1>8 DEF IsShifted
  <2>2. i = 1 => r[1].level = 0
    BY <1>10, <1>12 DEF ShiftFits
  <2>3. i > 1 => r[1].level <= t[i-1].level + 1
    BY <1>10, <1>13 DEF ShiftFits
  <2>4. Len(r) = n /\ n >= 1
    BY <1>8
  <2>5. \A j \in 1..n, k \in 1..Len(t) :
           k < i \/ k >= end => r[j].item_ref # t[k].item_ref
    BY <1>16, Zenon
  <2>6. QED
    BY <1>14, <1>15, <2>1, <2>2, <2>3, <2>4, <2>5, Zenon DEF Fits
<1>18. i \in 1..Len(t)+1 /\ end \in i..Len(t)+1
  BY <1>1
<1>19. WellFormed(SubSeq(t, 1, i-1) \o r \o SubSeq(t, end, Len(t)), refs)
  BY <1>1, <1>17, <1>18, ReplaceTree, Zenon
<1>20. QED
  BY <1>2, <1>8, <1>19, Zenon DEF ShiftAt

-----------------------------------------------------------------------------
(* Moving one subtree *)

\* What is left when the subtree at i is taken out: no item of the subtree.
LEMMA RestOfTree ==
  ASSUME NEW refs, NEW t, WellFormed(t, refs), NEW i \in 1..Len(t),
         NEW end \in i+1..Len(t)+1, end = SubtreeEnd(t, i)
  PROVE  /\ WellFormed(Cut(t, i, end), refs)
         /\ Len(Cut(t, i, end)) = Len(t) - (end - i)
         /\ \A j \in i..end-1, k \in 1..Len(Cut(t, i, end)) :
              Cut(t, i, end)[k].item_ref # t[j].item_ref
<1>1. t \in Seq(NodeOf(refs)) /\ Len(t) \in Nat
  BY DEF WellFormed
<1>2. WellFormed(Cut(t, i, end), refs)
  BY RemoveTree DEF RemoveRecursive
<1>3. i \in 1..Len(t)+1 /\ end \in i..Len(t)+1
  BY <1>1
<1>4. PICK u : u = Cut(t, i, end) /\ IsCut(u, t, i, end)
  BY <1>1, <1>3, CutElements, Zenon
<1>5. Len(u) = Len(t) - (end - i)
  BY <1>4 DEF IsCut
<1>6. ASSUME NEW j \in i..end-1, NEW k \in 1..Len(u)
      PROVE  u[k].item_ref # t[j].item_ref
  <2>1. PICK x \in 1..Len(t) : x \notin i..end-1 /\ u[k] = t[x]
    <3>1. CASE k < i
      <4>1. u[k] = t[k]
        BY <1>4, <3>1 DEF IsCut
      <4>2. k \in 1..Len(t) /\ k \notin i..end-1
        BY <1>1, <1>5, <3>1
      <4>3. QED
        BY <4>1, <4>2
    <3>2. CASE k >= i
      <4>1. u[k] = t[k + (end - i)]
        BY <1>4, <3>2 DEF IsCut
      <4>2. k + (end - i) \in 1..Len(t) /\ k + (end - i) \notin i..end-1
        BY <1>1, <1>5, <3>2
      <4>3. QED
        BY <4>1, <4>2
    <3>3. QED
      BY <3>1, <3>2
  <2>2. j \in DOMAIN t /\ x \in DOMAIN t /\ x # j
    BY <1>1, <2>1
  <2>3. QED
    BY <2>1, <2>2 DEF WellFormed, RefsUnique
<1>7. QED
  BY <1>2, <1>4, <1>5, <1>6

\* move_items of one subtree to any position and level: an accepted location
\* fits the shifted subtree, every other leaves the tree as it was.
LEMMA MoveSubtreeTree ==
  ASSUME NEW refs, NEW t, WellFormed(t, refs), NEW i \in 1..Len(t),
         NEW target, target.before \in 1..Len(t)+1, target.level \in Nat
  PROVE  WellFormed(MoveSubtree(t, i, target).tree, refs)
<1> DEFINE level == target.level
<1>1. t \in Seq(NodeOf(refs)) /\ Len(t) \in Nat
  BY DEF WellFormed
<1>2. PICK s \in Seq(NodeOf(refs)), end \in i+1..Len(t)+1 :
        /\ end = SubtreeEnd(t, i)
        /\ s = SubSeq(t, i, end-1)
        /\ Len(s) = end - i
        /\ \A k \in 1..end-i : s[k] = t[i+k-1]
        /\ RefsUnique(s)
        /\ IsSubtree(LevelsIn(s), end-i)
  <2>1. \E s \in Seq(NodeOf(refs)), end \in i+1..Len(t)+1 : SubtreeIs(t, i, s, end)
    BY SubtreeNodes
  <2>2. QED
    BY <2>1, Zenon DEF SubtreeIs
<1>3. PICK rest \in Seq(NodeOf(refs)) :
        /\ rest = Cut(t, i, end)
        /\ WellFormed(rest, refs)
        /\ \A j \in i..end-1, k \in 1..Len(rest) : rest[k].item_ref # t[j].item_ref
  <2>1. PICK rest : rest = Cut(t, i, end)
    OBVIOUS
  <2>2. /\ WellFormed(rest, refs)
        /\ \A j \in i..end-1, k \in 1..Len(rest) : rest[k].item_ref # t[j].item_ref
    <3>1. end = SubtreeEnd(t, i)
      BY <1>2
    <3>2. /\ WellFormed(Cut(t, i, end), refs)
          /\ Len(Cut(t, i, end)) = Len(t) - (end - i)
          /\ \A j \in i..end-1, k \in 1..Len(Cut(t, i, end)) :
               Cut(t, i, end)[k].item_ref # t[j].item_ref
      BY <3>1, RestOfTree
    <3>3. QED
      BY <2>1, <3>2, Zenon
  <2>3. QED
    BY <2>1, <2>2 DEF WellFormed
<1>4. PICK b : b = IF i < target.before THEN target.before - (end - i)
                   ELSE target.before
  OBVIOUS
<1>5. PICK st : st = Extract(t, NothingMoved(t, target), i, level)
  OBVIOUS
<1>6. MoveSubtree(t, i, target).tree = Place(t, st, level).tree
  BY <1>5, Zenon DEF MoveSubtree
<1>7. \/ st.status # "ok"
      \/ /\ st = [status |-> "ok", before |-> b, rest |-> rest,
                  moved |-> Shift(s, level) \o <<>>]
         /\ target.before \notin i+1..end-1
         /\ CanShift(s, level)
  BY <1>2, <1>3, <1>4, <1>5 DEF Extract, NothingMoved
<1>8. CASE st.status # "ok"
  BY <1>6, <1>8 DEF Place
<1>9. CASE st.status = "ok" /\ ~CheckLocation(rest, [before |-> b, level |-> level])
  BY <1>6, <1>7, <1>9 DEF Place
<1>10. CASE st.status = "ok" /\ CheckLocation(rest, [before |-> b, level |-> level])
  <2>1. /\ st = [status |-> "ok", before |-> b, rest |-> rest,
                 moved |-> Shift(s, level) \o <<>>]
        /\ target.before \notin i+1..end-1
        /\ CanShift(s, level)
    BY <1>7, <1>10
  <2>2. PICK n \in Nat \ {0} : n = end-i /\ n = Len(s)
    BY <1>2
  <2>3. PICK f \in [1..n -> Nat] : f = LevelsIn(s) /\ \A k \in 1..n : f[k] = s[k].level
    <3>1. Len(s) = n
      BY <2>2
    <3>2. LevelsIn(s) \in [1..n -> Nat] /\ \A k \in 1..n : LevelsIn(s)[k] = s[k].level
      BY <3>1, TreeFunctions
    <3>3. QED
      BY <3>2, Zenon
  <2>4. IsSubtree(f, n)
    BY <1>2, <2>2, <2>3
  <2>5. level \in Nat /\ (CanShift(s, level) \/ level >= f[1])
    BY <2>1
  <2>6. PICK r \in Seq(NodeOf(refs)) :
          r = Shift(s, level) /\ Len(r) = n /\ IsShifted(r, s, n, level)
    BY <2>2, <2>3, <2>4, <2>5, ShiftNodes, Zenon
  <2>7. MoveSubtree(t, i, target).tree
          = SubSeq(rest, 1, b-1) \o r \o SubSeq(rest, b, Len(rest))
    <3>1. r \o <<>> = r
      BY ConcatEmptySeq
    <3>2. st = [status |-> "ok", before |-> b, rest |-> rest, moved |-> r]
      BY <2>1, <2>6, <3>1, Zenon
    <3>3. QED
      BY <1>6, <1>10, <3>2 DEF Place
  <2>8. b <= Len(rest) + 1 /\ level \in ValidLevels(rest, b)
    BY <1>10 DEF CheckLocation
  <2>9. b \in 1..Len(rest)+1
    <3>1. b \in Nat /\ b >= 1
      <4>1. PICK x \in Nat : x = target.before /\ x >= 1
        BY <1>1
      <4>2. x >= end \/ x <= i
        BY <2>1, <4>1
      <4>3. b = IF i < x THEN x - (end - i) ELSE x
        BY <1>4, <4>1
      <4>4. PICK e \in Nat, k \in Nat \ {0} : e = end /\ k = i
        BY <1>1
      <4>5. x >= e \/ x <= k
        BY <4>2, <4>4
      <4>6. b = IF k < x THEN x - (e - k) ELSE x
        BY <4>3, <4>4
      <4>7. CASE k < x
        BY <4>5, <4>6, <4>7
      <4>8. CASE ~(k < x)
        BY <4>1, <4>6, <4>8
      <4>9. QED
        BY <4>7, <4>8
    <3>2. Len(rest) \in Nat
      OBVIOUS
    <3>3. QED
      BY <2>8, <3>1, <3>2
  <2>10. /\ b = 1 => level = 0
         /\ b > 1 => level <= rest[b-1].level + 1
         /\ b <= Len(rest) => rest[b].level <= level
    BY <1>3, <2>8, <2>9, LocationFits DEF WellFormed
  <2>11. r[1].level = level /\ r[n].level >= level
    BY <2>1, <2>6 DEF IsShifted
  <2>12. r[n].level \in Nat /\ (b <= Len(rest) => rest[b].level \in Nat)
    <3>1. n \in 1..Len(r)
      BY <2>6
    <3>2. r[n].level \in Nat
      BY <3>1, LevelsAreLevels
    <3>3. b <= Len(rest) => b \in 1..Len(rest)
      BY <2>9
    <3>4. b <= Len(rest) => rest[b].level \in Nat
      BY <3>3, LevelsAreLevels
    <3>5. QED
      BY <3>2, <3>4
  <2>13. ASSUME NEW j \in 1..n
         PROVE  r[j].item_ref = t[i+j-1].item_ref /\ i+j-1 \in i..end-1
    <3>1. r[j].item_ref = s[j].item_ref
      BY <2>6 DEF IsShifted
    <3>2. s[j] = t[i+j-1]
      BY <1>2, <2>2
    <3>3. i+j-1 \in i..end-1
      BY <2>2
    <3>4. QED
      BY <3>1, <3>2, <3>3
  <2>14. \A j \in 1..n, k \in 1..Len(rest) : r[j].item_ref # rest[k].item_ref
    BY <1>3, <2>13
  <2>15. RefsUnique(r)
    <3>1. DOMAIN r = 1..n /\ DOMAIN s = 1..n
      BY <2>2, <2>6
    <3>2. \A k \in 1..n : r[k].item_ref = s[k].item_ref
      BY <2>6 DEF IsShifted
    <3>3. RefsUnique(s)
      BY <1>2
    <3>4. QED
      BY <3>1, <3>2, <3>3, SameRefs
  <2>16. Fits(rest, b, b, r)
    <3>1. \A k \in 2..n : r[k].level <= r[k-1].level + 1
      BY <2>6 DEF IsShifted
    <3>2. b = 1 => r[1].level = 0
      BY <2>10, <2>11
    <3>3. b > 1 => r[1].level <= rest[b-1].level + 1
      BY <2>10, <2>11
    <3>4. Len(r) = n /\ n >= 1
      BY <2>6
    <3>5. b <= Len(rest) => rest[b].level <= r[n].level + 1
      <4>1. PICK x, y, l : x = rest[b].level /\ y = r[n].level /\ l = level
        OBVIOUS
      <4>2. b <= Len(rest) => x <= l /\ x \in Nat
        BY <2>10, <2>12, <4>1
      <4>3. y >= l /\ y \in Nat
        BY <2>11, <2>12, <4>1
      <4>4. l \in Nat
        BY <4>1
      <4>5. x <= l /\ x \in Nat => x <= y + 1
        BY <4>3, <4>4
      <4>6. b <= Len(rest) => x <= y + 1
        BY <4>2, <4>5, Zenon
      <4>7. QED
        BY <4>1, <4>6, Zenon
    <3>6. QED
      BY <2>14, <2>15, <3>1, <3>2, <3>3, <3>4, <3>5, Zenon DEF Fits
  <2>17. b \in b..Len(rest)+1
    BY <2>9
  <2>18. WellFormed(SubSeq(rest, 1, b-1) \o r \o SubSeq(rest, b, Len(rest)), refs)
    BY <1>3, <2>9, <2>16, <2>17, ReplaceTree, Zenon
  <2>19. QED
    BY <2>7, <2>18, Zenon
<1>11. QED
  BY <1>8, <1>9, <1>10

-----------------------------------------------------------------------------
(* Moving by one step *)

\* visible_predecessor: a position above i, no deeper than the item just above.
LEMMA PredecessorIs ==
  ASSUME NEW refs, NEW t \in Seq(NodeOf(refs)), NEW i \in 2..Len(t)
  PROVE  /\ VisiblePredecessor(t, i) \in 1..i-1
         /\ t[VisiblePredecessor(t, i)].level <= t[i-1].level
<1> DEFINE above  == {j \in 1..i-1 : t[j].level <= t[i].level} \cup {1}
           stop   == Max(above)
           folded == {j \in stop..i-2 :
                        /\ ~t[j].unfolded
                        /\ \A k \in j+1..i-1 : t[k].level > t[j].level}
<1>1. i \in Nat /\ i-1 \in 1..Len(t)
  OBVIOUS
<1>2. stop \in 1..i-1
  <2>1. above \subseteq 0..i-1 /\ above # {} /\ above \subseteq 1..i-1
    OBVIOUS
  <2>2. PICK n \in Nat : n = i-1
    BY <1>1
  <2>3. PICK T : T = above
    OBVIOUS
  <2>4. T \subseteq 0..n /\ T # {}
    BY <2>1, <2>2, <2>3
  <2>5. Max(T) \in T
    BY <2>4, MaxUpTo
  <2>6. QED
    BY <2>1, <2>3, <2>5
<1> HIDE DEF stop
<1>3. folded \cup {i-1} \subseteq Nat /\ folded \cup {i-1} # {}
  BY <1>2
<1>4. PICK p \in folded \cup {i-1} : p = Min(folded \cup {i-1})
  BY <1>3, MinNat
<1>5. VisiblePredecessor(t, i) = p
  <2>1. i # 1
    OBVIOUS
  <2>2. VisiblePredecessor(t, i) = Min(folded \cup {i-1})
    BY <2>1, Zenon DEF VisiblePredecessor, stop
  <2>3. QED
    BY <1>4, <2>2, Zenon
<1>6. p \in 1..i-1
  BY <1>2, <1>4
<1>7. t[p].level \in Nat /\ t[i-1].level \in Nat
  BY <1>1, <1>6, LevelsAreLevels
<1>8. t[p].level <= t[i-1].level
  <2>1. CASE p = i-1
    BY <1>7, <2>1
  <2>2. CASE p # i-1
    <3>1. \A k \in p+1..i-1 : t[k].level > t[p].level
      BY <1>4, <2>2
    <3>2. i-1 \in p+1..i-1
      BY <1>6, <2>2
    <3>3. QED
      BY <1>7, <3>1, <3>2
  <2>3. QED
    BY <2>1, <2>2
<1>9. QED
  BY <1>5, <1>6, <1>8

\* get_visible: a visible item is somewhere in the tree.
LEMMA DisplayedIs ==
  ASSUME NEW t, NEW v
  PROVE  ToDisplayed(t, v) = 0 \/ ToDisplayed(t, v) \in DOMAIN t
<1> DEFINE visible == VisiblePositions(t)
           at      == {i \in visible : RowIn(visible, i) = v}
<1>1. at \subseteq DOMAIN t
  BY DEF VisiblePositions
<1>2. ToDisplayed(t, v) = IF at = {} THEN 0 ELSE CHOOSE i \in at : TRUE
  BY Zenon DEF ToDisplayed
<1> HIDE DEF at
<1>3. at # {} => (CHOOSE i \in at : TRUE) \in at
  OBVIOUS
<1>4. QED
  BY <1>1, <1>2, <1>3

\* A subtree that is not at level 0 can always be shifted out by one.
LEMMA CanShiftOut ==
  ASSUME NEW refs, NEW t, WellFormed(t, refs), NEW i \in 1..Len(t),
         NEW level \in Nat \ {0}, level = t[i].level
  PROVE  CanShift(SubSeq(t, i, SubtreeEnd(t, i) - 1), level - 1)
<1>1. t \in Seq(NodeOf(refs)) /\ Len(t) \in Nat
  BY DEF WellFormed
<1>2. PICK s \in Seq(NodeOf(refs)), end \in i+1..Len(t)+1 :
        /\ end = SubtreeEnd(t, i)
        /\ s = SubSeq(t, i, end-1)
        /\ Len(s) = end - i
        /\ \A k \in 1..end-i : s[k] = t[i+k-1]
        /\ IsSubtree(LevelsIn(s), end-i)
  <2>1. \E s \in Seq(NodeOf(refs)), end \in i+1..Len(t)+1 : SubtreeIs(t, i, s, end)
    BY SubtreeNodes
  <2>2. QED
    BY <2>1, Zenon DEF SubtreeIs
<1>3. PICK n \in Nat \ {0} : n = end-i /\ n = Len(s)
  BY <1>2
<1>4. s[1] = t[i]
  BY <1>2, <1>3
<1>5. DOMAIN s = 1..n
  BY <1>3
<1>6. ASSUME NEW k \in 1..n
      PROVE  s[k].level + (level - 1) - s[1].level \in Level
  <2>1. k \in 1..Len(s) /\ 1 \in 1..Len(s)
    BY <1>3
  <2>2. LevelsIn(s)[k] = s[k].level /\ LevelsIn(s)[1] = s[1].level
    BY <2>1, TreeFunctions
  <2>3. LevelsIn(s)[k] >= LevelsIn(s)[1]
    BY <1>2, <1>3 DEF IsSubtree
  <2>4. s[k].level \in Nat /\ s[k].level <= MaxLevel
    BY <2>1, LevelsAreLevels
  <2>5. s[1].level = level
    BY <1>4
  <2>6. PICK x \in Nat : x = s[k].level /\ x >= level /\ x <= MaxLevel
    BY <2>2, <2>3, <2>4, <2>5
  <2>7. x >= level /\ x <= MaxLevel
    BY <2>6, Zenon
  <2>8. x - 1 \in Level
    BY <2>7, MaxLevelAssumption DEF Level
  <2>9. x + (level - 1) - level = x - 1
    OBVIOUS
  <2>10. QED
    BY <2>5, <2>6, <2>8, <2>9, Zenon
<1>7. CanShift(s, level - 1)
  BY <1>5, <1>6, Zenon DEF CanShift
<1>8. QED
  BY <1>2, <1>7

\* One level deeper is a level; it is the next one below the largest.
LEMMA DeeperIs ==
  ASSUME NEW level \in Nat
  PROVE  Deeper(level) \in Nat /\ (level < MaxLevel => Deeper(level) = level + 1)
BY MaxLevelAssumption DEF Deeper

\* No item of groups is at the largest level.
GroupsAboveLimit(t, groups) ==
  \A i \in DOMAIN t : t[i].item_ref \in groups => t[i].level # MaxLevel

\* A step down: a shift out, into the next group or past the next subtree.
LEMMA MoveDownTree ==
  ASSUME NEW refs, NEW t, WellFormed(t, refs), NEW v, NEW groups,
         ToDisplayed(t, v) \in 1..Len(t)
  PROVE  WellFormed(MoveDown(t, v, groups).tree, refs)
<1>1. t \in Seq(NodeOf(refs)) /\ Len(t) \in Nat /\ LevelsMonotone(t)
  BY DEF WellFormed
<1>2. PICK i \in 1..Len(t) : i = ToDisplayed(t, v)
  OBVIOUS
<1>3. PICK end \in i+1..Len(t)+1 :
        /\ end = SubtreeEnd(t, i)
        /\ end <= Len(t) => t[end].level <= t[i].level
  BY <1>1, SubtreeEndIs
<1>4. PICK level \in Nat : level = t[i].level
  BY <1>1, LevelsAreLevels
<1>5. i = 1 => level = 0
  BY <1>1, <1>4, Neighbours
<1>6. i > 1 => level <= t[i-1].level + 1 /\ t[i-1].level \in Nat
  BY <1>1, <1>4, Neighbours
<1>7. level # 0 => CanShift(SubSeq(t, i, SubtreeEnd(t, i) - 1), level - 1)
  BY <1>4, CanShiftOut
<1>8. CASE end > Len(t)
  <2>1. PICK out \in Nat : out = Max({level - 1, 0})
                           /\ out = IF level = 0 THEN 0 ELSE level - 1
    <3>1. PICK m \in Nat : m = IF level = 0 THEN 0 ELSE level - 1
      OBVIOUS
    <3>2. Max({level - 1, 0}) = m
      BY <3>1 DEF Max
    <3>3. QED
      BY <3>1, <3>2
  <2>2. MoveDown(t, v, groups).tree = ShiftAt(t, i, out).tree
    BY <1>2, <1>3, <1>4, <1>8, <2>1 DEF MoveDown
  <2>3. CanShift(SubSeq(t, i, SubtreeEnd(t, i) - 1), out) \/ out >= t[i].level
    <3>1. CASE level = 0
      BY <1>4, <2>1, <3>1
    <3>2. CASE level # 0
      <4>1. out = level - 1
        BY <2>1, <3>2
      <4>2. QED
        BY <1>7, <3>2, <4>1, Zenon
    <3>3. QED
      BY <3>1, <3>2
  <2>4. (i = 1 => out = 0) /\ (i > 1 => out <= t[i-1].level + 1)
    BY <1>5, <1>6, <2>1
  <2>5. ~(SubtreeEnd(t, i) <= Len(t))
    BY <1>1, <1>3, <1>8
  <2>6. ShiftFits(t, i, out)
    BY <2>3, <2>4, <2>5, Zenon DEF ShiftFits
  <2>7. QED
    BY <2>2, <2>6, ShiftAtTree
<1>9. CASE end <= Len(t) /\ t[end].level < level
  <2>1. end \in 1..Len(t)
    BY <1>9
  <2>2. PICK after \in Nat : after = t[end].level
    BY <1>1, <2>1, LevelsAreLevels
  <2>3. PICK out \in Nat : out = level - 1 /\ level # 0 /\ after <= out
    BY <1>9, <2>2
  <2>4. ~(end > Len(t))
    BY <1>1, <1>9
  <2>5. MoveDown(t, v, groups).tree = ShiftAt(t, i, out).tree
    BY <1>2, <1>3, <1>4, <1>9, <2>3, <2>4 DEF MoveDown
  <2>6. CanShift(SubSeq(t, i, SubtreeEnd(t, i) - 1), out)
    BY <1>7, <2>3
  <2>7. (i = 1 => out = 0) /\ (i > 1 => out <= t[i-1].level + 1)
    BY <1>5, <1>6, <2>3
  <2>8. t[SubtreeEnd(t, i)].level <= out + 1
    BY <1>3, <2>2, <2>3
  <2>9. ShiftFits(t, i, out)
    BY <2>6, <2>7, <2>8, Zenon DEF ShiftFits
  <2>10. QED
    BY <2>5, <2>9, ShiftAtTree
<1>10. CASE end <= Len(t) /\ ~(t[end].level < level)
  <2>1. end \in 1..Len(t)
    BY <1>10
  <2>2. PICK after \in Nat : after = t[end].level
    BY <1>1, <2>1, LevelsAreLevels
  <2>3. ~(end > Len(t))
    BY <1>1, <1>10
  <2>4. CASE t[end].unfolded /\ t[end].item_ref \in groups
    <3>1. PICK inside \in Nat : inside = Deeper(after)
      BY <2>2, DeeperIs
    <3>2. PICK target : target = [before |-> end + 1, level |-> inside]
      OBVIOUS
    <3>3. MoveDown(t, v, groups).tree =
            IF Overflows(after) THEN t ELSE MoveSubtree(t, i, target).tree
      BY <1>2, <1>3, <1>4, <1>10, <2>2, <2>3, <2>4, <3>1, <3>2 DEF MoveDown, Overflown
    <3>4. target.before \in 1..Len(t)+1 /\ target.level \in Nat
      BY <1>1, <2>1, <3>2
    <3>5. QED
      BY <3>3, <3>4, MoveSubtreeTree
  <2>5. CASE ~(t[end].unfolded /\ t[end].item_ref \in groups)
    <3>1. PICK next : next = SubtreeEnd(t, end)
      OBVIOUS
    <3>2. PICK target : target = [before |-> next, level |-> level]
      OBVIOUS
    <3>3. MoveDown(t, v, groups).tree = MoveSubtree(t, i, target).tree
      BY <1>2, <1>3, <1>4, <1>10, <2>3, <2>5, <3>1, <3>2 DEF MoveDown
    <3>4. next \in end+1..Len(t)+1
      BY <1>1, <2>1, <3>1, SubtreeEndIs
    <3>5. target.before \in 1..Len(t)+1 /\ target.level \in Nat
      BY <1>1, <2>1, <3>2, <3>4
    <3>6. QED
      BY <3>3, <3>5, MoveSubtreeTree
  <2>6. QED
    BY <2>4, <2>5
<1>11. QED
  BY <1>1, <1>8, <1>9, <1>10

\* A step up: a shift into the group above, or past what is above.  The shift
\* does not wrap around where the build checks, nor where no group is at the
\* largest level.
LEMMA MoveUpTree ==
  ASSUME NEW refs, NEW t, WellFormed(t, refs), NEW v, NEW groups,
         OverflowChecks \/ GroupsAboveLimit(t, groups),
         ToDisplayed(t, v) \in 1..Len(t)
  PROVE  WellFormed(MoveUp(t, v, groups).tree, refs)
<1>1. t \in Seq(NodeOf(refs)) /\ Len(t) \in Nat /\ LevelsMonotone(t)
  BY DEF WellFormed
<1>2. PICK i \in 1..Len(t) : i = ToDisplayed(t, v)
  OBVIOUS
<1>3. PICK level \in Nat : level = t[i].level
  BY <1>1, LevelsAreLevels
<1>4. PICK pred : pred = VisiblePredecessor(t, i)
  OBVIOUS
<1>5. CASE pred = 0
  BY <1>2, <1>4, <1>5 DEF MoveUp
<1>6. CASE pred # 0
  <2>1. i \in 2..Len(t) /\ i # 1
    BY <1>2, <1>4, <1>6 DEF VisiblePredecessor
  <2>2. pred \in 1..i-1 /\ t[pred].level <= t[i-1].level
    BY <1>1, <1>4, <2>1, PredecessorIs
  <2>3. pred \in 1..Len(t)+1 /\ pred \in 1..Len(t) /\ i-1 \in 1..Len(t)
    BY <1>1, <2>2
  <2>4. PICK above \in Nat : above = t[pred].level
    BY <1>1, <2>3, LevelsAreLevels
  <2>5. CASE \/ t[pred].level > level
             \/ /\ t[pred].level = level
                /\ t[pred].item_ref \in groups
                /\ t[pred].unfolded
    <3>1. MoveUp(t, v, groups).tree \in {t, ShiftAt(t, i, level + 1).tree}
      <4>1. MoveUp(t, v, groups).tree =
              IF Overflows(level) THEN t ELSE ShiftAt(t, i, Deeper(level)).tree
        BY <1>2, <1>3, <1>4, <1>6, <2>5 DEF MoveUp, Overflown
      <4>2. level <= MaxLevel /\ above <= MaxLevel
        BY <1>1, <1>2, <1>3, <2>3, <2>4, LevelsAreLevels
      <4>3. ~OverflowChecks => level # MaxLevel
        <5>1. CASE above > level
          BY <4>2, <5>1, MaxLevelAssumption
        <5>2. CASE ~(above > level)
          BY <1>1, <2>3, <2>4, <2>5, <5>2 DEF GroupsAboveLimit, WellFormed
        <5>3. QED
          BY <5>1, <5>2
      <4>4. ~Overflows(level) => Deeper(level) = level + 1
        <5>1. ASSUME ~Overflows(level)
              PROVE  Deeper(level) = level + 1
          <6>1. level # MaxLevel
            BY <4>3, <5>1 DEF Overflows
          <6>2. level < MaxLevel
            BY <4>2, <6>1, MaxLevelAssumption
          <6>3. QED
            BY <6>2, DeeperIs
        <5>2. QED
          BY <5>1
      <4>5. QED
        BY <4>1, <4>4
    <3>2. ShiftFits(t, i, level + 1)
      <4>1. level + 1 >= t[i].level
        BY <1>3
      <4>2. level + 1 <= t[i-1].level + 1
        <5>1. t[i-1].level \in Nat
          BY <1>1, <2>3, LevelsAreLevels
        <5>2. above >= level
          BY <1>3, <2>4, <2>5
        <5>3. QED
          BY <2>2, <2>4, <5>1, <5>2
      <4>3. PICK end \in i+1..Len(t)+1 :
              /\ end = SubtreeEnd(t, i)
              /\ end <= Len(t) => t[end].level <= t[i].level
        BY <1>1, SubtreeEndIs
      <4>4. end <= Len(t) => t[end].level <= level + 2
        <5>1. end <= Len(t) => t[end].level \in Nat
          BY <1>1, LevelsAreLevels
        <5>2. QED
          BY <1>3, <4>3, <5>1
      <4>5. QED
        BY <2>1, <4>1, <4>2, <4>3, <4>4 DEF ShiftFits
    <3>3. QED
      BY <3>1, <3>2, ShiftAtTree
  <2>6. CASE ~(\/ t[pred].level > level
               \/ /\ t[pred].level = level
                  /\ t[pred].item_ref \in groups
                  /\ t[pred].unfolded)
    <3>1. PICK target : target = [before |-> pred, level |-> above]
      OBVIOUS
    <3>2. MoveUp(t, v, groups).tree = MoveSubtree(t, i, target).tree
      BY <1>2, <1>3, <1>4, <1>6, <2>4, <2>6, <3>1 DEF MoveUp
    <3>3. target.before \in 1..Len(t)+1 /\ target.level \in Nat
      BY <2>3, <3>1
    <3>4. QED
      BY <3>2, <3>3, MoveSubtreeTree
  <2>7. QED
    BY <2>5, <2>6
<1>7. QED
  BY <1>5, <1>6


\* move_item, with any result.
LEMMA MoveItemTree ==
  ASSUME NEW refs, NEW t, WellFormed(t, refs), NEW v, NEW direction, NEW groups,
         OverflowChecks \/ GroupsAboveLimit(t, groups)
  PROVE  WellFormed(MoveItem(t, v, direction, groups).tree, refs)
<1>1. DOMAIN t = 1..Len(t)
  BY DEF WellFormed
<1>2. CASE ToDisplayed(t, v) = 0
  BY <1>2 DEF MoveItem
<1>3. CASE ToDisplayed(t, v) # 0
  <2>1. ToDisplayed(t, v) \in 1..Len(t)
    BY <1>1, <1>3, DisplayedIs
  <2>2. MoveItem(t, v, direction, groups) \in
          {MoveDown(t, v, groups), MoveUp(t, v, groups)}
    BY <1>3 DEF MoveItem
  <2>3. QED
    BY <2>1, <2>2, MoveDownTree, MoveUpTree
<1>4. QED
  BY <1>2, <1>3

-----------------------------------------------------------------------------
(* Draining *)

\* After a run of drained nodes the next node that stays is at most one level
\* below the node that stayed before the run.
LEMMA AfterGone ==
  ASSUME NEW refs, NEW t \in Seq(NodeOf(refs)), LevelsMonotone(t), NEW drained,
         NEW p \in 1..Len(t), ~Gone(t, drained, p),
         NEW q \in 0..p-1, q # 0 => ~Gone(t, drained, q),
         \A k \in q+1..p-1 : Gone(t, drained, k)
  PROVE  /\ q = 0 => t[p].level = 0
         /\ q # 0 => t[p].level <= t[q].level + 1
<1>1. PICK n \in Nat : n = Len(t)
  OBVIOUS
<1>2. \A k \in 1..n : t[k].level \in Nat
  BY <1>1, LevelsAreLevels
<1> DEFINE lower == {k \in q+1..p-1 : t[k].level < t[p].level}
<1>3. lower = {}
  <2>1. SUFFICES ASSUME lower # {} PROVE FALSE
    OBVIOUS
  <2>2. PICK m \in Nat : m = p-1
    OBVIOUS
  <2>3. PICK T : T = lower
    OBVIOUS
  <2>4. T \subseteq 0..m /\ T # {}
    BY <2>1, <2>2, <2>3
  <2>5. PICK j \in T : \A k \in T : k <= j
    BY <2>4, MaxUpTo
  <2>6. j \in q+1..p-1 /\ t[j].level < t[p].level
    BY <2>3, <2>5
  <2>7. PICK i \in 1..j : t[i].item_ref \in drained /\ j < SubtreeEnd(t, i)
    BY <2>6 DEF Gone
  <2>8. i \in 1..Len(t) /\ j \in 1..Len(t)
    BY <1>1, <2>6
  <2>9. PICK end \in i+1..n+1 :
          /\ end = SubtreeEnd(t, i)
          /\ \A k \in i+1..end-1 : t[k].level > t[i].level
          /\ end <= n => t[end].level <= t[i].level
    BY <1>1, <2>8, SubtreeEndIs
  <2>10. end <= p
    <3>1. i \in 1..p
      BY <2>6
    <3>2. ~(p < SubtreeEnd(t, i))
      BY <2>7, <3>1 DEF Gone
    <3>3. QED
      BY <2>9, <3>2
  <2>11. t[i].level <= t[j].level
    <3>1. CASE i = j
      BY <1>1, <1>2, <2>8, <3>1
    <3>2. CASE i # j
      <4>1. j \in i+1..end-1
        BY <2>6, <2>7, <2>9, <3>2
      <4>2. t[j].level > t[i].level
        BY <2>9, <4>1
      <4>3. QED
        BY <1>1, <1>2, <2>8, <4>2
    <3>3. QED
      BY <3>1, <3>2
  <2>12. end \in 1..n /\ end > j
    BY <1>1, <2>7, <2>9, <2>10
  <2>13. t[end].level < t[p].level
    <3>1. t[end].level <= t[i].level
      BY <2>9, <2>12
    <3>2. t[end].level \in Nat /\ t[i].level \in Nat /\ t[j].level \in Nat
          /\ t[p].level \in Nat
      BY <1>1, <1>2, <2>8, <2>12
    <3>3. QED
      BY <2>6, <2>11, <3>1, <3>2
  <2>14. end # p
    BY <1>1, <1>2, <2>13
  <2>15. end \in T
    BY <2>3, <2>6, <2>10, <2>12, <2>13, <2>14
  <2>16. QED
    BY <2>5, <2>12, <2>15
<1>4. PICK x \in 1..n : x = q+1
  BY <1>1
<1>5. t[p].level <= t[x].level
  <2>1. CASE x = p
    BY <1>1, <1>2, <2>1
  <2>2. CASE x # p
    <3>1. x \in q+1..p-1
      BY <1>4, <2>2
    <3>2. ~(t[x].level < t[p].level)
      BY <1>3, <3>1
    <3>3. QED
      BY <1>1, <1>2, <3>2
  <2>3. QED
    BY <2>1, <2>2
<1>6. t[x].level \in Nat /\ t[p].level \in Nat
  BY <1>1, <1>2
<1>7. CASE q = 0
  <2>1. t[x].level = 0
    BY <1>1, <1>4, <1>7, Neighbours
  <2>2. QED
    BY <1>5, <1>6, <1>7, <2>1
<1>8. CASE q # 0
  <2>1. t[x].level <= t[x-1].level + 1 /\ t[x-1].level \in Nat
    BY <1>1, <1>4, <1>8, Neighbours
  <2>2. x-1 = q
    BY <1>4
  <2>3. t[x].level <= t[q].level + 1 /\ t[q].level \in Nat
    BY <2>1, <2>2
  <2>4. PICK j, k, l \in Nat : j = t[p].level /\ k = t[x].level /\ l = t[q].level
    BY <1>6, <2>3
  <2>5. j <= k /\ k <= l + 1
    BY <1>5, <2>3, <2>4
  <2>6. j <= l + 1
    BY <2>5
  <2>7. QED
    BY <1>8, <2>4, <2>6
<1>9. QED
  BY <1>7, <1>8

\* What drain_recursive_if has kept of the first k nodes: a well-formed tree of
\* their items that ends in the last node q that stays.
KeptSoFar(u, t, refs, drained, k) ==
  /\ WellFormed(u, refs)
  /\ \A j \in 1..Len(u) : \E x \in 1..k : u[j].item_ref = t[x].item_ref
  /\ \E q \in 0..k :
       /\ q = 0 <=> Len(u) = 0
       /\ q # 0 => u[Len(u)] = t[q] /\ ~Gone(t, drained, q)
       /\ \A x \in q+1..k : Gone(t, drained, x)

\* One more node that stays.
LEMMA KeepOne ==
  ASSUME NEW refs, NEW t, WellFormed(t, refs), NEW drained,
         NEW p \in 1..Len(t), ~Gone(t, drained, p),
         NEW u, KeptSoFar(u, t, refs, drained, p-1)
  PROVE  KeptSoFar(Append(u, t[p]), t, refs, drained, p)
<1>1. t \in Seq(NodeOf(refs)) /\ Len(t) \in Nat /\ LevelsMonotone(t)
  BY DEF WellFormed
<1>2. WellFormed(u, refs) /\ u \in Seq(NodeOf(refs)) /\ Len(u) \in Nat
  BY DEF KeptSoFar, WellFormed
<1>3. PICK q \in 0..p-1 :
        /\ q = 0 <=> Len(u) = 0
        /\ q # 0 => u[Len(u)] = t[q] /\ ~Gone(t, drained, q)
        /\ \A x \in q+1..p-1 : Gone(t, drained, x)
  BY DEF KeptSoFar
<1>4. /\ q = 0 => t[p].level = 0
      /\ q # 0 => t[p].level <= t[q].level + 1
  BY <1>1, <1>3, AfterGone
<1>5. t[p] \in NodeOf(refs) /\ t[p].level \in Nat
  BY <1>1, LevelsAreLevels
<1>6. PICK l \in Nat : l = Len(u)
  BY <1>2
<1>7. PICK m : m = <<t[p]>>
  OBVIOUS
<1>8. m \in Seq(NodeOf(refs)) /\ Len(m) = 1 /\ m[1] = t[p]
  BY <1>5, <1>7
<1>9. PICK a \in 1..Len(u)+1 : a = l+1
  BY <1>6
<1>10. \A j \in 1..l : u[j].item_ref # t[p].item_ref
  <2>1. SUFFICES ASSUME NEW j \in 1..l
                 PROVE  u[j].item_ref # t[p].item_ref
    OBVIOUS
  <2>2. PICK x \in 1..p-1 : u[j].item_ref = t[x].item_ref
    BY <1>6 DEF KeptSoFar
  <2>3. x \in DOMAIN t /\ p \in DOMAIN t /\ x # p
    BY <1>1
  <2>4. QED
    BY <2>2, <2>3 DEF WellFormed, RefsUnique
<1>11. Fits(u, a, a, m)
  <2>1. a = 1 => m[1].level = 0
    BY <1>3, <1>4, <1>6, <1>8, <1>9
  <2>2. a > 1 => m[1].level <= u[a-1].level + 1
    <3>1. a > 1 => q # 0 /\ a-1 = Len(u)
      BY <1>3, <1>6, <1>9
    <3>2. QED
      BY <1>3, <1>4, <1>8, <3>1
  <2>3. ~(a <= Len(u))
    BY <1>6, <1>9
  <2>4. RefsUnique(m)
    BY <1>8 DEF RefsUnique
  <2>5. \A j \in 1..Len(m), k \in 1..Len(u) :
           k < a \/ k >= a => m[j].item_ref # u[k].item_ref
    BY <1>6, <1>8, <1>10
  <2>6. \A k \in 2..Len(m) : m[k].level <= m[k-1].level + 1
    BY <1>8
  <2>7. Len(m) >= 1
    BY <1>8
  <2>8. QED
    BY <2>1, <2>2, <2>3, <2>4, <2>5, <2>6, <2>7, Zenon DEF Fits
<1>12. PICK w : w = Append(u, t[p])
  OBVIOUS
<1>13. /\ w \in Seq(NodeOf(refs)) /\ Len(w) = l+1 /\ w[l+1] = t[p]
       /\ \A j \in 1..l : w[j] = u[j]
  BY <1>2, <1>5, <1>6, <1>12
<1>14. WellFormed(w, refs)
  <2>1. a \in a..Len(u)+1
    OBVIOUS
  <2>2. WellFormed(SubSeq(u, 1, a-1) \o m \o SubSeq(u, a, Len(u)), refs)
    BY <1>2, <1>8, <1>11, <2>1, ReplaceTree, Zenon
  <2>3. PICK v \in Seq(NodeOf(refs)) :
          /\ v = SubSeq(u, 1, a-1) \o m \o SubSeq(u, a, Len(u))
          /\ IsReplaced(v, u, a, a, m)
    BY <1>2, <1>8, <2>1, ReplaceElements, Zenon
  <2>4. Len(v) = l+1
    BY <1>6, <1>8, <1>9, <2>3 DEF IsReplaced
  <2>5. \A k \in 1..l : v[k] = u[k]
    <3>1. IsReplaced(v, u, a, a, m)
      BY <2>3
    <3>2. \A k \in 1..a-1 : v[k] = u[k]
      BY <3>1, Zenon DEF IsReplaced
    <3>3. a-1 = l
      BY <1>9
    <3>4. QED
      BY <3>2, <3>3, Zenon
  <2>6. v[l+1] = t[p]
    <3>1. a \in a..a-1+Len(m) /\ a - (a-1) = 1
      BY <1>8
    <3>2. QED
      BY <1>8, <1>9, <2>3, <3>1 DEF IsReplaced
  <2>7. \A k \in 1..l+1 : v[k] = w[k]
    BY <1>13, <2>5, <2>6
  <2>8. v = w
    BY <1>13, <2>4, <2>7, SeqEqual
  <2>9. QED
    BY <2>2, <2>3, <2>8, Zenon
<1>15. \A j \in 1..Len(w) : \E x \in 1..p : w[j].item_ref = t[x].item_ref
  <2>1. SUFFICES ASSUME NEW j \in 1..Len(w)
                 PROVE  \E x \in 1..p : w[j].item_ref = t[x].item_ref
    OBVIOUS
  <2>2. CASE j = l+1
    BY <1>13, <2>2
  <2>3. CASE j # l+1
    <3>1. j \in 1..Len(u) /\ w[j] = u[j]
      BY <1>6, <1>13, <2>3
    <3>2. PICK x \in 1..p-1 : u[j].item_ref = t[x].item_ref
      BY <3>1 DEF KeptSoFar
    <3>3. x \in 1..p
      OBVIOUS
    <3>4. QED
      BY <3>1, <3>2, <3>3
  <2>4. QED
    BY <2>2, <2>3
<1>16. \E x \in 0..p :
         /\ x = 0 <=> Len(w) = 0
         /\ x # 0 => w[Len(w)] = t[x] /\ ~Gone(t, drained, x)
         /\ \A y \in x+1..p : Gone(t, drained, y)
  <2>1. p \in 0..p /\ p # 0 /\ Len(w) # 0 /\ w[Len(w)] = t[p]
    BY <1>13
  <2>2. \A y \in p+1..p : Gone(t, drained, y)
    OBVIOUS
  <2>3. QED
    BY <2>1, <2>2
<1>17. QED
  BY <1>12, <1>14, <1>15, <1>16 DEF KeptSoFar

\* drain_recursive_if keeps the nodes of no matching subtree.
LEMMA DrainedTree ==
  ASSUME NEW refs, NEW t, WellFormed(t, refs), NEW drained
  PROVE  WellFormed(Drained(t, drained), refs)
<1> DEFINE kept[k \in 0..Len(t)] ==
             IF k = 0 THEN <<>>
             ELSE IF Gone(t, drained, k) THEN kept[k-1]
             ELSE Append(kept[k-1], t[k])
<1>1. t \in Seq(NodeOf(refs)) /\ Len(t) \in Nat
  BY DEF WellFormed
<1>2. PICK n \in Nat : n = Len(t)
  BY <1>1
<1>3. kept = [k \in 0..n |->
                IF k = 0 THEN <<>>
                ELSE IF Gone(t, drained, k) THEN kept[k-1]
                ELSE Append(kept[k-1], t[k])]
  <2>1. PICK S : S = Seq(NodeOf(refs))
    OBVIOUS
  <2>2. PICK step : step = [k \in 1..n |-> [s \in S |->
                       IF Gone(t, drained, k) THEN s ELSE Append(s, t[k])]]
    OBVIOUS
  <2>3. step \in [1..n -> [S -> S]]
    <3>1. ASSUME NEW k \in 1..n, NEW s \in S
          PROVE  (IF Gone(t, drained, k) THEN s ELSE Append(s, t[k])) \in S
      <4>1. t[k] \in NodeOf(refs)
        BY <1>1, <1>2
      <4>2. Append(s, t[k]) \in S
        BY <2>1, <4>1
      <4>3. QED
        BY <4>2
    <3>2. QED
      BY <2>2, <3>1, Zenon
  <2>4. PICK a \in S : a = <<>>
    BY <2>1, EmptySeq, Zenon
  <2>5. PICK f \in [0..n -> S] : Solves(f, n, a, step)
    BY <2>3, RecursionOnPrefix, Zenon
  <2>6. ASSUME NEW k \in 0..n
        PROVE  f[k] = IF k = 0 THEN <<>>
                      ELSE IF Gone(t, drained, k) THEN f[k-1]
                      ELSE Append(f[k-1], t[k])
    <3>1. CASE k = 0
      BY <2>4, <2>5, <3>1 DEF Solves
    <3>2. CASE k # 0
      <4>1. k \in 1..n /\ k-1 \in 0..n
        BY <3>2
      <4>2. f[k] = step[k][f[k-1]]
        BY <2>5, <3>2 DEF Solves
      <4>3. f[k-1] \in S
        BY <2>5, <4>1
      <4>4. step[k][f[k-1]] = IF Gone(t, drained, k) THEN f[k-1]
                              ELSE Append(f[k-1], t[k])
        BY <2>2, <4>1, <4>3, Zenon
      <4>5. QED
        BY <3>2, <4>2, <4>4
    <3>3. QED
      BY <3>1, <3>2
  <2>7. f = [k \in 0..n |-> IF k = 0 THEN <<>>
                            ELSE IF Gone(t, drained, k) THEN f[k-1]
                            ELSE Append(f[k-1], t[k])]
    BY <2>5, <2>6, Zenon
  <2>8. QED
    BY <1>2, <2>7, Zenon
<1>4. Drained(t, drained) = kept[n]
  BY <1>2, Zenon DEF Drained
<1> HIDE DEF kept
<1>5. KeptSoFar(kept[0], t, refs, drained, 0)
  <2>1. PICK u \in Seq(NodeOf(refs)) : u = <<>> /\ Len(u) = 0
    BY EmptySeq
  <2>2. kept[0] = u
    BY <1>3, <2>1
  <2>3. WellFormed(u, refs)
    BY <2>1 DEF WellFormed, LevelsMonotone, RefsUnique
  <2>4. KeptSoFar(u, t, refs, drained, 0)
    BY <2>1, <2>3 DEF KeptSoFar
  <2>5. QED
    BY <2>2, <2>4
<1>6. ASSUME NEW p \in 1..n, KeptSoFar(kept[p-1], t, refs, drained, p-1)
      PROVE  KeptSoFar(kept[p], t, refs, drained, p)
  <2>1. p \in 0..n /\ p # 0 /\ p \in 1..Len(t)
    BY <1>2
  <2>2. CASE Gone(t, drained, p)
    <3>1. PICK u : u = kept[p-1] /\ u = kept[p]
      BY <1>3, <2>1, <2>2
    <3>2. KeptSoFar(u, t, refs, drained, p-1)
      BY <1>6, <3>1
    <3>3. \A j \in 1..Len(u) : \E x \in 1..p : u[j].item_ref = t[x].item_ref
      BY <3>2 DEF KeptSoFar
    <3>4. PICK q \in 0..p-1 :
            /\ q = 0 <=> Len(u) = 0
            /\ q # 0 => u[Len(u)] = t[q] /\ ~Gone(t, drained, q)
            /\ \A x \in q+1..p-1 : Gone(t, drained, x)
      BY <3>2 DEF KeptSoFar
    <3>5. q \in 0..p /\ \A x \in q+1..p : Gone(t, drained, x)
      BY <2>2, <3>4
    <3>6. KeptSoFar(u, t, refs, drained, p)
      BY <3>2, <3>3, <3>4, <3>5, Zenon DEF KeptSoFar
    <3>7. QED
      BY <3>1, <3>6
  <2>3. CASE ~Gone(t, drained, p)
    <3>1. kept[p] = Append(kept[p-1], t[p])
      BY <1>3, <2>1, <2>3
    <3>2. KeptSoFar(Append(kept[p-1], t[p]), t, refs, drained, p)
      BY <1>6, <2>1, <2>3, KeepOne, Zenon
    <3>3. QED
      BY <3>1, <3>2, Zenon
  <2>4. QED
    BY <2>2, <2>3
<1> DEFINE Good(k) == KeptSoFar(kept[k], t, refs, drained, k)
           bad == {k \in 0..n : ~Good(k)}
<1>7. bad = {}
  <2>1. Good(0) /\ \A p \in 1..n : Good(p-1) => Good(p)
    BY <1>5, <1>6
  <2> HIDE DEF Good
  <2>2. SUFFICES ASSUME bad # {} PROVE FALSE
    OBVIOUS
  <2>3. bad \subseteq Nat
    OBVIOUS
  <2>4. PICK m \in bad : \A j \in bad : m <= j
    BY <2>2, <2>3, LeastNat
  <2>5. m \in 1..n /\ m-1 \in 0..n /\ m-1 \notin bad
    BY <2>1, <2>4
  <2>6. QED
    BY <2>1, <2>4, <2>5
<1>8. KeptSoFar(kept[n], t, refs, drained, n)
  BY <1>7
<1>9. QED
  BY <1>4, <1>8 DEF KeptSoFar

-----------------------------------------------------------------------------
(* Which items a tree holds after an operation: for every tree, also one whose *)
(* levels jump, and for every selection, also one that overlaps.  Every        *)
(* operation is put together from pieces of the tree, so three lemmas on       *)
(* pieces carry the rest.                                                      *)

\* t is a tree of nodes that shows each of the items in `items' once, and no
\* other; their references are in refs.
Shows(t, refs, items) ==
  t \in Seq(NodeOf(refs)) /\ RefsUnique(t) /\ RefsOf(t) = items

\* The items at the positions from a to b.
ItemsIn(t, a, b) == {t[k].item_ref : k \in a..b}

-----------------------------------------------------------------------------
(* Pieces of a tree *)

\* A piece of a tree shows the items at its positions.
LEMMA PieceShows ==
  ASSUME NEW refs, NEW items, NEW t, Shows(t, refs, items),
         NEW a \in 1..Len(t)+1, NEW b \in a-1..Len(t)
  PROVE  /\ Shows(SubSeq(t, a, b), refs, ItemsIn(t, a, b))
         /\ Len(SubSeq(t, a, b)) = b - a + 1
         /\ \A k \in 1..b-a+1 : SubSeq(t, a, b)[k] = t[a+k-1]
<1>1. t \in Seq(NodeOf(refs)) /\ Len(t) \in Nat
  BY DEF Shows
<1>2. PICK s : s = SubSeq(t, a, b)
  OBVIOUS
<1>3. /\ s \in Seq(NodeOf(refs)) /\ Len(s) = b - a + 1
      /\ \A k \in 1..b-a+1 : s[k] = t[a+k-1]
  BY <1>1, <1>2, SubSeqProperties
<1>4. DOMAIN s = 1..b-a+1 /\ DOMAIN t = 1..Len(t)
  BY <1>1, <1>3
<1>5. RefsUnique(s)
  <2>1. SUFFICES ASSUME NEW i \in DOMAIN s, NEW j \in DOMAIN s, s[i].item_ref = s[j].item_ref
                 PROVE  i = j
    BY DEF RefsUnique
  <2>2. a+i-1 \in DOMAIN t /\ a+j-1 \in DOMAIN t
    BY <1>1, <1>4
  <2>3. t[a+i-1].item_ref = t[a+j-1].item_ref
    BY <1>3, <1>4, <2>1
  <2>4. a+i-1 = a+j-1
    BY <2>2, <2>3 DEF Shows, RefsUnique
  <2>5. QED
    BY <1>4, <2>4
<1>6. RefsOf(s) = ItemsIn(t, a, b)
  <2>1. ASSUME NEW k \in 1..b-a+1
        PROVE  s[k].item_ref \in ItemsIn(t, a, b)
    <3>1. a+k-1 \in a..b
      BY <1>1
    <3>2. QED
      BY <1>3, <3>1 DEF ItemsIn
  <2>2. ASSUME NEW k \in a..b
        PROVE  t[k].item_ref \in RefsOf(s)
    <3>1. k-a+1 \in 1..b-a+1 /\ a+(k-a+1)-1 = k
      BY <1>1
    <3>2. s[k-a+1] = t[k]
      BY <1>3, <3>1
    <3>3. QED
      BY <1>4, <3>1, <3>2 DEF RefsOf
  <2>3. QED
    BY <1>4, <2>1, <2>2 DEF RefsOf, ItemsIn
<1>7. QED
  BY <1>2, <1>3, <1>5, <1>6 DEF Shows

\* Positions apart hold different items, and all positions hold all items.
LEMMA PiecesApart ==
  ASSUME NEW refs, NEW items, NEW t, Shows(t, refs, items),
         NEW a \in 1..Len(t)+1, NEW b \in a-1..Len(t),
         NEW c \in b+1..Len(t)+1, NEW d \in c-1..Len(t)
  PROVE  ItemsIn(t, a, b) \cap ItemsIn(t, c, d) = {}
<1>1. t \in Seq(NodeOf(refs)) /\ Len(t) \in Nat /\ DOMAIN t = 1..Len(t)
  BY DEF Shows
<1>2. ASSUME NEW j \in a..b, NEW k \in c..d, t[j].item_ref = t[k].item_ref
      PROVE  FALSE
  <2>1. j \in DOMAIN t /\ k \in DOMAIN t /\ j # k
    BY <1>1
  <2>2. QED
    BY <1>2, <2>1 DEF Shows, RefsUnique
<1>3. QED
  BY <1>2 DEF ItemsIn

LEMMA PiecesTogether ==
  ASSUME NEW refs, NEW items, NEW t, Shows(t, refs, items),
         NEW a \in 1..Len(t)+1, NEW b \in a-1..Len(t)
  PROVE  ItemsIn(t, 1, a-1) \cup ItemsIn(t, a, b) \cup ItemsIn(t, b+1, Len(t)) = items
<1>1. t \in Seq(NodeOf(refs)) /\ Len(t) \in Nat /\ DOMAIN t = 1..Len(t)
  BY DEF Shows
<1>2. 1..Len(t) = (1..a-1) \cup (a..b) \cup (b+1..Len(t))
  BY <1>1
<1>3. items = {t[k].item_ref : k \in (1..a-1) \cup (a..b) \cup (b+1..Len(t))}
  BY <1>1, <1>2 DEF Shows, RefsOf
<1>4. QED
  BY <1>3 DEF ItemsIn

\* Two trees of different items, one after the other.
LEMMA JoinShows ==
  ASSUME NEW refs, NEW A, NEW B, NEW p, NEW q,
         Shows(p, refs, A), Shows(q, refs, B), A \cap B = {}
  PROVE  Shows(p \o q, refs, A \cup B)
<1>1. /\ p \in Seq(NodeOf(refs)) /\ Len(p) \in Nat /\ DOMAIN p = 1..Len(p)
      /\ q \in Seq(NodeOf(refs)) /\ Len(q) \in Nat /\ DOMAIN q = 1..Len(q)
  BY DEF Shows
<1>2. PICK u : u = p \o q
  OBVIOUS
<1>3. /\ u \in Seq(NodeOf(refs)) /\ Len(u) = Len(p) + Len(q) /\ DOMAIN u = 1..Len(p)+Len(q)
      /\ \A k \in 1..Len(p) : u[k] = p[k]
      /\ \A k \in Len(p)+1..Len(p)+Len(q) : u[k] = q[k-Len(p)]
  BY <1>1, <1>2
<1>4. /\ \A k \in 1..Len(p) : p[k].item_ref \in A
      /\ \A k \in 1..Len(q) : q[k].item_ref \in B
  BY <1>1 DEF Shows, RefsOf
<1>5. RefsUnique(u)
  <2>1. SUFFICES ASSUME NEW i \in DOMAIN u, NEW j \in DOMAIN u, u[i].item_ref = u[j].item_ref
                 PROVE  i = j
    BY DEF RefsUnique
  <2>2. ASSUME NEW k \in DOMAIN u
        PROVE  \/ k \in 1..Len(p) /\ u[k] = p[k] /\ u[k].item_ref \in A
               \/ k-Len(p) \in 1..Len(q) /\ u[k] = q[k-Len(p)] /\ u[k].item_ref \in B
    <3>1. CASE k \in 1..Len(p)
      BY <1>3, <1>4, <3>1
    <3>2. CASE k \notin 1..Len(p)
      <4>1. k \in Len(p)+1..Len(p)+Len(q) /\ k-Len(p) \in 1..Len(q)
        BY <1>1, <1>3, <3>2
      <4>2. QED
        BY <1>3, <1>4, <4>1
    <3>3. QED
      BY <3>1, <3>2
  <2>3. CASE i \in 1..Len(p) /\ u[i] = p[i] /\ u[i].item_ref \in A
    <3>1. j \in 1..Len(p) /\ u[j] = p[j]
      BY <2>1, <2>2, <2>3
    <3>2. QED
      BY <1>1, <2>1, <2>3, <3>1 DEF Shows, RefsUnique
  <2>4. CASE i-Len(p) \in 1..Len(q) /\ u[i] = q[i-Len(p)] /\ u[i].item_ref \in B
    <3>1. j-Len(p) \in 1..Len(q) /\ u[j] = q[j-Len(p)]
      BY <2>1, <2>2, <2>4
    <3>2. q[i-Len(p)].item_ref = q[j-Len(p)].item_ref
      BY <2>1, <2>4, <3>1
    <3>3. i-Len(p) = j-Len(p)
      BY <1>1, <2>4, <3>1, <3>2 DEF Shows, RefsUnique
    <3>4. QED
      BY <1>1, <1>3, <3>3
  <2>5. QED
    BY <2>2, <2>3, <2>4
<1>6. RefsOf(u) = A \cup B
  <2>1. ASSUME NEW k \in DOMAIN u
        PROVE  u[k].item_ref \in A \cup B
    <3>1. CASE k \in 1..Len(p)
      BY <1>3, <1>4, <3>1
    <3>2. CASE k \notin 1..Len(p)
      <4>1. k \in Len(p)+1..Len(p)+Len(q) /\ k-Len(p) \in 1..Len(q)
        BY <1>1, <1>3, <3>2
      <4>2. QED
        BY <1>3, <1>4, <4>1
    <3>3. QED
      BY <3>1, <3>2
  <2>2. ASSUME NEW x \in A
        PROVE  x \in RefsOf(u)
    <3>1. PICK k \in 1..Len(p) : p[k].item_ref = x
      BY <1>1 DEF Shows, RefsOf
    <3>2. k \in DOMAIN u /\ u[k] = p[k]
      BY <1>1, <1>3
    <3>3. QED
      BY <3>1, <3>2 DEF RefsOf
  <2>3. ASSUME NEW x \in B
        PROVE  x \in RefsOf(u)
    <3>1. PICK k \in 1..Len(q) : q[k].item_ref = x
      BY <1>1 DEF Shows, RefsOf
    <3>2. k+Len(p) \in Len(p)+1..Len(p)+Len(q) /\ (k+Len(p))-Len(p) = k
      BY <1>1
    <3>3. k+Len(p) \in DOMAIN u /\ u[k+Len(p)] = q[k]
      BY <1>1, <1>3, <3>2
    <3>4. QED
      BY <3>1, <3>3 DEF RefsOf
  <2>4. RefsOf(u) \subseteq A \cup B
    BY <2>1 DEF RefsOf
  <2>5. QED
    BY <2>2, <2>3, <2>4
<1>7. QED
  BY <1>2, <1>3, <1>5, <1>6 DEF Shows

\* What changes levels and flags shows the same items.
LEMMA RelabelShows ==
  ASSUME NEW refs, NEW items, NEW t, Shows(t, refs, items),
         NEW u \in [DOMAIN t -> NodeOf(refs)],
         \A k \in DOMAIN t : u[k].item_ref = t[k].item_ref
  PROVE  Shows(u, refs, items)
<1>1. t \in Seq(NodeOf(refs))
  BY DEF Shows
<1>2. u \in Seq(NodeOf(refs)) /\ DOMAIN u = DOMAIN t
  BY <1>1, FunctionIsTree
<1>3. QED
  BY <1>2 DEF Shows, RefsUnique, RefsOf

\* No node and one node.
LEMMA NothingShows ==
  ASSUME NEW refs
  PROVE  Shows(<<>>, refs, {})
BY DEF Shows, RefsUnique, RefsOf

LEMMA NodeShows ==
  ASSUME NEW refs, NEW n \in NodeOf(refs)
  PROVE  Shows(<<n>>, refs, {n.item_ref})
<1>1. PICK s : s = <<n>>
  OBVIOUS
<1>2. s \in Seq(NodeOf(refs)) /\ DOMAIN s = 1..1 /\ s[1] = n
  BY <1>1
<1>3. RefsUnique(s) /\ RefsOf(s) = {n.item_ref}
  BY <1>2 DEF RefsUnique, RefsOf
<1>4. QED
  BY <1>1, <1>2, <1>3 DEF Shows

-----------------------------------------------------------------------------
(* Inserting and removing *)

\* The nodes of t with those of m between position b-1 and b.
LEMMA PutShows ==
  ASSUME NEW refs, NEW A, NEW B, NEW t, NEW m, Shows(t, refs, A), Shows(m, refs, B),
         A \cap B = {}, NEW b \in 1..Len(t)+1
  PROVE  Shows(SubSeq(t, 1, b-1) \o m \o SubSeq(t, b, Len(t)), refs, A \cup B)
<1>1. Len(t) \in Nat
  BY DEF Shows
<1>2. PICK p, q : p = SubSeq(t, 1, b-1) /\ q = SubSeq(t, b, Len(t))
  OBVIOUS
<1>3. PICK P, Q : P = ItemsIn(t, 1, b-1) /\ Q = ItemsIn(t, b, Len(t))
  OBVIOUS
<1>4. 1 \in 1..Len(t)+1 /\ b-1 \in 1-1..Len(t) /\ Len(t) \in b-1..Len(t)
      /\ b \in (b-1)+1..Len(t)+1
  BY <1>1
<1>5. Shows(p, refs, P) /\ Shows(q, refs, Q)
  BY <1>2, <1>3, <1>4, PieceShows
<1>6. P \cap Q = {}
  BY <1>3, <1>4, PiecesApart
<1>7. P \cup Q = A
  <2>1. ItemsIn(t, 1, 1-1) \cup P \cup ItemsIn(t, (b-1)+1, Len(t)) = A
    BY <1>3, <1>4, PiecesTogether
  <2>2. ItemsIn(t, 1, 1-1) = {}
    BY DEF ItemsIn
  <2>3. (b-1)+1 = b
    BY <1>1
  <2>4. QED
    BY <1>3, <2>1, <2>2, <2>3
<1>8. Shows(p \o m, refs, P \cup B)
  BY <1>5, <1>7, JoinShows
<1>9. (P \cup B) \cap Q = {} /\ (P \cup B) \cup Q = A \cup B
  BY <1>6, <1>7
<1>10. Shows(p \o m \o q, refs, A \cup B)
  BY <1>5, <1>8, <1>9, JoinShows
<1>11. QED
  BY <1>2, <1>10

\* insert_item
LEMMA InsertShows ==
  ASSUME NEW refs, NEW items, NEW t, Shows(t, refs, items),
         NEW ref \in refs, ref \notin items, NEW target, target.before \in Nat \ {0},
         CheckLocation(t, target)
  PROVE  Shows(InsertNode(t, ref, target), refs, items \cup {ref})
<1>1. t \in Seq(NodeOf(refs)) /\ Len(t) \in Nat
  BY DEF Shows
<1>2. PICK b : b = target.before
  OBVIOUS
<1>3. b \in 1..Len(t)+1 /\ target.level \in ValidLevels(t, b)
  BY <1>1, <1>2 DEF CheckLocation
<1>4. target.level \in Level
  <2>1. ASSUME b # 1
        PROVE  LET pre == Min({t[b-1].level + 1, MaxLevel}) IN
               pre \in Nat /\ pre <= MaxLevel
    <3>1. t[b-1].level \in Nat
      BY <1>1, <1>3, <2>1, LevelsAreLevels
    <3>2. QED
      BY <3>1, MinOfTwo, MaxLevelAssumption
  <2>2. \A k \in 1..Len(t) : t[k].level \in Level
    BY <1>1, LevelsAreLevels, MaxLevelAssumption DEF Level
  <2>3. CASE b = 1
    BY <1>3, <2>3, MaxLevelAssumption DEF ValidLevels, Level
  <2>4. CASE b # 1
    <3>1. PICK pre \in Nat : pre = Min({t[b-1].level + 1, MaxLevel}) /\ pre <= MaxLevel
      BY <2>1, <2>4
    <3>2. target.level \in IF b > Len(t) THEN 0..pre
                           ELSE IF t[b].level > t[b-1].level THEN {t[b].level}
                           ELSE t[b].level..pre
      BY <1>3, <2>4, <3>1 DEF ValidLevels
    <3>3. CASE b > Len(t)
      BY <3>1, <3>2, <3>3, MaxLevelAssumption DEF Level
    <3>4. CASE b <= Len(t)
      <4>1. t[b].level \in Level
        BY <1>3, <2>2, <3>4
      <4>2. \/ target.level = t[b].level
            \/ target.level \in t[b].level..pre
        <5>1. ~(b > Len(t))
          BY <1>1, <1>3, <3>4
        <5>2. target.level \in IF t[b].level > t[b-1].level THEN {t[b].level}
                               ELSE t[b].level..pre
          BY <3>2, <5>1, Zenon
        <5>3. QED
          BY <5>2, Zenon
      <4>3. QED
        BY <3>1, <4>1, <4>2, MaxLevelAssumption DEF Level
    <3>5. QED
      BY <1>1, <1>3, <3>3, <3>4
  <2>5. QED
    BY <2>3, <2>4
<1>5. NewNode(ref, target.level) \in NodeOf(refs) /\ NewNode(ref, target.level).item_ref = ref
  BY <1>4 DEF NewNode, NodeOf
<1>6. Shows(<<NewNode(ref, target.level)>>, refs, {ref})
  BY <1>5, NodeShows
<1>7. InsertNode(t, ref, target) =
        SubSeq(t, 1, b-1) \o <<NewNode(ref, target.level)>> \o SubSeq(t, b, Len(t))
  BY <1>2 DEF InsertNode, InsertAt
<1>8. items \cap {ref} = {}
  OBVIOUS
<1>9. QED
  BY <1>3, <1>6, <1>7, <1>8, PutShows

\* The nodes from a to b-1 are taken out.
LEMMA CutShows ==
  ASSUME NEW refs, NEW items, NEW t, Shows(t, refs, items),
         NEW a \in 1..Len(t)+1, NEW b \in a..Len(t)+1
  PROVE  Shows(Cut(t, a, b), refs, items \ ItemsIn(t, a, b-1))
<1>1. Len(t) \in Nat
  BY DEF Shows
<1>2. PICK P, M, Q : P = ItemsIn(t, 1, a-1) /\ M = ItemsIn(t, a, b-1) /\ Q = ItemsIn(t, b, Len(t))
  OBVIOUS
<1>3. /\ 1 \in 1..Len(t)+1 /\ a-1 \in 1-1..Len(t) /\ b-1 \in a-1..Len(t)
      /\ Len(t) \in b-1..Len(t) /\ b \in 1..Len(t)+1
      /\ a \in (a-1)+1..Len(t)+1 /\ b \in (a-1)+1..Len(t)+1 /\ b \in (b-1)+1..Len(t)+1
      /\ (b-1)+1 = b
  BY <1>1
<1>4. Shows(SubSeq(t, 1, a-1), refs, P) /\ Shows(SubSeq(t, b, Len(t)), refs, Q)
  BY <1>2, <1>3, PieceShows
<1>5. P \cap M = {} /\ P \cap Q = {} /\ M \cap Q = {}
  BY <1>2, <1>3, PiecesApart
<1>6. P \cup M \cup Q = items
  BY <1>2, <1>3, PiecesTogether
<1>7. P \cup Q = items \ M
  BY <1>5, <1>6
<1>8. Shows(Cut(t, a, b), refs, P \cup Q)
  BY <1>4, <1>5, JoinShows DEF Cut
<1>9. QED
  BY <1>2, <1>7, <1>8

\* remove_recursive
LEMMA RemoveShows ==
  ASSUME NEW refs, NEW items, NEW t, Shows(t, refs, items), NEW i \in 1..Len(t)
  PROVE  Shows(RemoveRecursive(t, i), refs, items \ ItemsIn(t, i, SubtreeEnd(t, i)-1))
<1>1. t \in Seq(NodeOf(refs)) /\ Len(t) \in Nat
  BY DEF Shows
<1>2. SubtreeEnd(t, i) \in i..Len(t)+1 /\ i \in 1..Len(t)+1
  <2>1. SubtreeEnd(t, i) \in i+1..Len(t)+1
    BY <1>1, SubtreeEndIs
  <2>2. QED
    BY <1>1, <2>1
<1>3. QED
  BY <1>2, CutShows DEF RemoveRecursive

\* remove_dissolve
LEMMA DissolveShows ==
  ASSUME NEW refs, NEW items, NEW t, Shows(t, refs, items), NEW i \in 1..Len(t)
  PROVE  Shows(RemoveDissolve(t, i), refs, items \ {t[i].item_ref})
<1>1. t \in Seq(NodeOf(refs)) /\ Len(t) \in Nat /\ DOMAIN t = 1..Len(t)
  BY DEF Shows
<1>2. PICK end : end = SubtreeEnd(t, i) /\ end \in i+1..Len(t)+1
                 /\ \A k \in i+1..end-1 : t[k].level > t[i].level
  BY <1>1, SubtreeEndIs
<1> DEFINE u == [k \in DOMAIN t |->
              IF i < k /\ k < SubtreeEnd(t, i)
              THEN [t[k] EXCEPT !.level = @ - 1] ELSE t[k]]
<1>3. ASSUME NEW k \in DOMAIN t
      PROVE  u[k] \in NodeOf(refs) /\ u[k].item_ref = t[k].item_ref
  <2>1. t[k] \in NodeOf(refs) /\ t[i].level \in Nat /\ t[k].level \in Nat
    BY <1>1, LevelsAreLevels
  <2>2. CASE i < k /\ k < end
    <3>1. t[k].level > t[i].level
      BY <1>1, <1>2, <2>2
    <3>2. u[k] = [t[k] EXCEPT !.level = @ - 1]
      BY <1>2, <2>2
    <3>3. QED
      BY <2>1, <3>1, <3>2, MaxLevelAssumption DEF NodeOf, Level
  <2>3. CASE ~(i < k /\ k < end)
    BY <1>2, <2>1, <2>3
  <2>4. QED
    BY <2>2, <2>3
<1>4. PICK v : v = u
  OBVIOUS
<1>5. v \in [DOMAIN t -> NodeOf(refs)] /\ \A k \in DOMAIN t : v[k].item_ref = t[k].item_ref
  BY <1>3, <1>4
<1>6. Shows(v, refs, items) /\ DOMAIN v = DOMAIN t
  BY <1>5, RelabelShows
<1>7. Len(v) = Len(t)
  BY <1>1, <1>5, FunctionIsTree
<1>8. RemoveDissolve(t, i) = RemoveAt(v, i)
  BY <1>4 DEF RemoveDissolve
<1> HIDE DEF u
<1>9. RemoveAt(v, i) = Cut(v, i, i+1)
  BY DEF RemoveAt, Cut
<1>10. Shows(Cut(v, i, i+1), refs, items \ ItemsIn(v, i, (i+1)-1))
  <2>1. i \in 1..Len(v)+1 /\ i+1 \in i..Len(v)+1
    BY <1>1, <1>7
  <2>2. QED
    BY <1>6, <2>1, CutShows
<1>11. ItemsIn(v, i, (i+1)-1) = {t[i].item_ref}
  <2>1. i..(i+1)-1 = {i}
    BY <1>1
  <2>2. v[i].item_ref = t[i].item_ref
    BY <1>1, <1>5
  <2>3. QED
    BY <2>1, <2>2 DEF ItemsIn
<1>12. QED
  BY <1>8, <1>9, <1>10, <1>11

\* A property of the numbers up to n, one after the other.
LEMMA UpTo ==
  ASSUME NEW n \in Nat, NEW T, 0 \in T, \A k \in 1..n : k-1 \in T => k \in T
  PROVE  \A k \in 0..n : k \in T
<1> DEFINE missing == {k \in 0..n : k \notin T}
<1>1. SUFFICES ASSUME missing # {} PROVE FALSE
  OBVIOUS
<1>2. PICK k \in missing : \A m \in missing : k <= m
  <2>1. missing \subseteq Nat
    OBVIOUS
  <2> HIDE DEF missing
  <2>2. QED
    BY <1>1, <2>1, LeastNat
<1>3. k # 0 /\ k \in 1..n /\ k-1 \in 0..n /\ k-1 \notin missing
  BY <1>2
<1>4. k-1 \in T
  BY <1>3
<1>5. QED
  BY <1>2, <1>3, <1>4

-----------------------------------------------------------------------------
(* Folding and selecting *)

LEMMA FoldShows ==
  ASSUME NEW refs, NEW items, NEW t, Shows(t, refs, items), NEW i \in 1..Len(t),
         NEW unfolded \in BOOLEAN
  PROVE  Shows(XFold(t, i, unfolded), refs, items)
<1>1. t \in Seq(NodeOf(refs)) /\ DOMAIN t = 1..Len(t)
  BY DEF Shows
<1>2. PICK f : f = [t EXCEPT ![i].unfolded = unfolded]
  OBVIOUS
<1>3. ASSUME NEW k \in 1..Len(t)
      PROVE  f[k] \in NodeOf(refs) /\ f[k].item_ref = t[k].item_ref
  <2>1. t[k] \in NodeOf(refs)
    BY <1>1
  <2>2. f[k] = IF k = i THEN [t[k] EXCEPT !.unfolded = unfolded] ELSE t[k]
    BY <1>1, <1>2
  <2>3. QED
    BY <2>1, <2>2 DEF NodeOf
<1>4. f \in [DOMAIN t -> NodeOf(refs)]
  BY <1>1, <1>2, <1>3
<1>5. CASE unfolded
  BY <1>1, <1>2, <1>3, <1>4, <1>5, RelabelShows DEF XFold
<1>6. CASE ~unfolded
  <2>1. PICK g : g = [k \in DOMAIN t |-> IF k \in i..SubtreeEnd(t, i)-1
                        THEN [f[k] EXCEPT !.selected = FALSE] ELSE f[k]]
    OBVIOUS
  <2>2. g = XFold(t, i, unfolded)
    BY <1>2, <1>6, <2>1 DEF XFold
  <2>3. ASSUME NEW k \in 1..Len(t)
        PROVE  g[k] \in NodeOf(refs) /\ g[k].item_ref = t[k].item_ref
    <3>1. f[k] \in NodeOf(refs)
      BY <1>3
    <3>2. g[k] = f[k] \/ g[k] = [f[k] EXCEPT !.selected = FALSE]
      BY <1>1, <2>1
    <3>3. QED
      BY <1>3, <3>1, <3>2 DEF NodeOf
  <2>4. g \in [DOMAIN t -> NodeOf(refs)]
    BY <1>1, <2>1, <2>3
  <2>5. QED
    BY <1>1, <2>2, <2>3, <2>4, RelabelShows
<1>7. QED
  BY <1>5, <1>6

LEMMA FoldAllShows ==
  ASSUME NEW refs, NEW items, NEW t, Shows(t, refs, items), NEW unfolded \in BOOLEAN
  PROVE  Shows(XFoldAll(t, unfolded), refs, items)
<1>1. t \in Seq(NodeOf(refs)) /\ DOMAIN t = 1..Len(t)
  BY DEF Shows
<1>2. PICK g : g = XFoldAll(t, unfolded)
  OBVIOUS
<1>3. ASSUME NEW k \in 1..Len(t)
      PROVE  g[k] \in NodeOf(refs) /\ g[k].item_ref = t[k].item_ref
  <2>1. t[k] \in NodeOf(refs)
    BY <1>1
  <2>2. PICK s \in BOOLEAN : s = (t[k].selected /\ (unfolded \/ t[k].level = 0))
    OBVIOUS
  <2>3. g[k] = [t[k] EXCEPT !.unfolded = unfolded, !.selected = s]
    BY <1>1, <1>2, <2>2 DEF XFoldAll
  <2>4. QED
    BY <2>1, <2>3 DEF NodeOf
<1>4. g \in [DOMAIN t -> NodeOf(refs)]
  BY <1>1, <1>2, <1>3 DEF XFoldAll
<1>5. QED
  BY <1>1, <1>2, <1>3, <1>4, RelabelShows

LEMMA FoldRecursiveShows ==
  ASSUME NEW refs, NEW items, NEW t, Shows(t, refs, items), NEW i \in 1..Len(t),
         NEW unfolded \in BOOLEAN
  PROVE  Shows(XFoldRecursive(t, i, unfolded), refs, items)
<1>1. t \in Seq(NodeOf(refs)) /\ DOMAIN t = 1..Len(t)
  BY DEF Shows
<1>2. PICK g : g = XFoldRecursive(t, i, unfolded)
  OBVIOUS
<1>3. ASSUME NEW k \in 1..Len(t)
      PROVE  g[k] \in NodeOf(refs) /\ g[k].item_ref = t[k].item_ref
  <2>1. t[k] \in NodeOf(refs)
    BY <1>1
  <2>2. CASE k \in i..SubtreeEnd(t, i)-1
    <3>1. PICK s \in BOOLEAN : s = (t[k].selected /\ (unfolded \/ k = i))
      OBVIOUS
    <3>2. g[k] = [t[k] EXCEPT !.unfolded = unfolded, !.selected = s]
      BY <1>1, <1>2, <2>2, <3>1 DEF XFoldRecursive
    <3>3. QED
      BY <2>1, <3>2 DEF NodeOf
  <2>3. CASE ~(k \in i..SubtreeEnd(t, i)-1)
    <3>1. g[k] = t[k]
      BY <1>1, <1>2, <2>3 DEF XFoldRecursive
    <3>2. QED
      BY <2>1, <3>1
  <2>4. QED
    BY <2>2, <2>3
<1>4. g \in [DOMAIN t -> NodeOf(refs)]
  BY <1>1, <1>2, <1>3 DEF XFoldRecursive
<1>5. QED
  BY <1>1, <1>2, <1>3, <1>4, RelabelShows

LEMMA SelectShows ==
  ASSUME NEW refs, NEW items, NEW t, Shows(t, refs, items), NEW positions,
         NEW selected \in BOOLEAN
  PROVE  Shows(XSelect(t, positions, selected), refs, items)
<1>1. t \in Seq(NodeOf(refs)) /\ DOMAIN t = 1..Len(t)
  BY DEF Shows
<1>2. PICK g : g = XSelect(t, positions, selected)
  OBVIOUS
<1>3. ASSUME NEW k \in 1..Len(t)
      PROVE  g[k] \in NodeOf(refs) /\ g[k].item_ref = t[k].item_ref
  <2>1. t[k] \in NodeOf(refs)
    BY <1>1
  <2>2. CASE k \in positions
    <3>1. g[k] = [t[k] EXCEPT !.selected = selected]
      BY <1>1, <1>2, <2>2 DEF XSelect
    <3>2. QED
      BY <2>1, <3>1 DEF NodeOf
  <2>3. CASE ~(k \in positions)
    <3>1. g[k] = t[k]
      BY <1>1, <1>2, <2>3 DEF XSelect
    <3>2. QED
      BY <2>1, <3>1
  <2>4. QED
    BY <2>2, <2>3
<1>4. g \in [DOMAIN t -> NodeOf(refs)]
  BY <1>1, <1>2, <1>3 DEF XSelect
<1>5. QED
  BY <1>1, <1>2, <1>3, <1>4, RelabelShows

-----------------------------------------------------------------------------
(* Moving *)

\* shift_subtree_to_level gives no node a level that does not exist, also on
\* pieces of the tree that are no subtree.
LEMMA ShiftShows ==
  ASSUME NEW refs, NEW items, NEW s, Shows(s, refs, items), NEW level
  PROVE  Shows(Shift(s, level), refs, items)
<1>1. s \in Seq(NodeOf(refs)) /\ DOMAIN s = 1..Len(s)
  BY DEF Shows
<1>2. PICK g : g = Shift(s, level)
  OBVIOUS
<1>3. ASSUME NEW k \in 1..Len(s)
      PROVE  g[k] \in NodeOf(refs) /\ g[k].item_ref = s[k].item_ref
  <2>1. s[k] \in NodeOf(refs)
    BY <1>1
  <2>2. CASE CanShift(SubSeq(s, 1, k), level)
    <3>1. PICK p \in Seq(NodeOf(refs)) : /\ p = SubSeq(s, 1, k) /\ DOMAIN p = 1..k
                                         /\ \A j \in 1..k : p[j] = s[j]
      <4>1. /\ SubSeq(s, 1, k) \in Seq(NodeOf(refs)) /\ DOMAIN SubSeq(s, 1, k) = 1..k
            /\ \A j \in 1..k : SubSeq(s, 1, k)[j] = s[j]
        BY <1>1, Prefix
      <4>2. QED
        BY <4>1, Zenon
    <3>2. k \in 1..k /\ 1 \in 1..k
      BY <1>1
    <3>3. PICK l \in Level : l = s[k].level + level - s[1].level
      BY <2>2, <3>1, <3>2 DEF CanShift
    <3>4. g[k] = [s[k] EXCEPT !.level = l]
      BY <1>1, <1>2, <2>2, <3>3 DEF Shift
    <3>5. QED
      BY <2>1, <3>4 DEF NodeOf
  <2>3. CASE ~CanShift(SubSeq(s, 1, k), level)
    <3>1. g[k] = s[k]
      BY <1>1, <1>2, <2>3 DEF Shift
    <3>2. QED
      BY <2>1, <3>1
  <2>4. QED
    BY <2>2, <2>3
<1>4. g \in [DOMAIN s -> NodeOf(refs)]
  BY <1>1, <1>2, <1>3 DEF Shift
<1>5. QED
  BY <1>1, <1>2, <1>3, <1>4, RelabelShows

\* Between two iterations of move_items: what is left and what was taken out
\* hold the items of the tree, each once.
Extraction(refs) ==
  [status : {"ok", "err", "panic"}, before : Nat \ {0},
   rest : Seq(NodeOf(refs)), moved : Seq(NodeOf(refs))]

Extracted(refs, items) ==
  {st \in Extraction(refs) :
     /\ RefsUnique(st.rest) /\ RefsUnique(st.moved)
     /\ RefsOf(st.rest) \cap RefsOf(st.moved) = {}
     /\ RefsOf(st.rest) \cup RefsOf(st.moved) = items}

LEMMA NothingExtracted ==
  ASSUME NEW refs, NEW items, NEW t, Shows(t, refs, items),
         NEW target, target.before \in Nat \ {0}
  PROVE  NothingMoved(t, target) \in Extracted(refs, items)
<1>1. PICK e : e = <<>>
  OBVIOUS
<1>2. e \in Seq(NodeOf(refs)) /\ RefsUnique(e) /\ RefsOf(e) = {}
  BY <1>1, NothingShows DEF Shows
<1>3. NothingMoved(t, target) = [status |-> "ok", before |-> target.before, rest |-> t, moved |-> e]
  BY <1>1 DEF NothingMoved
<1>4. QED
  BY <1>2, <1>3 DEF Extracted, Extraction, Shows

\* One iteration, also when `rest' has already lost a part of the subtree.
LEMMA ExtractKeeps ==
  ASSUME NEW refs, NEW items, NEW t \in Seq(NodeOf(refs)), NEW i \in 1..Len(t),
         NEW st \in Extracted(refs, items), NEW level
  PROVE  Extract(t, st, i, level) \in Extracted(refs, items)
<1>1. PICK end : end = SubtreeEnd(t, i) /\ end \in i+1..Len(t)+1
  BY SubtreeEndIs
<1>2. PICK subtree : subtree = SubSeq(st.rest, i, end-1)
  OBVIOUS
<1>3. /\ st \in Extraction(refs) /\ Len(t) \in Nat
      /\ Shows(st.rest, refs, RefsOf(st.rest)) /\ Shows(st.moved, refs, RefsOf(st.moved))
      /\ st.before \in Nat \ {0}
  BY DEF Extracted, Extraction, Shows
<1>4. \A s \in {"ok", "err", "panic"} : [st EXCEPT !.status = s] \in Extracted(refs, items)
  BY <1>3 DEF Extracted, Extraction
<1>5. CASE \/ st.status # "ok"
           \/ st.before \in i+1..end-1
           \/ end - 1 > Len(st.rest)
           \/ ~CanShift(subtree, level)
  <2>1. \/ Extract(t, st, i, level) = st
        \/ \E s \in {"ok", "err", "panic"} : Extract(t, st, i, level) = [st EXCEPT !.status = s]
    BY <1>1, <1>2, <1>5 DEF Extract
  <2>2. QED
    BY <1>4, <2>1
<1>6. CASE /\ st.status = "ok" /\ st.before \notin i+1..end-1
           /\ ~(end - 1 > Len(st.rest)) /\ CanShift(subtree, level)
  <2>1. PICK before : before = IF i < st.before THEN st.before - (end - i) ELSE st.before
    OBVIOUS
  <2>2. before \in Nat \ {0}
    BY <1>1, <1>3, <1>6, <2>1
  <2>3. PICK rest, moved : rest = Cut(st.rest, i, end) /\ moved = Shift(subtree, level) \o st.moved
    OBVIOUS
  <2>4. Extract(t, st, i, level) =
          [status |-> "ok", before |-> before, rest |-> rest, moved |-> moved]
    BY <1>1, <1>2, <1>6, <2>1, <2>3 DEF Extract
  <2>5. Len(st.rest) \in Nat
    BY <1>3 DEF Shows
  <2>6. i \in 1..Len(st.rest)+1 /\ end \in i..Len(st.rest)+1 /\ end-1 \in i-1..Len(st.rest)
    BY <1>1, <1>3, <1>6, <2>5
  <2>7. PICK M : M = ItemsIn(st.rest, i, end-1)
    OBVIOUS
  <2>8. Shows(subtree, refs, M)
    BY <1>2, <1>3, <2>6, <2>7, PieceShows
  <2>9. Shows(Shift(subtree, level), refs, M)
    BY <2>8, ShiftShows
  <2>10. Shows(rest, refs, RefsOf(st.rest) \ M)
    BY <1>3, <2>3, <2>6, <2>7, CutShows
  <2>11. M \subseteq RefsOf(st.rest)
    <3>1. i..end-1 \subseteq DOMAIN st.rest
      BY <1>1, <1>3, <2>5, <2>6 DEF Shows
    <3>2. QED
      BY <2>7, <3>1 DEF ItemsIn, RefsOf
  <2>12. M \cap RefsOf(st.moved) = {}
    BY <2>11 DEF Extracted
  <2>13. Shows(moved, refs, M \cup RefsOf(st.moved))
    BY <1>3, <2>3, <2>9, <2>12, JoinShows
  <2>14. /\ RefsOf(rest) \cap RefsOf(moved) = {}
         /\ RefsOf(rest) \cup RefsOf(moved) = items
    BY <2>10, <2>11, <2>13 DEF Shows, Extracted
  <2>15. QED
    BY <2>2, <2>4, <2>10, <2>13, <2>14 DEF Extracted, Extraction, Shows
<1>7. QED
  BY <1>5, <1>6

\* What was taken out goes in again, all of it, or nothing has changed.
LEMMA PlaceShows ==
  ASSUME NEW refs, NEW items, NEW t, Shows(t, refs, items),
         NEW st \in Extracted(refs, items), NEW level
  PROVE  Shows(Place(t, st, level).tree, refs, items)
<1>1. /\ st.before \in Nat \ {0}
      /\ Shows(st.rest, refs, RefsOf(st.rest)) /\ Shows(st.moved, refs, RefsOf(st.moved))
      /\ RefsOf(st.rest) \cap RefsOf(st.moved) = {}
      /\ RefsOf(st.rest) \cup RefsOf(st.moved) = items
  BY DEF Extracted, Extraction, Shows
<1>2. CASE \/ st.status # "ok"
           \/ ~CheckLocation(st.rest, [before |-> st.before, level |-> level])
  <2>1. Place(t, st, level).tree = t
    BY <1>2 DEF Place
  <2>2. QED
    BY <2>1
<1>3. CASE /\ st.status = "ok"
           /\ CheckLocation(st.rest, [before |-> st.before, level |-> level])
  <2>1. Place(t, st, level).tree =
          SubSeq(st.rest, 1, st.before-1) \o st.moved \o SubSeq(st.rest, st.before, Len(st.rest))
    BY <1>3 DEF Place
  <2>2. st.before \in 1..Len(st.rest)+1
    <3>1. st.before <= Len(st.rest) + 1 /\ Len(st.rest) \in Nat
      BY <1>1, <1>3 DEF CheckLocation, Shows
    <3>2. QED
      BY <1>1, <3>1
  <2>3. PICK r, m, b, R, M : /\ r = st.rest /\ m = st.moved /\ b = st.before
                             /\ R = RefsOf(r) /\ M = RefsOf(m)
    OBVIOUS
  <2>4. Shows(r, refs, R) /\ Shows(m, refs, M) /\ R \cap M = {} /\ b \in 1..Len(r)+1
    BY <1>1, <2>2, <2>3
  <2>5. Shows(SubSeq(r, 1, b-1) \o m \o SubSeq(r, b, Len(r)), refs, R \cup M)
    BY <2>4, PutShows
  <2>6. QED
    BY <1>1, <2>1, <2>3, <2>5
<1>4. QED
  BY <1>2, <1>3

\* move_items, for any selection: no item is lost or doubled, also when the
\* subtrees overlap and the move fails half way.
LEMMA MoveItemsShows ==
  ASSUME NEW refs, NEW items, NEW t, Shows(t, refs, items), NEW positions,
         NEW target, target.before \in Nat \ {0}
  PROVE  Shows(MoveItems(t, positions, target).tree, refs, items)
<1> DEFINE at(k) == Len(t) + 1 - k
           turn(k, s) == IF at(k) \in positions THEN Extract(t, s, at(k), target.level) ELSE s
           st[k \in 0..Len(t)] ==
             IF k = 0 THEN NothingMoved(t, target)
             ELSE IF at(k) \in positions THEN Extract(t, st[k-1], at(k), target.level)
             ELSE st[k-1]
<1>1. t \in Seq(NodeOf(refs)) /\ Len(t) \in Nat
  BY DEF Shows
<1>2. PICK n \in Nat : n = Len(t)
  BY <1>1
<1>3. PICK S : S = Extracted(refs, items)
  OBVIOUS
<1>4. PICK a \in S : a = NothingMoved(t, target)
  BY <1>3, NothingExtracted
<1>5. \A k \in 1..n, s \in S : turn(k, s) \in S
  <2>1. ASSUME NEW k \in 1..n, NEW s \in S
        PROVE  turn(k, s) \in S
    <3>1. at(k) \in 1..Len(t)
      BY <1>2
    <3>2. Extract(t, s, at(k), target.level) \in S
      <4> HIDE DEF at
      <4>1. QED
        BY <1>1, <1>3, <3>1, ExtractKeeps
    <3>3. QED
      BY <3>2
  <2>2. QED
    BY <2>1
<1>6. st = [k \in 0..n |->
              IF k = 0 THEN a
              ELSE IF at(k) \in positions THEN Extract(t, st[k-1], at(k), target.level)
              ELSE st[k-1]]
  <2> HIDE DEF at
  <2>1. PICK step : step = [k \in 1..n |-> [s \in S |-> turn(k, s)]]
    OBVIOUS
  <2>2. step \in [1..n -> [S -> S]]
    BY <1>5, <2>1, Zenon
  <2>3. PICK f \in [0..n -> S] : Solves(f, n, a, step)
    BY <2>2, RecursionOnPrefix, Zenon
  <2>4. ASSUME NEW k \in 0..n
        PROVE  f[k] = IF k = 0 THEN a
                      ELSE IF at(k) \in positions THEN Extract(t, f[k-1], at(k), target.level)
                      ELSE f[k-1]
    <3>1. CASE k = 0
      BY <2>3, <3>1 DEF Solves
    <3>2. CASE k # 0
      <4>1. k \in 1..n /\ k-1 \in 0..n
        BY <3>2
      <4>2. f[k-1] \in S /\ f[k] = step[k][f[k-1]]
        BY <2>3, <3>2, <4>1 DEF Solves
      <4>3. step[k][f[k-1]] = turn(k, f[k-1])
        BY <2>1, <4>1, <4>2, Zenon
      <4>4. QED
        BY <3>2, <4>2, <4>3
    <3>3. QED
      BY <3>1, <3>2
  <2>5. f = [k \in 0..n |-> IF k = 0 THEN a
                            ELSE IF at(k) \in positions THEN Extract(t, f[k-1], at(k), target.level)
                            ELSE f[k-1]]
    BY <2>3, <2>4, Zenon
  <2>6. QED
    BY <1>2, <1>4, <2>5, ZenonT(40)
<1>7. MoveItems(t, positions, target) = Place(t, st[n], target.level)
  BY <1>2, Zenon DEF MoveItems
<1>8. \A k \in 1..n : k-1 \in 0..n /\ k \in 0..n /\ k # 0
  OBVIOUS
<1>9. \A k \in 1..n : st[k] = turn(k, st[k-1])
  <2> HIDE DEF st, at
  <2>1. QED
    BY <1>6, <1>8
<1>10. st[0] = a
  <2> HIDE DEF st, at
  <2>1. QED
    BY <1>2, <1>6
<1> HIDE DEF st, turn
<1>11. PICK T : T = {k \in 0..n : st[k] \in S}
  OBVIOUS
<1>12. 0 \in T
  BY <1>2, <1>4, <1>10, <1>11
<1>13. \A k \in 1..n : k-1 \in T => k \in T
  BY <1>5, <1>8, <1>9, <1>11
<1>14. n \in T
  <2>1. \A k \in 0..n : k \in T
    BY <1>12, <1>13, UpTo
  <2>2. QED
    BY <2>1
<1>15. st[n] \in Extracted(refs, items)
  BY <1>3, <1>11, <1>14
<1>16. QED
  BY <1>7, <1>15, PlaceShows

\* move_items of one subtree.
LEMMA MoveSubtreeShows ==
  ASSUME NEW refs, NEW items, NEW t, Shows(t, refs, items), NEW i \in 1..Len(t),
         NEW target, target.before \in Nat \ {0}
  PROVE  Shows(MoveSubtree(t, i, target).tree, refs, items)
<1>1. t \in Seq(NodeOf(refs))
  BY DEF Shows
<1>2. Extract(t, NothingMoved(t, target), i, target.level) \in Extracted(refs, items)
  BY <1>1, NothingExtracted, ExtractKeeps
<1>3. QED
  BY <1>2, PlaceShows DEF MoveSubtree

\* shift_subtree_to_level within the tree.
LEMMA ShiftAtShows ==
  ASSUME NEW refs, NEW items, NEW t, Shows(t, refs, items), NEW i \in 1..Len(t), NEW level
  PROVE  Shows(ShiftAt(t, i, level).tree, refs, items)
<1>1. t \in Seq(NodeOf(refs)) /\ Len(t) \in Nat
  BY DEF Shows
<1>2. PICK end : end = SubtreeEnd(t, i) /\ end \in i+1..Len(t)+1
  BY <1>1, SubtreeEndIs
<1>3. PICK P, M, Q : P = ItemsIn(t, 1, i-1) /\ M = ItemsIn(t, i, end-1) /\ Q = ItemsIn(t, end, Len(t))
  OBVIOUS
<1>4. /\ 1 \in 1..Len(t)+1 /\ i-1 \in 1-1..Len(t)
      /\ i \in 1..Len(t)+1 /\ end-1 \in i-1..Len(t)
      /\ end \in 1..Len(t)+1 /\ Len(t) \in end-1..Len(t)
      /\ i \in (i-1)+1..Len(t)+1 /\ end \in (i-1)+1..Len(t)+1
      /\ end \in (end-1)+1..Len(t)+1 /\ (end-1)+1 = end
  BY <1>1, <1>2
<1>5. PICK p, m, q : /\ p = SubSeq(t, 1, i-1) /\ m = SubSeq(t, i, end-1) /\ q = SubSeq(t, end, Len(t))
  OBVIOUS
<1>6. Shows(p, refs, P) /\ Shows(m, refs, M) /\ Shows(q, refs, Q)
  BY <1>3, <1>4, <1>5, PieceShows
<1>7. P \cap M = {} /\ P \cap Q = {} /\ M \cap Q = {}
  BY <1>3, <1>4, PiecesApart
<1>8. P \cup M \cup Q = items
  BY <1>3, <1>4, PiecesTogether
<1>9. Shows(Shift(m, level), refs, M)
  BY <1>6, ShiftShows
<1>10. Shows(p \o Shift(m, level), refs, P \cup M)
  BY <1>6, <1>7, <1>9, JoinShows
<1>11. Shows(p \o Shift(m, level) \o q, refs, (P \cup M) \cup Q)
  <2>1. (P \cup M) \cap Q = {}
    BY <1>7
  <2>2. QED
    BY <1>6, <1>10, <2>1, JoinShows
<1>12. ShiftAt(t, i, level).tree = p \o Shift(m, level) \o q
  BY <1>2, <1>5 DEF ShiftAt
<1>13. QED
  BY <1>8, <1>11, <1>12

\* move_item: one step down or up keeps the items, also when it fails.
LEMMA MoveItemShows ==
  ASSUME NEW refs, NEW items, NEW t, Shows(t, refs, items), NEW v, NEW direction, NEW groups
  PROVE  Shows(MoveItem(t, v, direction, groups).tree, refs, items)
<1>1. t \in Seq(NodeOf(refs)) /\ Len(t) \in Nat /\ DOMAIN t = 1..Len(t)
  BY DEF Shows
<1>2. CASE ToDisplayed(t, v) = 0
  BY <1>2 DEF MoveItem
<1>3. CASE ToDisplayed(t, v) # 0
  <2>1. PICK i \in 1..Len(t) : i = ToDisplayed(t, v)
    BY <1>1, <1>3, DisplayedIs
  <2>2. PICK end \in 2..Len(t)+1 : end = SubtreeEnd(t, i)
    BY <1>1, SubtreeEndIs
  <2>3. Shows(MoveDown(t, v, groups).tree, refs, items)
    <3>1. \/ MoveDown(t, v, groups).tree = t
          \/ \E l : MoveDown(t, v, groups).tree = ShiftAt(t, i, l).tree
          \/ \E target : /\ end <= Len(t)
                         /\ target.before \in {end + 1, SubtreeEnd(t, end)}
                         /\ MoveDown(t, v, groups).tree = MoveSubtree(t, i, target).tree
      <4>1. CASE end > Len(t)
        BY <2>1, <2>2, <4>1, Zenon DEF MoveDown
      <4>2. CASE ~(end > Len(t)) /\ t[end].level < t[i].level
        BY <2>1, <2>2, <4>2, Zenon DEF MoveDown
      <4>3. CASE ~(end > Len(t)) /\ ~(t[end].level < t[i].level)
        <5>1. end <= Len(t)
          BY <1>1, <4>3
        <5>2. CASE t[end].unfolded /\ t[end].item_ref \in groups
          <6>1. PICK target : target = [before |-> end + 1, level |-> Deeper(t[end].level)]
            OBVIOUS
          <6>2. MoveDown(t, v, groups).tree =
                  IF Overflows(t[end].level) THEN t ELSE MoveSubtree(t, i, target).tree
            BY <2>1, <2>2, <4>3, <5>2, <6>1 DEF MoveDown, Overflown
          <6>3. target.before = end + 1
            BY <6>1
          <6>4. QED
            BY <5>1, <6>2, <6>3
        <5>3. CASE ~(t[end].unfolded /\ t[end].item_ref \in groups)
          <6>1. PICK target : target = [before |-> SubtreeEnd(t, end), level |-> t[i].level]
            OBVIOUS
          <6>2. MoveDown(t, v, groups).tree = MoveSubtree(t, i, target).tree
            BY <2>1, <2>2, <4>3, <5>3, <6>1 DEF MoveDown
          <6>3. target.before = SubtreeEnd(t, end)
            BY <6>1
          <6>4. QED
            BY <5>1, <6>2, <6>3
        <5>4. QED
          BY <5>2, <5>3
      <4>4. QED
        BY <4>1, <4>2, <4>3
    <3>2. ASSUME NEW target, end <= Len(t), target.before \in {end + 1, SubtreeEnd(t, end)}
          PROVE  Shows(MoveSubtree(t, i, target).tree, refs, items)
      <4>1. end \in 1..Len(t)
        BY <1>1, <3>2
      <4>2. SubtreeEnd(t, end) \in end+1..Len(t)+1
        BY <1>1, <4>1, SubtreeEndIs
      <4>3. target.before \in Nat \ {0}
        BY <1>1, <3>2, <4>1, <4>2
      <4>4. QED
        BY <4>3, MoveSubtreeShows
    <3>3. \A l : Shows(ShiftAt(t, i, l).tree, refs, items)
      BY ShiftAtShows
    <3>4. QED
      BY <3>1, <3>2, <3>3
  <2>4. Shows(MoveUp(t, v, groups).tree, refs, items)
    <3>1. PICK pred : pred = VisiblePredecessor(t, i)
      OBVIOUS
    <3>2. CASE pred = 0
      BY <2>1, <3>1, <3>2 DEF MoveUp
    <3>3. CASE pred # 0
      <4>1. i # 1
        BY <3>1, <3>3 DEF VisiblePredecessor
      <4>2. pred \in 1..i-1
        <5>1. i \in 2..Len(t)
          BY <1>1, <4>1
        <5>2. QED
          BY <1>1, <3>1, <5>1, PredecessorIs
      <4>3. \/ MoveUp(t, v, groups).tree = t
            \/ \E l : MoveUp(t, v, groups).tree = ShiftAt(t, i, l).tree
            \/ \E target : /\ target.before = pred
                           /\ MoveUp(t, v, groups).tree = MoveSubtree(t, i, target).tree
        <5>1. CASE \/ t[pred].level > t[i].level
                   \/ /\ t[pred].level = t[i].level
                      /\ t[pred].item_ref \in groups
                      /\ t[pred].unfolded
          <6>1. MoveUp(t, v, groups).tree =
                  IF Overflows(t[i].level) THEN t
                  ELSE ShiftAt(t, i, Deeper(t[i].level)).tree
            BY <2>1, <3>1, <3>3, <5>1 DEF MoveUp, Overflown
          <6>2. QED
            BY <6>1, Zenon
        <5>2. CASE ~(\/ t[pred].level > t[i].level
                     \/ /\ t[pred].level = t[i].level
                        /\ t[pred].item_ref \in groups
                        /\ t[pred].unfolded)
          <6>1. PICK target : target = [before |-> pred, level |-> t[pred].level]
            OBVIOUS
          <6>2. MoveUp(t, v, groups).tree = MoveSubtree(t, i, target).tree
            BY <2>1, <3>1, <3>3, <5>2, <6>1 DEF MoveUp
          <6>3. target.before = pred
            BY <6>1
          <6>4. QED
            BY <6>2, <6>3
        <5>3. QED
          BY <5>1, <5>2
      <4>4. pred \in Nat \ {0}
        BY <4>2
      <4>5. QED
        BY <4>3, <4>4, ShiftAtShows, MoveSubtreeShows
    <3>4. QED
      BY <3>2, <3>3
  <2>5. MoveItem(t, v, direction, groups) \in {MoveDown(t, v, groups), MoveUp(t, v, groups)}
    BY <1>3 DEF MoveItem
  <2>6. QED
    BY <2>3, <2>4, <2>5
<1>4. QED
  BY <1>2, <1>3

-----------------------------------------------------------------------------
(* Draining *)

\* The items of the nodes up to k that stay.
Staying(t, drained, k) == {t[j].item_ref : j \in {x \in 1..k : ~Gone(t, drained, x)}}

\* drain_recursive_if keeps exactly the nodes of no matching subtree.
LEMMA DrainedShows ==
  ASSUME NEW refs, NEW items, NEW t, Shows(t, refs, items), NEW drained
  PROVE  Shows(Drained(t, drained), refs, Staying(t, drained, Len(t)))
<1> DEFINE kept[k \in 0..Len(t)] ==
             IF k = 0 THEN <<>>
             ELSE IF Gone(t, drained, k) THEN kept[k-1]
             ELSE Append(kept[k-1], t[k])
           turn(k, s) == IF Gone(t, drained, k) THEN s ELSE Append(s, t[k])
<1>1. t \in Seq(NodeOf(refs)) /\ Len(t) \in Nat /\ DOMAIN t = 1..Len(t)
  BY DEF Shows
<1>2. PICK n \in Nat : n = Len(t)
  BY <1>1
<1>3. PICK S : S = Seq(NodeOf(refs))
  OBVIOUS
<1>4. PICK a \in S : a = <<>>
  BY <1>3, EmptySeq, Zenon
<1>5. \A k \in 1..n, s \in S : turn(k, s) \in S
  <2>1. ASSUME NEW k \in 1..n, NEW s \in S
        PROVE  turn(k, s) \in S
    <3>1. t[k] \in NodeOf(refs)
      BY <1>1, <1>2
    <3>2. Append(s, t[k]) \in S
      BY <1>3, <3>1
    <3>3. QED
      BY <3>2
  <2>2. QED
    BY <2>1
<1>6. kept = [k \in 0..n |->
                IF k = 0 THEN a
                ELSE IF Gone(t, drained, k) THEN kept[k-1]
                ELSE Append(kept[k-1], t[k])]
  <2>1. PICK step : step = [k \in 1..n |-> [s \in S |-> turn(k, s)]]
    OBVIOUS
  <2>2. step \in [1..n -> [S -> S]]
    BY <1>5, <2>1, Zenon
  <2>3. PICK f \in [0..n -> S] : Solves(f, n, a, step)
    BY <2>2, RecursionOnPrefix, Zenon
  <2>4. ASSUME NEW k \in 0..n
        PROVE  f[k] = IF k = 0 THEN a
                      ELSE IF Gone(t, drained, k) THEN f[k-1]
                      ELSE Append(f[k-1], t[k])
    <3>1. CASE k = 0
      BY <2>3, <3>1 DEF Solves
    <3>2. CASE k # 0
      <4>1. k \in 1..n /\ k-1 \in 0..n
        BY <3>2
      <4>2. f[k-1] \in S /\ f[k] = step[k][f[k-1]]
        BY <2>3, <3>2, <4>1 DEF Solves
      <4>3. step[k][f[k-1]] = turn(k, f[k-1])
        BY <2>1, <4>1, <4>2, Zenon
      <4>4. QED
        BY <3>2, <4>2, <4>3
    <3>3. QED
      BY <3>1, <3>2
  <2>5. f = [k \in 0..n |-> IF k = 0 THEN a
                            ELSE IF Gone(t, drained, k) THEN f[k-1]
                            ELSE Append(f[k-1], t[k])]
    BY <2>3, <2>4, Zenon
  <2>6. QED
    BY <1>2, <1>4, <2>5, Zenon
<1>7. Drained(t, drained) = kept[n]
  BY <1>2, Zenon DEF Drained
<1>8. \A k \in 1..n : k-1 \in 0..n /\ k \in 0..n /\ k # 0
  OBVIOUS
<1> HIDE DEF kept
<1>9. kept[0] = a
  <2>1. 0 \in 0..n
    BY <1>2
  <2>2. QED
    BY <1>6, <2>1
<1>10. \A k \in 1..n : kept[k] = turn(k, kept[k-1])
  BY <1>6, <1>8
<1>11. PICK T : /\ T = {k \in 0..n : Shows(kept[k], refs, Staying(t, drained, k))}
                /\ 0 \in T
  <2>1. Staying(t, drained, 0) = {}
    BY DEF Staying
  <2>2. Shows(kept[0], refs, {})
    BY <1>4, <1>9, NothingShows
  <2>3. 0 \in 0..n
    BY <1>2
  <2>4. QED
    BY <2>1, <2>2, <2>3
<1>12. ASSUME NEW k \in 1..n, k-1 \in T
       PROVE  k \in T
  <2>1. PICK u, A : u = kept[k-1] /\ A = Staying(t, drained, k-1)
    OBVIOUS
  <2>2. Shows(u, refs, A)
    BY <1>11, <1>12, <2>1
  <2>3. 1..k = (1..k-1) \cup {k} /\ k \in 1..Len(t)
    BY <1>2
  <2>4. CASE Gone(t, drained, k)
    <3>1. kept[k] = u
      BY <1>10, <2>1, <2>4
    <3>2. Staying(t, drained, k) = A
      BY <2>1, <2>3, <2>4 DEF Staying
    <3>3. QED
      BY <1>8, <1>11, <2>2, <3>1, <3>2
  <2>5. CASE ~Gone(t, drained, k)
    <3>1. kept[k] = Append(u, t[k])
      BY <1>10, <2>1, <2>5
    <3>2. Staying(t, drained, k) = A \cup {t[k].item_ref}
      BY <2>1, <2>3, <2>5 DEF Staying
    <3>3. t[k].item_ref \notin A
      <4>1. ASSUME NEW j \in 1..k-1, t[j].item_ref = t[k].item_ref
            PROVE  FALSE
        <5>1. j \in DOMAIN t /\ k \in DOMAIN t /\ j # k
          BY <1>1, <2>3
        <5>2. QED
          BY <4>1, <5>1 DEF Shows, RefsUnique
      <4>2. QED
        BY <2>1, <4>1 DEF Staying
    <3>4. PICK node : node = <<t[k]>>
      OBVIOUS
    <3>5. Shows(node, refs, {t[k].item_ref})
      <4>1. t[k] \in NodeOf(refs)
        BY <1>1, <2>3
      <4>2. QED
        BY <3>4, <4>1, NodeShows
    <3>6. Shows(u \o node, refs, A \cup {t[k].item_ref})
      BY <2>2, <3>3, <3>5, JoinShows
    <3>7. Append(u, t[k]) = u \o node
      <4>1. u \in Seq(NodeOf(refs)) /\ t[k] \in NodeOf(refs)
        BY <1>1, <2>2, <2>3 DEF Shows
      <4>2. QED
        BY <3>4, <4>1, AppendIsConcat
    <3>8. QED
      BY <1>8, <1>11, <3>1, <3>2, <3>6, <3>7
  <2>6. QED
    BY <2>4, <2>5
<1>13. n \in T
  <2>1. \A k \in 0..n : k \in T
    BY <1>11, <1>12, UpTo
  <2>2. QED
    BY <2>1
<1>14. QED
  BY <1>2, <1>7, <1>11, <1>13

\* The position of an item, if the tree holds it.
LEMMA PositionIs ==
  ASSUME NEW refs, NEW items, NEW t, Shows(t, refs, items), NEW ref
  PROVE  /\ PositionOf(t, ref) \in 0..Len(t)
         /\ PositionOf(t, ref) # 0 => t[PositionOf(t, ref)].item_ref = ref
         /\ ref \in items => PositionOf(t, ref) # 0
<1>1. t \in Seq(NodeOf(refs)) /\ Len(t) \in Nat /\ DOMAIN t = 1..Len(t)
  BY DEF Shows
<1>2. PICK at : at = {i \in DOMAIN t : t[i].item_ref = ref}
  OBVIOUS
<1>3. at \subseteq Nat /\ at \subseteq 1..Len(t)
  BY <1>1, <1>2
<1>4. PositionOf(t, ref) = IF at = {} THEN 0 ELSE Min(at)
  BY <1>2 DEF PositionOf
<1>5. at # {} => Min(at) \in at
  BY <1>3, MinNat
<1>6. ref \in items => at # {}
  BY <1>2 DEF Shows, RefsOf
<1>7. QED
  BY <1>1, <1>2, <1>3, <1>4, <1>5, <1>6
=============================================================================
