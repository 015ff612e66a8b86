---------------------------- MODULE BuddyProofs ----------------------------
(***************************************************************************)
(* Proofs about the page allocator of mm/mem.c, for every number of pages, *)
(* every largest order and any number of blocks in callers' hands: as long *)
(* as put_pages_to_list makes none of the three wrong merges that breach   *)
(* records, the lists are rings of whole blocks (ListsOfBlocks), a page    *)
(* that looks like the head of a free block is one (MarksTrue), and the    *)
(* callers see the pool of PagePool (PoolImplemented).                     *)
(*                                                                         *)
(* Neither property is inductive: what a list looks like along next says   *)
(* nothing of the blocks callers have, of the links inside them, or of     *)
(* where a block that comes back will fit.  BuddyInv therefore names, for  *)
(* each order, the first pages B[o] of the blocks on its list, and says    *)
(*   - the list is the row of these blocks, linked end to end (Listed),    *)
(*   - these blocks, those callers have and the one in hand are whole:     *)
(*     linked page by page, with no mark but on the first page (Whole),    *)
(*   - no page is in two of them (Apart),                                  *)
(*   - the marks of first pages say who has the block (HeldMarked,         *)
(*     CallSound, MarksSound).                                             *)
(* Each action then moves one block between B, the hand and a caller, and  *)
(* changes links only at the ends of that block and of one list (Touched), *)
(* so that the other lists and blocks stay as they are (OthersKept).  That *)
(* the walk of the properties meets just the pages of a row of blocks is   *)
(* shown at the end, with the places of pages in it as whole numbers of    *)
(* blocks and a rest.  What PagePool promises is inductive as it stands,   *)
(* and passes to the lists by the refinement (PagesNeverShared).           *)
(***************************************************************************)
EXTENDS Buddy, FiniteSetTheorems, WellFoundedInduction, TLAPS

-----------------------------------------------------------------------------
(* Powers of two, and the smallest number with a property                  *)

\* The powers of two that the orders stand for are positive.
LEMMA PowerPositive == \A n \in Nat : 2^n \in Nat \ {0}
<1> TAKE n \in Nat
<1>1. IsFiniteSet(1 .. n) /\ Cardinality(1 .. n) = n
  BY FS_Interval
<1>2. IsFiniteSet(SUBSET (1 .. n)) /\ Cardinality(SUBSET (1 .. n)) = 2^n
  BY <1>1, FS_SUBSET
<1>3. SUBSET (1 .. n) # {}
  OBVIOUS
<1> QED  BY <1>2, <1>3, FS_EmptySet, FS_CardinalityType

\* Each is twice the one before: the subsets of a set with one element more are
\* those without it and those with it.
LEMMA PowerDoubles == \A n \in Nat : 2^(n + 1) = 2^n + 2^n
<1> TAKE n \in Nat
<1> DEFINE S == SUBSET (1 .. n)
           T == {x \cup {n + 1} : x \in S}
<1>1. IsFiniteSet(S) /\ Cardinality(S) = 2^n
  <2>1. IsFiniteSet(1 .. n) /\ Cardinality(1 .. n) = n
    BY FS_Interval
  <2> QED  BY <2>1, FS_SUBSET
<1>2. Cardinality(SUBSET (1 .. n + 1)) = 2^(n + 1)
  <2>1. IsFiniteSet(1 .. n + 1) /\ Cardinality(1 .. n + 1) = n + 1
    BY FS_Interval
  <2> QED  BY <2>1, FS_SUBSET
<1>3. \A x \in S : n + 1 \notin x
  OBVIOUS
<1>4. SUBSET (1 .. n + 1) = S \cup T
  <2>1. \A i : i \in 1 .. n + 1 <=> i \in 1 .. n \/ i = n + 1
    OBVIOUS
  <2>2. ASSUME NEW x \in SUBSET (1 .. n + 1) PROVE x \in S \cup T
    <3>1. x \ {n + 1} \in S
      BY <2>1
    <3>2. CASE n + 1 \in x
      <4>1. x = (x \ {n + 1}) \cup {n + 1}
        BY <3>2
      <4>2. (x \ {n + 1}) \cup {n + 1} \in T
        BY <3>1
      <4> QED  BY <4>1, <4>2
    <3>3. CASE n + 1 \notin x
      <4>1. x = x \ {n + 1}
        BY <3>3
      <4> QED  BY <3>1, <4>1
    <3> QED  BY <3>2, <3>3
  <2>3. \A x \in S : x \subseteq 1 .. n + 1 /\ x \cup {n + 1} \subseteq 1 .. n + 1
    BY <2>1
  <2> HIDE DEF S
  <2>4. S \cup T \subseteq SUBSET (1 .. n + 1)
    BY <2>3
  <2>5. SUBSET (1 .. n + 1) \subseteq S \cup T
    BY <2>2
  <2> QED  BY <2>4, <2>5
<1>5. IsFiniteSet(T) /\ Cardinality(T) = Cardinality(S)
  <2> DEFINE f == [x \in S |-> x \cup {n + 1}]
  <2>1. f \in [S -> T] /\ \A x \in S : f[x] = x \cup {n + 1}
    OBVIOUS
  <2>2. \A y \in T : \E x \in S : f[x] = y
    OBVIOUS
  <2>3. ASSUME NEW x \in S, NEW y \in S, f[x] = f[y] PROVE x = y
    <3>1. x \cup {n + 1} = y \cup {n + 1}
      BY <2>3
    <3>2. x = (x \cup {n + 1}) \ {n + 1} /\ y = (y \cup {n + 1}) \ {n + 1}
      BY <1>3
    <3> QED  BY <3>1, <3>2
  <2> HIDE DEF f, T, S
  <2>4. f \in Bijection(S, T)
    BY <2>1, <2>2, <2>3 DEF Bijection, Injection, Surjection, IsInjective
  <2>5. ExistsBijection(S, T)
    BY <2>4 DEF ExistsBijection
  <2> QED  BY <2>5, <1>1, FS_Bijection
<1>6. S \cap T = {}
  <2>1. \A y \in T : n + 1 \in y
    OBVIOUS
  <2> HIDE DEF S, T
  <2> QED  BY <1>3, <2>1
<1> HIDE DEF S, T
<1>7. Cardinality(S \cup T) = Cardinality(S) + Cardinality(T) - Cardinality({})
  BY <1>1, <1>5, <1>6, FS_Union
<1>8. Cardinality(S) \in Nat /\ Cardinality({}) = 0
  BY <1>1, FS_EmptySet, FS_CardinalityType
<1>9. Cardinality(S \cup T) = Cardinality(S) + Cardinality(S)
  BY <1>5, <1>7, <1>8
<1> QED  BY <1>1, <1>2, <1>4, <1>9

\* The smallest number with a property
LEMMA Smallest ==
  ASSUME NEW S \in SUBSET Nat, S # {}
  PROVE  \E k \in S : \A j \in S : k <= j
<1>1. PICK k \in S : \A j \in S : ~ <<j, k>> \in OpToRel(<, Nat)
  BY NatLessThanWellFounded, WFMin
<1>2. \A j \in S : ~(j < k)
  BY <1>1 DEF OpToRel
<1> QED  BY <1>2

\* What is known of sizes.
LEMMA Sizes ==
  /\ \A o \in Order : Size(o) \in Nat \ {0}
  /\ \A o \in Order : o + 1 \in Order => Size(o + 1) = Size(o) + Size(o)
  /\ NPages \in Nat /\ MaxOrder \in Nat
<1>1. NPages \in Nat /\ MaxOrder \in Nat /\ \A o \in Order : o \in Nat
  BY BuddyAssumption DEF Order
<1>2. \A o \in Order : Size(o) \in Nat \ {0}
  BY <1>1, PowerPositive DEF Size
<1>3. \A o \in Order : Size(o + 1) = Size(o) + Size(o)
  BY <1>1, PowerDoubles DEF Size
<1> QED  BY <1>1, <1>2, <1>3

-----------------------------------------------------------------------------
(* Blocks and rows of blocks                                               *)

\* A block lies in the page array, its pages are linked one after the other,
\* and none but the first can be taken for the head of a block.
Inside(p, o) == p \in Page /\ End(p, o) \in Page
Blocks(D, o) == \A p \in D : Inside(p, o)
Whole(nx, pv, ord, p, o) ==
    /\ Inside(p, o)
    /\ \A x \in p + 1 .. End(p, o) : nx[x - 1] = x /\ pv[x] = x - 1 /\ ord[x] \notin Order

\* s is the row of the m blocks whose first pages are D; Lo(.., k) is the first
\* page of its k-th block, Hi(.., k) the last one, before and behind the row
\* stands the list head.
Row(s, m, D) ==
    /\ s \in [1 .. m -> D]
    /\ \A i, j \in 1 .. m : s[i] = s[j] => i = j
    /\ \A p \in D : \E k \in 1 .. m : s[k] = p
Lo(s, m, o, k) == IF k \in 1 .. m THEN s[k] ELSE Anchor(o)
Hi(s, m, o, k) == IF k \in 1 .. m THEN End(s[k], o) ELSE Anchor(o)

\* The list of order o, as nx and pv have it, is the row of the blocks D.
Linked(nx, pv, s, m, o) ==
    \A k \in 0 .. m : /\ nx[Hi(s, m, o, k)] = Lo(s, m, o, k + 1)
                      /\ pv[Lo(s, m, o, k + 1)] = Hi(s, m, o, k)
RowIn(nx, pv, o, D, s, m) == m \in Nat /\ Row(s, m, D) /\ Linked(nx, pv, s, m, o)
Listed(nx, pv, o, D) == \E m, s : RowIn(nx, pv, o, D, s, m)

\* The ends of a block tell which block it is.
LEMMA Ends ==
  ASSUME NEW o \in Order, NEW D, Blocks(D, o)
  PROVE  /\ \A p \in D : p \in Nat /\ p <= End(p, o) /\ End(p, o) \in Nat /\ End(p, o) < NPages
         /\ \A p, q \in D : End(p, o) = End(q, o) => p = q
         /\ Anchor(o) \in Int /\ Anchor(o) < 0
<1> USE DEF Blocks
<1>1. Size(o) \in Nat \ {0} /\ o \in Nat /\ NPages \in Nat
  BY Sizes DEF Order
<1> QED  BY <1>1 DEF Inside, Page, End, Anchor

\* The ends of different places of a row are different.
LEMMA RowEnds ==
  ASSUME NEW o \in Order, NEW D, Blocks(D, o),
         NEW m \in Nat, NEW s, Row(s, m, D),
         NEW i \in 0 .. m, NEW k \in 0 .. m, i # k
  PROVE  /\ Hi(s, m, o, i) # Hi(s, m, o, k)
         /\ Lo(s, m, o, i + 1) # Lo(s, m, o, k + 1)
<1> USE DEF Blocks
<1>1. \A j \in 1 .. m : s[j] \in D
  BY DEF Row
<1>2. /\ \A j \in 1 .. m : s[j] # Anchor(o) /\ End(s[j], o) # Anchor(o)
      /\ \A j, l \in 1 .. m : End(s[j], o) = End(s[l], o) => s[j] = s[l]
  BY <1>1, Ends
<1>3. \A j, l \in 1 .. m : End(s[j], o) = End(s[l], o) => j = l
  BY <1>2 DEF Row
<1>4. Hi(s, m, o, i) # Hi(s, m, o, k)
  <2>1. i = 0 \/ i \in 1 .. m
    OBVIOUS
  <2>2. k = 0 \/ k \in 1 .. m
    OBVIOUS
  <2>3. 0 \notin 1 .. m
    OBVIOUS
  <2> QED  BY <1>2, <1>3, <2>1, <2>2, <2>3 DEF Hi
<1>5. Lo(s, m, o, i + 1) # Lo(s, m, o, k + 1)
  <2> DEFINE a == i + 1  b == k + 1
  <2>1. a \in 1 .. m \/ a = m + 1
    OBVIOUS
  <2>2. b \in 1 .. m \/ b = m + 1
    OBVIOUS
  <2>3. m + 1 \notin 1 .. m /\ a # b
    OBVIOUS
  <2> HIDE DEF a, b
  <2>4. \A j, l \in 1 .. m : s[j] = s[l] => j = l
    BY DEF Row
  <2>5. Lo(s, m, o, a) # Lo(s, m, o, b)
    BY <1>2, <2>1, <2>2, <2>3, <2>4 DEF Lo
  <2> QED  BY <2>5 DEF a, b
<1> QED  BY <1>4, <1>5

\* The links of the other blocks of a row stay when a place of it changes.
Elsewhere(nx, pv, nx2, pv2, s, m, o, I) ==
    \A k \in 0 .. m : k \notin I => /\ nx2[Hi(s, m, o, k)] = nx[Hi(s, m, o, k)]
                                    /\ pv2[Lo(s, m, o, k + 1)] = pv[Lo(s, m, o, k + 1)]

\* A block of its own is put into the row behind its i-th block.
LinkedBehind(nx2, pv2, s, m, o, p, i) ==
    /\ nx2[Hi(s, m, o, i)] = p
    /\ pv2[p] = Hi(s, m, o, i)
    /\ nx2[End(p, o)] = Lo(s, m, o, i + 1)
    /\ pv2[Lo(s, m, o, i + 1)] = End(p, o)

\* Then it belongs to the row.
LEMMA RowInsert ==
  ASSUME NEW o \in Order, NEW D, Blocks(D, o),
         NEW nx, NEW pv, NEW s, NEW m, RowIn(nx, pv, o, D, s, m),
         NEW p, Inside(p, o), p \notin D,
         NEW i \in 0 .. m, NEW nx2, NEW pv2,
         LinkedBehind(nx2, pv2, s, m, o, p, i), Elsewhere(nx, pv, nx2, pv2, s, m, o, {i})
  PROVE  Listed(nx2, pv2, o, D \cup {p})
<1> USE DEF Blocks
<1> DEFINE t == [k \in 1 .. m + 1 |-> IF k <= i THEN s[k] ELSE IF k = i + 1 THEN p ELSE s[k - 1]]
           n == m + 1
<1>1. m \in Nat /\ n \in Nat /\ s \in [1 .. m -> D]
  BY DEF RowIn, Row
<1>2. /\ nx2[Hi(s, m, o, i)] = p
      /\ pv2[p] = Hi(s, m, o, i)
      /\ nx2[End(p, o)] = Lo(s, m, o, i + 1)
      /\ pv2[Lo(s, m, o, i + 1)] = End(p, o)
      /\ \A k \in 0 .. m : k # i => /\ nx2[Hi(s, m, o, k)] = nx[Hi(s, m, o, k)]
                                    /\ pv2[Lo(s, m, o, k + 1)] = pv[Lo(s, m, o, k + 1)]
  BY DEF LinkedBehind, Elsewhere
<1>3. /\ \A k \in 1 .. n : k <= i => k \in 1 .. m /\ t[k] = s[k]
      /\ i + 1 \in 1 .. n /\ t[i + 1] = p
      /\ \A k \in 1 .. n : k > i + 1 => k - 1 \in 1 .. m /\ t[k] = s[k - 1]
  BY <1>1
<1>4. \A k \in 1 .. n : k <= i \/ k = i + 1 \/ k > i + 1
  BY <1>1
<1>5. DOMAIN t = 1 .. n /\ t = [k \in 1 .. n |-> t[k]]
  OBVIOUS
<1> HIDE DEF t
<1>6. Row(t, n, D \cup {p})
  <2>1. t \in [1 .. n -> D \cup {p}]
    <3>1. \A k \in 1 .. n : t[k] \in D \cup {p}
      BY <1>1, <1>3, <1>4
    <3> QED  BY <1>5, <3>1
  <2>2. ASSUME NEW k \in 1 .. n, NEW l \in 1 .. n, t[k] = t[l] PROVE k = l
    <3>1. \A j \in 1 .. m : s[j] \in D
      BY <1>1
    <3>2. \A a, b \in 1 .. m : s[a] = s[b] => a = b
      BY DEF RowIn, Row
    <3>3. k \in Int /\ l \in Int /\ i \in Int
      BY <1>1
    <3> HIDE DEF n
    <3>4. CASE k = i + 1
      BY <1>3, <1>4, <2>2, <3>1, <3>4
    <3>5. CASE l = i + 1
      BY <1>3, <1>4, <2>2, <3>1, <3>5
    <3>6. CASE k <= i /\ l <= i
      BY <1>3, <2>2, <3>2, <3>6
    <3>7. CASE k > i + 1 /\ l > i + 1
      <4>1. k - 1 = l - 1
        BY <1>3, <2>2, <3>2, <3>7
      <4> QED  BY <3>3, <4>1
    <3>8. CASE k <= i /\ l > i + 1
      <4>1. k = l - 1
        BY <1>3, <2>2, <3>2, <3>8
      <4> QED  BY <3>3, <3>8, <4>1
    <3>9. CASE k > i + 1 /\ l <= i
      <4>1. k - 1 = l
        BY <1>3, <2>2, <3>2, <3>9
      <4> QED  BY <3>3, <3>9, <4>1
    <3> QED  BY <1>4, <3>4, <3>5, <3>6, <3>7, <3>8, <3>9
  <2>3. ASSUME NEW q \in D \cup {p} PROVE \E k \in 1 .. n : t[k] = q
    <3>1. CASE q = p
      BY <1>3, <3>1
    <3>2. CASE q \in D
      <4>1. PICK j \in 1 .. m : s[j] = q
        BY <3>2 DEF RowIn, Row
      <4>2. CASE j <= i
        <5>1. j \in 1 .. n
          BY <1>1
        <5> QED  BY <1>3, <4>1, <4>2, <5>1
      <4>3. CASE ~(j <= i)
        <5>1. j + 1 \in 1 .. n /\ j + 1 > i + 1 /\ (j + 1) - 1 = j
          BY <1>1, <4>3
        <5>2. t[j + 1] = s[j]
          BY <1>3, <5>1
        <5> QED  BY <4>1, <5>1, <5>2
      <4> QED  BY <4>2, <4>3
    <3> QED  BY <3>1, <3>2
  <2> QED  BY <2>1, <2>2, <2>3 DEF Row
<1>7. /\ \A k \in 0 .. i : Lo(t, n, o, k) = Lo(s, m, o, k) /\ Hi(t, n, o, k) = Hi(s, m, o, k)
      /\ Lo(t, n, o, i + 1) = p /\ Hi(t, n, o, i + 1) = End(p, o)
      /\ \A k \in i + 2 .. n + 1 : Lo(t, n, o, k) = Lo(s, m, o, k - 1) /\ Hi(t, n, o, k) = Hi(s, m, o, k - 1)
  <2>1. ASSUME NEW k \in 0 .. i PROVE k \in 1 .. n <=> k \in 1 .. m
    BY <1>1
  <2>2. ASSUME NEW k \in 0 .. i, k \in 1 .. n PROVE t[k] = s[k]
    BY <1>1, <1>3, <2>2
  <2>3. ASSUME NEW k \in i + 2 .. n + 1 PROVE k \in 1 .. n <=> k - 1 \in 1 .. m
    BY <1>1
  <2>4. ASSUME NEW k \in i + 2 .. n + 1, k \in 1 .. n PROVE t[k] = s[k - 1]
    BY <1>1, <1>3, <2>4
  <2> HIDE DEF n
  <2> QED  BY <1>3, <2>1, <2>2, <2>3, <2>4 DEF Lo, Hi
<1>8. ASSUME NEW k \in 0 .. n
      PROVE  nx2[Hi(t, n, o, k)] = Lo(t, n, o, k + 1) /\ pv2[Lo(t, n, o, k + 1)] = Hi(t, n, o, k)
  <2>1. \A l \in 0 .. m : nx[Hi(s, m, o, l)] = Lo(s, m, o, l + 1) /\ pv[Lo(s, m, o, l + 1)] = Hi(s, m, o, l)
    BY DEF RowIn, Linked
  <2>2. CASE k < i
    <3>1. k \in 0 .. i /\ k + 1 \in 0 .. i /\ k \in 0 .. m /\ k # i
      BY <1>1, <2>2
    <3> HIDE DEF n
    <3> QED  BY <1>2, <1>7, <2>1, <3>1
  <2>3. CASE k = i
    <3>1. k \in 0 .. i
      BY <1>1, <2>3
    <3> HIDE DEF n
    <3> QED  BY <1>2, <1>7, <2>3, <3>1
  <2>4. CASE k = i + 1
    <3>1. k + 1 = i + 2 /\ i + 2 \in i + 2 .. n + 1 /\ (i + 2) - 1 = i + 1
      BY <1>1, <2>4
    <3> HIDE DEF n
    <3> QED  BY <1>2, <1>7, <2>4, <3>1
  <2>5. CASE k > i + 1
    <3> DEFINE l == k - 1
    <3>1. k \in i + 2 .. n + 1 /\ k + 1 \in i + 2 .. n + 1 /\ l \in 0 .. m /\ l # i /\ (k + 1) - 1 = l + 1
      BY <1>1, <2>5
    <3>2. Hi(t, n, o, k) = Hi(s, m, o, l) /\ Lo(t, n, o, k + 1) = Lo(s, m, o, l + 1)
      BY <1>2, <1>7, <3>1
    <3> HIDE DEF n, l
    <3> QED  BY <1>2, <2>1, <3>1, <3>2
  <2>6. k < i \/ k = i \/ k = i + 1 \/ k > i + 1
    BY <1>1
  <2> QED  BY <2>2, <2>3, <2>4, <2>5, <2>6
<1> HIDE DEF n
<1>9. RowIn(nx2, pv2, o, D \cup {p}, t, n)
  BY <1>1, <1>6, <1>8 DEF RowIn, Linked
<1> QED  BY <1>9 DEF Listed

\* The i-th block is taken out of the row.
LinkedPast(nx2, pv2, s, m, o, i) ==
    /\ nx2[Hi(s, m, o, i - 1)] = Lo(s, m, o, i + 1)
    /\ pv2[Lo(s, m, o, i + 1)] = Hi(s, m, o, i - 1)

\* Then it no longer belongs to the row.
LEMMA RowRemove ==
  ASSUME NEW o \in Order, NEW D, Blocks(D, o),
         NEW nx, NEW pv, NEW s, NEW m, RowIn(nx, pv, o, D, s, m),
         NEW i \in 1 .. m, NEW nx2, NEW pv2,
         LinkedPast(nx2, pv2, s, m, o, i), Elsewhere(nx, pv, nx2, pv2, s, m, o, {i - 1, i})
  PROVE  Listed(nx2, pv2, o, D \ {s[i]})
<1> USE DEF Blocks
<1> DEFINE n == m - 1
           t == [k \in 1 .. n |-> IF k < i THEN s[k] ELSE s[k + 1]]
<1>1. m \in Nat /\ n \in Nat /\ s \in [1 .. m -> D] /\ i \in Nat /\ i # 0 /\ i <= m
  BY DEF RowIn, Row
<1>2. /\ nx2[Hi(s, m, o, i - 1)] = Lo(s, m, o, i + 1)
      /\ pv2[Lo(s, m, o, i + 1)] = Hi(s, m, o, i - 1)
      /\ \A k \in 0 .. m : k \notin {i - 1, i} => /\ nx2[Hi(s, m, o, k)] = nx[Hi(s, m, o, k)]
                                               /\ pv2[Lo(s, m, o, k + 1)] = pv[Lo(s, m, o, k + 1)]
  BY DEF LinkedPast, Elsewhere
<1>3. /\ \A k \in 1 .. n : k < i => k \in 1 .. m /\ t[k] = s[k]
      /\ \A k \in 1 .. n : k >= i => k + 1 \in 1 .. m /\ t[k] = s[k + 1]
      /\ \A k \in 1 .. n : k < i \/ k >= i
      /\ \A k \in 1 .. n : k \in Int
  BY <1>1
<1>4. DOMAIN t = 1 .. n /\ t = [k \in 1 .. n |-> t[k]]
  OBVIOUS
<1> HIDE DEF t
<1>5. \A a, b \in 1 .. m : s[a] = s[b] => a = b
  BY DEF RowIn, Row
<1>6. Row(t, n, D \ {s[i]})
  <2>1. t \in [1 .. n -> D \ {s[i]}]
    <3>1. ASSUME NEW k \in 1 .. n PROVE t[k] \in D \ {s[i]}
      <4>1. CASE k < i
        BY <1>1, <1>3, <1>5, <4>1
      <4>2. CASE k >= i
        <5>1. k + 1 # i
          BY <1>1, <4>2
        <5> QED  BY <1>1, <1>3, <1>5, <4>2, <5>1
      <4> QED  BY <1>3, <4>1, <4>2
    <3> QED  BY <1>4, <3>1
  <2>2. ASSUME NEW k \in 1 .. n, NEW l \in 1 .. n, t[k] = t[l] PROVE k = l
    <3>1. k \in Int /\ l \in Int /\ i \in Int
      BY <1>1
    <3> HIDE DEF n
    <3>2. CASE k < i /\ l < i
      BY <1>3, <1>5, <2>2, <3>2
    <3>3. CASE k >= i /\ l >= i
      <4>1. k + 1 = l + 1
        BY <1>3, <1>5, <2>2, <3>3
      <4> QED  BY <3>1, <4>1
    <3>4. CASE k < i /\ l >= i
      <4>1. k = l + 1
        BY <1>3, <1>5, <2>2, <3>4
      <4> QED  BY <3>1, <3>4, <4>1
    <3>5. CASE k >= i /\ l < i
      <4>1. k + 1 = l
        BY <1>3, <1>5, <2>2, <3>5
      <4> QED  BY <3>1, <3>5, <4>1
    <3> QED  BY <1>3, <3>2, <3>3, <3>4, <3>5
  <2>3. ASSUME NEW q \in D \ {s[i]} PROVE \E k \in 1 .. n : t[k] = q
    <3>1. PICK j \in 1 .. m : s[j] = q
      BY DEF RowIn, Row
    <3>2. j # i
      BY <3>1
    <3>3. CASE j < i
      <4>1. j \in 1 .. n
        BY <1>1, <3>3
      <4> QED  BY <1>3, <3>1, <3>3, <4>1
    <3>4. CASE ~(j < i)
      <4>1. j - 1 \in 1 .. n /\ j - 1 >= i /\ (j - 1) + 1 = j
        BY <1>1, <3>2, <3>4
      <4>2. t[j - 1] = s[j]
        BY <1>3, <4>1
      <4> QED  BY <3>1, <4>1, <4>2
    <3> QED  BY <3>3, <3>4
  <2> QED  BY <2>1, <2>2, <2>3 DEF Row
<1>7. /\ \A k \in 0 .. i - 1 : Lo(t, n, o, k) = Lo(s, m, o, k) /\ Hi(t, n, o, k) = Hi(s, m, o, k)
      /\ \A k \in i .. n + 1 : Lo(t, n, o, k) = Lo(s, m, o, k + 1) /\ Hi(t, n, o, k) = Hi(s, m, o, k + 1)
  <2>1. ASSUME NEW k \in 0 .. i - 1 PROVE k \in 1 .. n <=> k \in 1 .. m
    BY <1>1
  <2>2. ASSUME NEW k \in 0 .. i - 1, k \in 1 .. n PROVE t[k] = s[k]
    BY <1>1, <1>3, <2>2
  <2>3. ASSUME NEW k \in i .. n + 1 PROVE k \in 1 .. n <=> k + 1 \in 1 .. m
    BY <1>1
  <2>4. ASSUME NEW k \in i .. n + 1, k \in 1 .. n PROVE t[k] = s[k + 1]
    BY <1>1, <1>3, <2>4
  <2> HIDE DEF n
  <2> QED  BY <1>3, <2>1, <2>2, <2>3, <2>4 DEF Lo, Hi
<1>8. ASSUME NEW k \in 0 .. n
      PROVE  nx2[Hi(t, n, o, k)] = Lo(t, n, o, k + 1) /\ pv2[Lo(t, n, o, k + 1)] = Hi(t, n, o, k)
  <2>1. \A l \in 0 .. m : nx[Hi(s, m, o, l)] = Lo(s, m, o, l + 1) /\ pv[Lo(s, m, o, l + 1)] = Hi(s, m, o, l)
    BY DEF RowIn, Linked
  <2>2. CASE k < i - 1
    <3>1. k \in 0 .. i - 1 /\ k + 1 \in 0 .. i - 1 /\ k \in 0 .. m /\ k \notin {i - 1, i}
      BY <1>1, <2>2
    <3> HIDE DEF n
    <3> QED  BY <1>2, <1>7, <2>1, <3>1
  <2>3. CASE k = i - 1
    <3>1. k \in 0 .. i - 1 /\ k + 1 = i /\ i \in i .. n + 1
      BY <1>1, <2>3
    <3> HIDE DEF n
    <3> QED  BY <1>2, <1>7, <2>3, <3>1
  <2>4. CASE k >= i
    <3> DEFINE l == k + 1
    <3>1. k \in i .. n + 1 /\ k + 1 \in i .. n + 1 /\ l \in 0 .. m /\ l \notin {i - 1, i} /\ (k + 1) + 1 = l + 1
      BY <1>1, <2>4
    <3>2. Hi(t, n, o, k) = Hi(s, m, o, l) /\ Lo(t, n, o, k + 1) = Lo(s, m, o, l + 1)
      BY <1>2, <1>7, <3>1
    <3> HIDE DEF n, l
    <3> QED  BY <1>2, <2>1, <3>1, <3>2
  <2>5. k < i - 1 \/ k = i - 1 \/ k >= i
    BY <1>1
  <2> QED  BY <2>2, <2>3, <2>4, <2>5
<1> HIDE DEF n
<1>9. RowIn(nx2, pv2, o, D \ {s[i]}, t, n)
  BY <1>1, <1>6, <1>8 DEF RowIn, Linked
<1> QED  BY <1>9 DEF Listed

\* A list is what its row says: its first block, if there is one, comes right
\* behind the list head.
LEMMA ListFront ==
  ASSUME NEW o \in Order, NEW D, Blocks(D, o),
         NEW nx, NEW pv, Listed(nx, pv, o, D), nx[Anchor(o)] # Anchor(o)
  PROVE  nx[Anchor(o)] \in D /\ pv[nx[Anchor(o)]] = Anchor(o)
<1> USE DEF Blocks
<1>1. PICK m, s : RowIn(nx, pv, o, D, s, m)
  BY DEF Listed
<1>2. m \in Nat /\ s \in [1 .. m -> D] /\ 0 \in 0 .. m /\ 0 \notin 1 .. m /\ 0 + 1 = 1
  BY <1>1 DEF RowIn, Row
<1>3. nx[Anchor(o)] = Lo(s, m, o, 1) /\ pv[Lo(s, m, o, 1)] = Anchor(o)
  BY <1>1, <1>2 DEF RowIn, Linked, Hi
<1>4. 1 \in 1 .. m
  BY <1>3 DEF Lo
<1> QED  BY <1>2, <1>3, <1>4 DEF Lo

\* A list stays as it is when the links of its ends do.
LEMMA ListKept ==
  ASSUME NEW o \in Order, NEW D, NEW nx, NEW pv, Listed(nx, pv, o, D), NEW nx2, NEW pv2,
         nx2[Anchor(o)] = nx[Anchor(o)], pv2[Anchor(o)] = pv[Anchor(o)],
         \A q \in D : nx2[End(q, o)] = nx[End(q, o)] /\ pv2[q] = pv[q]
  PROVE  Listed(nx2, pv2, o, D)
<1>1. PICK m, s : RowIn(nx, pv, o, D, s, m)
  BY DEF Listed
<1>2. \A k \in 1 .. m : s[k] \in D
  BY <1>1 DEF RowIn, Row
<1>3. \A k : nx2[Hi(s, m, o, k)] = nx[Hi(s, m, o, k)] /\ pv2[Lo(s, m, o, k)] = pv[Lo(s, m, o, k)]
  BY <1>2 DEF Hi, Lo
<1>4. RowIn(nx2, pv2, o, D, s, m)
  BY <1>1, <1>3 DEF RowIn, Linked
<1> QED  BY <1>4 DEF Listed

\* The links that change when a block of order o joins or leaves the list of the
\* blocks D: those at the ends of blocks, and of the list head.
Touched(nx, pv, nx2, pv2, o, D) ==
    /\ \A x \in Node : nx2[x] # nx[x] => x = Anchor(o) \/ \E q \in D : x = End(q, o)
    /\ \A x \in Node : pv2[x] # pv[x] => x = Anchor(o) \/ x \in D
Remarked(ord, ord2, D) == \A x \in Page : ord2[x] # ord[x] => x \in D

\* The ends of a row are nodes.
LEMMA RowNodes ==
  ASSUME NEW o \in Order, NEW D, Blocks(D, o),
         NEW m, NEW s, Row(s, m, D)
  PROVE  /\ \A k : Lo(s, m, o, k) \in Node /\ Hi(s, m, o, k) \in Node
         /\ \A k : Lo(s, m, o, k) = Anchor(o) \/ Lo(s, m, o, k) \in D
         /\ \A k : Hi(s, m, o, k) = Anchor(o) \/ \E q \in D : Hi(s, m, o, k) = End(q, o)
  BY DEF Blocks, Row, Lo, Hi, Inside, Node

\* list_add_chain_tail and list_add_chain put a whole block at the end or the
\* front of its list (list.c:78-95).
LEMMA AddBlock ==
  ASSUME NEW o \in Order, NEW D, Blocks(D, o),
         NEW nx \in [Node -> Node], NEW pv \in [Node -> Node], Listed(nx, pv, o, D),
         NEW p, Inside(p, o), p \notin D, NEW nx2, NEW pv2,
         \/ /\ nx2 = AddChainTailNext(nx, pv, p, End(p, o), Anchor(o))
            /\ pv2 = AddChainTailPrev(nx, pv, p, End(p, o), Anchor(o))
         \/ /\ nx2 = AddChainNext(nx, pv, p, End(p, o), Anchor(o))
            /\ pv2 = AddChainPrev(nx, pv, p, End(p, o), Anchor(o))
  PROVE  /\ nx2 \in [Node -> Node] /\ pv2 \in [Node -> Node]
         /\ Listed(nx2, pv2, o, D \cup {p})
         /\ Touched(nx, pv, nx2, pv2, o, D \cup {p})
<1> USE DEF Blocks
<1>1. PICK m, s : RowIn(nx, pv, o, D, s, m)
  BY DEF Listed
<1>2. m \in Nat /\ Row(s, m, D) /\ \A k \in 0 .. m : nx[Hi(s, m, o, k)] = Lo(s, m, o, k + 1)
                                                    /\ pv[Lo(s, m, o, k + 1)] = Hi(s, m, o, k)
  BY <1>1 DEF RowIn, Linked
<1> DEFINE a(i) == Hi(s, m, o, i)
           b(i) == Lo(s, m, o, i + 1)
           e == End(p, o)
<1>3. \E i \in 0 .. m : /\ nx2 = [nx EXCEPT ![a(i)] = p, ![e] = b(i)]
                        /\ pv2 = [pv EXCEPT ![p] = a(i), ![b(i)] = e]
  <2>1. Lo(s, m, o, m + 1) = Anchor(o) /\ Hi(s, m, o, 0) = Anchor(o)
    BY <1>2 DEF Lo, Hi
  <2>2. CASE /\ nx2 = AddChainTailNext(nx, pv, p, End(p, o), Anchor(o))
             /\ pv2 = AddChainTailPrev(nx, pv, p, End(p, o), Anchor(o))
    <3>1. m \in 0 .. m /\ pv[Anchor(o)] = a(m) /\ b(m) = Anchor(o)
      BY <1>2, <2>1
    <3> HIDE DEF a, b
    <3> QED  BY <2>2, <3>1 DEF AddChainTailNext, AddChainTailPrev
  <2>3. CASE /\ nx2 = AddChainNext(nx, pv, p, End(p, o), Anchor(o))
             /\ pv2 = AddChainPrev(nx, pv, p, End(p, o), Anchor(o))
    <3>1. 0 \in 0 .. m /\ nx[Anchor(o)] = b(0) /\ a(0) = Anchor(o)
      BY <1>2, <2>1
    <3>2. e # Anchor(o)
      <4> DEFINE one == {p}
      <4>1. p \in one /\ \A q \in one : Inside(q, o)
        OBVIOUS
      <4> HIDE DEF one
      <4> QED  BY <4>1, Ends
    <3> HIDE DEF a, b
    <3>3. nx2 = [nx EXCEPT ![a(0)] = p, ![e] = b(0)]
      BY <2>3, <3>1, <3>2 DEF AddChainNext
    <3>4. pv2 = [pv EXCEPT ![p] = a(0), ![b(0)] = e]
      BY <2>3, <3>1 DEF AddChainPrev
    <3> QED  BY <3>1, <3>3, <3>4
  <2> QED  BY <2>2, <2>3
<1>4. PICK i \in 0 .. m : /\ nx2 = [nx EXCEPT ![a(i)] = p, ![e] = b(i)]
                          /\ pv2 = [pv EXCEPT ![p] = a(i), ![b(i)] = e]
  BY <1>3
<1>5. /\ \A k : Lo(s, m, o, k) \in Node /\ Hi(s, m, o, k) \in Node
      /\ \A k : Lo(s, m, o, k) = Anchor(o) \/ Lo(s, m, o, k) \in D
      /\ \A k : Hi(s, m, o, k) = Anchor(o) \/ \E q \in D : Hi(s, m, o, k) = End(q, o)
  BY <1>2, RowNodes
<1>6. p \in Node /\ e \in Node
  BY DEF Inside, Node
<1>7. \A k : e # Hi(s, m, o, k) /\ p # Lo(s, m, o, k)
  <2> DEFINE all == D \cup {p}
  <2>1. p \in all /\ (\A q \in D : q \in all) /\ \A q \in all : Inside(q, o)
    OBVIOUS
  <2> HIDE DEF all
  <2>2. p # Anchor(o) /\ e # Anchor(o) /\ \A q \in D : End(q, o) # e
    BY <2>1, Ends
  <2> QED  BY <1>5, <2>2
<1>8. /\ nx2[a(i)] = p /\ nx2[e] = b(i)
      /\ \A x \in Node : x # a(i) /\ x # e => nx2[x] = nx[x]
      /\ pv2[p] = a(i) /\ pv2[b(i)] = e
      /\ \A x \in Node : x # p /\ x # b(i) => pv2[x] = pv[x]
      /\ nx2 \in [Node -> Node] /\ pv2 \in [Node -> Node]
  BY <1>4, <1>5, <1>6, <1>7
<1>9. \A k \in 0 .. m : k # i => /\ nx2[Hi(s, m, o, k)] = nx[Hi(s, m, o, k)]
                                 /\ pv2[Lo(s, m, o, k + 1)] = pv[Lo(s, m, o, k + 1)]
  <2> SUFFICES ASSUME NEW k \in 0 .. m, k # i
               PROVE  nx2[Hi(s, m, o, k)] = nx[Hi(s, m, o, k)] /\ pv2[Lo(s, m, o, k + 1)] = pv[Lo(s, m, o, k + 1)]
    OBVIOUS
  <2>1. Hi(s, m, o, i) # Hi(s, m, o, k) /\ Lo(s, m, o, i + 1) # Lo(s, m, o, k + 1)
    BY <1>2, RowEnds
  <2>2. Hi(s, m, o, k) # e /\ Lo(s, m, o, k + 1) # p
    BY <1>7
  <2> QED  BY <1>5, <1>8, <2>1, <2>2
<1>10. Listed(nx2, pv2, o, D \cup {p})
  <2>1. LinkedBehind(nx2, pv2, s, m, o, p, i)
    BY <1>8 DEF LinkedBehind
  <2>2. Elsewhere(nx, pv, nx2, pv2, s, m, o, {i})
    BY <1>9 DEF Elsewhere
  <2> QED  BY <1>1, <2>1, <2>2, RowInsert
<1>11. Touched(nx, pv, nx2, pv2, o, D \cup {p})
  BY <1>5, <1>8 DEF Touched
<1> QED  BY <1>8, <1>10, <1>11

\* list_remove_chain takes a whole block out of its list (list.c:97-103).
LEMMA RemoveBlock ==
  ASSUME NEW o \in Order, NEW D, Blocks(D, o),
         NEW nx \in [Node -> Node], NEW pv \in [Node -> Node], Listed(nx, pv, o, D),
         NEW p \in D, NEW nx2, NEW pv2,
         nx2 = RemoveChainNext(nx, pv, p, End(p, o)),
         pv2 = RemoveChainPrev(nx, pv, p, End(p, o))
  PROVE  /\ nx2 \in [Node -> Node] /\ pv2 \in [Node -> Node]
         /\ Listed(nx2, pv2, o, D \ {p})
         /\ Touched(nx, pv, nx2, pv2, o, D)
         /\ nx[End(p, o)] = Anchor(o) \/ nx[End(p, o)] \in D
         /\ nx[End(p, o)] # p
<1> USE DEF Blocks
<1>1. PICK m, s : RowIn(nx, pv, o, D, s, m)
  BY DEF Listed
<1>2. m \in Nat /\ Row(s, m, D) /\ \A k \in 0 .. m : nx[Hi(s, m, o, k)] = Lo(s, m, o, k + 1)
                                                    /\ pv[Lo(s, m, o, k + 1)] = Hi(s, m, o, k)
  BY <1>1 DEF RowIn, Linked
<1>3. PICK i \in 1 .. m : s[i] = p
  BY <1>2 DEF Row
<1> DEFINE a == Hi(s, m, o, i - 1)
           b == Lo(s, m, o, i + 1)
<1>4. i \in 0 .. m /\ i - 1 \in 0 .. m /\ (i - 1) + 1 = i /\ i # i - 1
  BY <1>2
<1>5. Hi(s, m, o, i) = End(p, o) /\ Lo(s, m, o, i) = p
  BY <1>3 DEF Hi, Lo
<1>6. nx[End(p, o)] = b /\ pv[p] = a
  BY <1>2, <1>4, <1>5
<1>7. /\ \A k : Lo(s, m, o, k) \in Node /\ Hi(s, m, o, k) \in Node
      /\ \A k : Lo(s, m, o, k) = Anchor(o) \/ Lo(s, m, o, k) \in D
      /\ \A k : Hi(s, m, o, k) = Anchor(o) \/ \E q \in D : Hi(s, m, o, k) = End(q, o)
  BY <1>2, RowNodes
<1>8. b # p
  <2>1. Lo(s, m, o, i + 1) # Lo(s, m, o, (i - 1) + 1)
    BY <1>2, <1>4, RowEnds
  <2> QED  BY <1>4, <1>5, <2>1
<1> HIDE DEF a, b
<1>9. nx2 = [nx EXCEPT ![a] = b] /\ pv2 = [pv EXCEPT ![b] = a]
  BY <1>6 DEF RemoveChainNext, RemoveChainPrev
<1>10. a \in Node /\ b \in Node
  BY <1>7 DEF a, b
<1>11. /\ nx2[a] = b /\ pv2[b] = a
       /\ \A x \in Node : x # a => nx2[x] = nx[x]
       /\ \A x \in Node : x # b => pv2[x] = pv[x]
       /\ nx2 \in [Node -> Node] /\ pv2 \in [Node -> Node]
  BY <1>9, <1>10
<1>12. \A k \in 0 .. m : k \notin {i - 1, i} => nx2[Hi(s, m, o, k)] = nx[Hi(s, m, o, k)]
                                                 /\ pv2[Lo(s, m, o, k + 1)] = pv[Lo(s, m, o, k + 1)]
  <2> SUFFICES ASSUME NEW k \in 0 .. m, k # i - 1, k # i
               PROVE  nx2[Hi(s, m, o, k)] = nx[Hi(s, m, o, k)] /\ pv2[Lo(s, m, o, k + 1)] = pv[Lo(s, m, o, k + 1)]
    OBVIOUS
  <2>1. Hi(s, m, o, k) # a /\ Lo(s, m, o, k + 1) # b
    BY <1>2, <1>4, RowEnds DEF a, b
  <2> QED  BY <1>7, <1>11, <2>1
<1>13. Listed(nx2, pv2, o, D \ {p})
  <2>1. LinkedPast(nx2, pv2, s, m, o, i)
    BY <1>11 DEF LinkedPast, a, b
  <2>2. Elsewhere(nx, pv, nx2, pv2, s, m, o, {i - 1, i})
    BY <1>12 DEF Elsewhere
  <2>3. Listed(nx2, pv2, o, D \ {s[i]})
    BY <1>1, <2>1, <2>2, RowRemove
  <2> QED  BY <1>3, <2>3
<1>14. Touched(nx, pv, nx2, pv2, o, D)
  BY <1>7, <1>11 DEF Touched, a, b
<1> QED  BY <1>6, <1>7, <1>8, <1>11, <1>13, <1>14 DEF b

-----------------------------------------------------------------------------
(* What a change leaves alone                                              *)

\* Two blocks have no page in common.
Clear(p, o, q, j) == Pages(p, o) \cap Pages(q, j) = {}

\* The pages of a block
LEMMA BlockPages ==
  ASSUME NEW o \in Order, NEW p, Inside(p, o)
  PROVE  /\ p \in Pages(p, o) /\ End(p, o) \in Pages(p, o)
         /\ Pages(p, o) \subseteq Page
         /\ \A x \in p + 1 .. End(p, o) : /\ x \in Pages(p, o) /\ x - 1 \in Pages(p, o)
                                          /\ x # p /\ x - 1 # End(p, o)
         /\ \A x \in Pages(p, o) : x = p \/ x \in p + 1 .. End(p, o)
<1>1. Size(o) \in Nat \ {0} /\ NPages \in Nat
  BY Sizes
<1> QED  BY <1>1 DEF Inside, Page, End, Pages

\* A block stays whole when the links at the ends of others and its own, and the
\* orders of their first pages, change.
LEMMA WholeKept ==
  ASSUME NEW o \in Order, NEW D, Blocks(D, o),
         NEW nx, NEW pv, NEW ord, NEW nx2, NEW pv2, NEW ord2,
         Touched(nx, pv, nx2, pv2, o, D), Remarked(ord, ord2, D),
         NEW j \in Order, NEW p, Whole(nx, pv, ord, p, j),
         \A q \in D : (q = p /\ o = j) \/ Clear(q, o, p, j)
  PROVE  Whole(nx2, pv2, ord2, p, j)
<1> USE DEF Blocks
<1>1. Inside(p, j)
  BY DEF Whole
<1>2. ASSUME NEW x \in p + 1 .. End(p, j)
      PROVE  nx2[x - 1] = x /\ pv2[x] = x - 1 /\ ord2[x] \notin Order
  <2>1. x \in Pages(p, j) /\ x - 1 \in Pages(p, j) /\ x # p /\ x - 1 # End(p, j)
    BY <1>1, BlockPages
  <2>2. x \in Page /\ x - 1 \in Page
    BY <1>1, <2>1, BlockPages
  <2>3. \A q \in D : q \in Pages(q, o) /\ End(q, o) \in Pages(q, o)
    BY BlockPages
  <2>4. x \notin D /\ \A q \in D : x - 1 # End(q, o)
    BY <2>1, <2>3 DEF Clear
  <2>5. x # Anchor(o) /\ x - 1 # Anchor(o)
    <3>1. o \in Nat /\ x >= 0 /\ x - 1 >= 0 /\ x \in Int
      BY <2>2, Sizes DEF Order, Page
    <3> QED  BY <3>1 DEF Anchor
  <2>6. nx2[x - 1] = nx[x - 1] /\ pv2[x] = pv[x] /\ ord2[x] = ord[x]
    BY <2>2, <2>4, <2>5 DEF Touched, Remarked, Node
  <2> QED  BY <2>6 DEF Whole
<1> QED  BY <1>1, <1>2 DEF Whole

\* So does the list of another order.
LEMMA OtherListKept ==
  ASSUME NEW o \in Order, NEW D, Blocks(D, o),
         NEW nx, NEW pv, NEW nx2, NEW pv2, Touched(nx, pv, nx2, pv2, o, D),
         NEW j \in Order, j # o, NEW E, Blocks(E, j), Listed(nx, pv, j, E),
         \A q \in D : \A p \in E : Clear(q, o, p, j)
  PROVE  Listed(nx2, pv2, j, E)
<1> USE DEF Blocks
<1>1. Anchor(j) \in Node /\ Anchor(j) # Anchor(o)
  BY Sizes DEF Node, Anchor, Order
<1>2. \A q \in D : q # Anchor(j) /\ End(q, o) # Anchor(j)
  <2>1. Anchor(j) < 0 /\ Anchor(j) \in Int
    BY Sizes DEF Anchor, Order
  <2>2. \A q \in D : q \in Nat /\ End(q, o) \in Nat
    BY Ends
  <2> QED  BY <2>1, <2>2
<1>3. nx2[Anchor(j)] = nx[Anchor(j)] /\ pv2[Anchor(j)] = pv[Anchor(j)]
  BY <1>1, <1>2 DEF Touched
<1>4. ASSUME NEW p \in E PROVE nx2[End(p, j)] = nx[End(p, j)] /\ pv2[p] = pv[p]
  <2>1. p \in Pages(p, j) /\ End(p, j) \in Pages(p, j) /\ \A q \in D : q \in Pages(q, o) /\ End(q, o) \in Pages(q, o)
    BY BlockPages
  <2>2. \A q \in D : p # q /\ End(p, j) # End(q, o)
    BY <2>1 DEF Clear
  <2>3. p # Anchor(o) /\ End(p, j) # Anchor(o)
    <3>1. Anchor(o) < 0 /\ Anchor(o) \in Int
      BY Sizes DEF Anchor, Order
    <3>2. p \in Nat /\ End(p, j) \in Nat
      BY Ends
    <3> QED  BY <3>1, <3>2
  <2>4. p \in Node /\ End(p, j) \in Node
    BY DEF Inside, Node
  <2>5. p \notin D
    BY <2>2
  <2> QED  BY <2>2, <2>3, <2>4, <2>5 DEF Touched
<1> QED  BY <1>3, <1>4, ListKept

\* A block is its two halves.
LEMMA Halves ==
  ASSUME NEW o \in Order, o + 1 \in Order, NEW p, Inside(p, o + 1)
  PROVE  /\ NextBuddy(p, o) \in Page
         /\ End(p, o) = NextBuddy(p, o) - 1
         /\ End(NextBuddy(p, o), o) = End(p, o + 1)
         /\ Inside(p, o) /\ Inside(NextBuddy(p, o), o)
         /\ Pages(p, o + 1) = Pages(p, o) \cup Pages(NextBuddy(p, o), o)
         /\ Clear(p, o, NextBuddy(p, o), o)
<1>1. Size(o) \in Nat \ {0} /\ Size(o + 1) = Size(o) + Size(o) /\ NPages \in Nat
  BY Sizes
<1> QED  BY <1>1 DEF Inside, Page, End, Pages, NextBuddy, Clear

\* Both halves of a whole block are whole.
LEMMA WholeHalves ==
  ASSUME NEW o \in Order, o + 1 \in Order, NEW nx, NEW pv, NEW ord, NEW p,
         Whole(nx, pv, ord, p, o + 1)
  PROVE  /\ Whole(nx, pv, ord, p, o)
         /\ Whole(nx, pv, ord, NextBuddy(p, o), o)
<1> DEFINE t == NextBuddy(p, o)
<1>1. Inside(p, o + 1)
  BY DEF Whole
<1>2. Inside(p, o) /\ Inside(t, o)
  BY <1>1, Halves
<1>3. /\ \A x \in p + 1 .. End(p, o) : x \in p + 1 .. End(p, o + 1)
      /\ \A x \in t + 1 .. End(t, o) : x \in p + 1 .. End(p, o + 1)
  <2>1. Size(o) \in Nat \ {0} /\ Size(o + 1) = Size(o) + Size(o) /\ NPages \in Nat
    BY Sizes
  <2> QED  BY <1>1, <2>1 DEF Inside, Page, End, NextBuddy
<1> HIDE DEF t
<1>4. Whole(nx, pv, ord, p, o) /\ Whole(nx, pv, ord, t, o)
  BY <1>2, <1>3 DEF Whole
<1> QED  BY <1>4 DEF t

\* Two blocks that lie one behind the other are one when they are linked.
LEMMA WholeJoined ==
  ASSUME NEW o \in Order, o + 1 \in Order, NEW nx, NEW pv, NEW ord, NEW p,
         Whole(nx, pv, ord, p, o), Whole(nx, pv, ord, NextBuddy(p, o), o),
         nx[End(p, o)] = NextBuddy(p, o), pv[NextBuddy(p, o)] = End(p, o),
         ord[NextBuddy(p, o)] \notin Order
  PROVE  Whole(nx, pv, ord, p, o + 1)
<1> DEFINE t == NextBuddy(p, o)
<1>1. Inside(p, o) /\ Inside(t, o)
  BY DEF Whole
<1>2. Size(o) \in Nat \ {0} /\ Size(o + 1) = Size(o) + Size(o) /\ NPages \in Nat
  BY Sizes
<1>3. Inside(p, o + 1)
  BY <1>1, <1>2 DEF Inside, Page, End, NextBuddy
<1>4. ASSUME NEW x \in p + 1 .. End(p, o + 1)
      PROVE  x \in p + 1 .. End(p, o) \/ x = t \/ x \in t + 1 .. End(t, o)
  BY <1>1, <1>2 DEF Inside, Page, End, NextBuddy
<1>5. t - 1 = End(p, o)
  BY <1>1, <1>2 DEF Inside, Page, End, NextBuddy
<1>6. nx[t - 1] = t /\ pv[t] = t - 1 /\ ord[t] \notin Order
  BY <1>5
<1> HIDE DEF t
<1>7. ASSUME NEW x \in p + 1 .. End(p, o + 1)
      PROVE  nx[x - 1] = x /\ pv[x] = x - 1 /\ ord[x] \notin Order
  <2>1. CASE x \in p + 1 .. End(p, o)
    BY <2>1 DEF Whole
  <2>2. CASE x = t
    BY <1>6, <2>2
  <2>3. CASE x \in t + 1 .. End(t, o)
    BY <2>3 DEF Whole, t
  <2> QED  BY <1>4, <2>1, <2>2, <2>3
<1> QED  BY <1>3, <1>7 DEF Whole

-----------------------------------------------------------------------------
(* The pages of blocks                                                     *)

\* The pages of a caller, and of the block in hand
HeldBy(hl, h) == IF hl[h] = None THEN {} ELSE Pages(hl[h].pg, hl[h].order)
HandOf(c)     == IF c.op = "idle" THEN {} ELSE Pages(c.pg, c.at)

\* No page is in two blocks: those on lists (B[o] are the first pages of the
\* blocks on the list of order o), the one in hand and those callers have.
ListsApart(B) ==
    \A o, j \in Order : \A p \in B[o], q \in B[j] : (o = j /\ p = q) \/ Clear(p, o, q, j)
Apart(B, hand, hl) ==
    /\ ListsApart(B)
    /\ \A o \in Order : \A p \in B[o] : /\ Pages(p, o) \cap hand = {}
                                        /\ \A h \in Handle : Pages(p, o) \cap HeldBy(hl, h) = {}
    /\ \A h \in Handle : HeldBy(hl, h) \cap hand = {}
    /\ \A g, h \in Handle : g # h => HeldBy(hl, g) \cap HeldBy(hl, h) = {}

\* The pages nobody has
FreeIn(B, hand) == (UNION {UNION {Pages(p, o) : p \in B[o]} : o \in Order}) \cup hand

\* The elements of that union
LEMMA FreeElement ==
  ASSUME NEW B, NEW hand
  PROVE  \A x : x \in FreeIn(B, hand) <=> x \in hand \/ \E o \in Order : \E p \in B[o] : x \in Pages(p, o)
<1>1. \A o \in Order : \A x : x \in UNION {Pages(p, o) : p \in B[o]} <=> \E p \in B[o] : x \in Pages(p, o)
  OBVIOUS
<1>2. \A x : x \in UNION {UNION {Pages(p, o) : p \in B[o]} : o \in Order}
               <=> \E o \in Order : x \in UNION {Pages(p, o) : p \in B[o]}
  OBVIOUS
<1> QED  BY <1>1, <1>2 DEF FreeIn

\* A block leaves its list and comes into the hand.
Take(B, o, p) == [B EXCEPT ![o] = @ \ {p}]

\* No block gets a page of another, and the free pages stay the same.
LEMMA ApartTake ==
  ASSUME NEW B \in [Order -> SUBSET Page], NEW hand, NEW hl, Apart(B, hand, hl),
         NEW o \in Order, NEW p \in B[o]
  PROVE  /\ Take(B, o, p) \in [Order -> SUBSET Page]
         /\ Take(B, o, p)[o] = B[o] \ {p}
         /\ \A j \in Order : j # o => Take(B, o, p)[j] = B[j]
         /\ Apart(Take(B, o, p), hand \cup Pages(p, o), hl)
         /\ FreeIn(Take(B, o, p), hand \cup Pages(p, o)) = FreeIn(B, hand)
<1> DEFINE B2 == Take(B, o, p)
           new == hand \cup Pages(p, o)
<1>1. /\ B2 \in [Order -> SUBSET Page] /\ B2[o] = B[o] \ {p}
      /\ \A j \in Order : j # o => B2[j] = B[j]
  BY DEF Take
<1>2. /\ \A j \in Order : \A q \in B2[j] : q \in B[j] /\ ~(j = o /\ q = p)
      /\ \A j \in Order : \A q \in B[j] : q \in B2[j] \/ (j = o /\ q = p)
  BY <1>1
<1> HIDE DEF B2
<1>3. ListsApart(B2)
  BY <1>2 DEF Apart, ListsApart
<1>4. ASSUME NEW j \in Order, NEW q \in B2[j]
      PROVE  Pages(q, j) \cap new = {} /\ \A h \in Handle : Pages(q, j) \cap HeldBy(hl, h) = {}
  <2>1. q \in B[j] /\ Clear(q, j, p, o)
    BY <1>2 DEF Apart, ListsApart
  <2> QED  BY <2>1 DEF Apart, Clear
<1>5. \A h \in Handle : HeldBy(hl, h) \cap new = {}
  BY DEF Apart
<1>6. FreeIn(B2, new) = FreeIn(B, hand)
  <2>1. \A x : x \in FreeIn(B2, new) <=> x \in new \/ \E j \in Order : \E q \in B2[j] : x \in Pages(q, j)
    BY FreeElement
  <2>2. \A x : x \in FreeIn(B, hand) <=> x \in hand \/ \E j \in Order : \E q \in B[j] : x \in Pages(q, j)
    BY FreeElement
  <2>3. \A x : x \in new <=> x \in hand \/ x \in Pages(p, o)
    OBVIOUS
  <2> HIDE DEF new
  <2>4. \A x \in FreeIn(B2, new) : x \in FreeIn(B, hand)
    BY <1>2, <2>1, <2>2, <2>3
  <2>5. \A x \in FreeIn(B, hand) : x \in FreeIn(B2, new)
    BY <1>2, <2>1, <2>2, <2>3
  <2> QED  BY <2>4, <2>5
<1>7. Apart(B2, new, hl)
  BY <1>3, <1>4, <1>5 DEF Apart
<1> QED  BY <1>1, <1>6, <1>7 DEF B2

\* A block leaves the hand and comes on a list.
Give(B, o, p) == [B EXCEPT ![o] = @ \cup {p}]

\* Here too.
LEMMA ApartGive ==
  ASSUME NEW B \in [Order -> SUBSET Page], NEW hand, NEW hl, Apart(B, hand, hl),
         NEW o \in Order, NEW p \in Page, Pages(p, o) \subseteq hand
  PROVE  /\ Give(B, o, p) \in [Order -> SUBSET Page]
         /\ Give(B, o, p)[o] = B[o] \cup {p}
         /\ \A j \in Order : j # o => Give(B, o, p)[j] = B[j]
         /\ Apart(Give(B, o, p), hand \ Pages(p, o), hl)
         /\ FreeIn(Give(B, o, p), hand \ Pages(p, o)) = FreeIn(B, hand)
<1> DEFINE B2 == Give(B, o, p)
           new == hand \ Pages(p, o)
<1>1. /\ B2 \in [Order -> SUBSET Page] /\ B2[o] = B[o] \cup {p}
      /\ \A j \in Order : j # o => B2[j] = B[j]
  BY DEF Give
<1>2. /\ \A j \in Order : \A q \in B2[j] : q \in B[j] \/ (j = o /\ q = p)
      /\ \A j \in Order : \A q \in B[j] : q \in B2[j]
      /\ p \in B2[o]
  BY <1>1
<1> HIDE DEF B2
<1>3. \A j \in Order : \A q \in B[j] : Clear(q, j, p, o) /\ Clear(p, o, q, j)
  BY DEF Apart, Clear
<1>4. ListsApart(B2)
  BY <1>2, <1>3 DEF Apart, ListsApart
<1>5. ASSUME NEW j \in Order, NEW q \in B2[j]
      PROVE  Pages(q, j) \cap new = {} /\ \A h \in Handle : Pages(q, j) \cap HeldBy(hl, h) = {}
  <2>1. CASE q \in B[j]
    BY <2>1 DEF Apart
  <2>2. CASE j = o /\ q = p
    BY <2>2 DEF Apart
  <2> QED  BY <1>2, <2>1, <2>2
<1>6. \A h \in Handle : HeldBy(hl, h) \cap new = {}
  BY DEF Apart
<1>7. FreeIn(B2, new) = FreeIn(B, hand)
  <2>1. \A x : x \in FreeIn(B2, new) <=> x \in new \/ \E j \in Order : \E q \in B2[j] : x \in Pages(q, j)
    BY FreeElement
  <2>2. \A x : x \in FreeIn(B, hand) <=> x \in hand \/ \E j \in Order : \E q \in B[j] : x \in Pages(q, j)
    BY FreeElement
  <2>3. \A x : x \in new <=> x \in hand /\ x \notin Pages(p, o)
    OBVIOUS
  <2>4. \A x \in Pages(p, o) : x \in hand
    OBVIOUS
  <2> HIDE DEF new
  <2>5. \A x \in FreeIn(B2, new) : x \in FreeIn(B, hand)
    BY <1>2, <2>1, <2>2, <2>3, <2>4
  <2>6. \A x \in FreeIn(B, hand) : x \in FreeIn(B2, new)
    BY <1>2, <2>1, <2>2, <2>3
  <2> QED  BY <2>5, <2>6
<1>8. Apart(B2, new, hl)
  BY <1>4, <1>5, <1>6 DEF Apart
<1> QED  BY <1>1, <1>7, <1>8 DEF B2

\* The block in hand goes to a caller.
LEMMA ApartHold ==
  ASSUME NEW B, NEW hand, NEW hl, NEW hl2, Apart(B, hand, hl), NEW h \in Handle,
         HeldBy(hl2, h) = hand, \A g \in Handle : g # h => hl2[g] = hl[g]
  PROVE  /\ Apart(B, {}, hl2)
         /\ FreeIn(B, {}) = FreeIn(B, hand) \ hand
<1>1. \A g \in Handle : HeldBy(hl2, g) = IF g = h THEN hand ELSE HeldBy(hl, g)
  BY DEF HeldBy
<1>2. Apart(B, {}, hl2)
  BY <1>1 DEF Apart
<1>3. \A x : x \in FreeIn(B, {}) <=> x \in {} \/ \E j \in Order : \E q \in B[j] : x \in Pages(q, j)
  BY FreeElement
<1>4. \A x : x \in FreeIn(B, hand) <=> x \in hand \/ \E j \in Order : \E q \in B[j] : x \in Pages(q, j)
  BY FreeElement
<1>5. \A j \in Order : \A q \in B[j] : \A x \in Pages(q, j) : x \notin hand
  BY DEF Apart
<1> QED  BY <1>2, <1>3, <1>4, <1>5

\* A caller's block comes into the hand.
LEMMA ApartRelease ==
  ASSUME NEW B, NEW hl, NEW hl2, Apart(B, {}, hl), NEW h \in Handle,
         HeldBy(hl2, h) = {}, \A g \in Handle : g # h => hl2[g] = hl[g]
  PROVE  /\ Apart(B, HeldBy(hl, h), hl2)
         /\ FreeIn(B, HeldBy(hl, h)) = FreeIn(B, {}) \cup HeldBy(hl, h)
<1>1. \A g \in Handle : HeldBy(hl2, g) = IF g = h THEN {} ELSE HeldBy(hl, g)
  BY DEF HeldBy
<1>2. Apart(B, HeldBy(hl, h), hl2)
  BY <1>1 DEF Apart
<1> DEFINE hand == HeldBy(hl, h)
<1> HIDE DEF hand
<1>3. \A x : x \in FreeIn(B, {}) <=> x \in {} \/ \E j \in Order : \E q \in B[j] : x \in Pages(q, j)
  BY FreeElement
<1>4. \A x : x \in FreeIn(B, hand) <=> x \in hand \/ \E j \in Order : \E q \in B[j] : x \in Pages(q, j)
  BY FreeElement
<1>5. FreeIn(B, hand) = FreeIn(B, {}) \cup hand
  BY <1>3, <1>4
<1> QED  BY <1>2, <1>5 DEF hand

-----------------------------------------------------------------------------
(* The invariant                                                           *)

Types(nx, pv, bz, ord, hl, c) ==
    /\ nx \in [Node -> Node] /\ pv \in [Node -> Node]
    /\ bz \in [Page -> BOOLEAN] /\ ord \in [Page -> Int]
    /\ hl \in [Handle -> [pg : Page, order : Order] \cup {None}]
    /\ c \in [op : {"idle", "get", "put"}, h : Handle \cup {None}, pg : Int, at : Int, want : Int]

\* The list of each order is the row of the blocks B[o], and they are whole.
ListsSound(B, nx, pv, ord) ==
    /\ B \in [Order -> SUBSET Page]
    /\ \A o \in Order : /\ Listed(nx, pv, o, B[o])
                        /\ \A p \in B[o] : Whole(nx, pv, ord, p, o)

\* The block of a caller is whole too, and marked as taken.
HeldWhole(nx, pv, ord, hl) ==
    \A h \in Handle : hl[h] # None => Whole(nx, pv, ord, hl[h].pg, hl[h].order)
HeldMarked(bz, ord, hl) ==
    \A h \in Handle : hl[h] # None => bz[hl[h].pg] /\ ord[hl[h].pg] = hl[h].order

\* So is the block a call works on, which has no mark yet or none any more.
CallSound(nx, pv, bz, ord, hl, c) ==
    /\ c.op # "idle" => c.at \in Order /\ Whole(nx, pv, ord, c.pg, c.at)
    /\ c.op = "get" => /\ c.h \in Handle /\ hl[c.h] = None
                       /\ c.want \in Order /\ c.want <= c.at
    /\ c.op = "put" => ~bz[c.pg] /\ ord[c.pg] = c.at

\* A page outside the hand that looks like the head of a free block is one.
MarksSound(B, bz, ord, c) ==
    \A o \in Order : \A p \in Page \ HandOf(c) : ~bz[p] /\ ord[p] = o => p \in B[o]

Sound(B, nx, pv, bz, ord, hl, c) ==
    /\ Types(nx, pv, bz, ord, hl, c)
    /\ ListsSound(B, nx, pv, ord)
    /\ Apart(B, HandOf(c), hl)
    /\ HeldWhole(nx, pv, ord, hl)
    /\ HeldMarked(bz, ord, hl)
    /\ CallSound(nx, pv, bz, ord, hl, c)
    /\ MarksSound(B, bz, ord, c)

BuddyInv ==
    breach = {} => /\ ~wild /\ ~refused
                   /\ \E B : Sound(B, next, prev, busy, order, held, call)

\* What a step does to the pages nobody has: none to them, or as PagePool says.
PoolKept(B, B2, hl, hl2, c, c2) ==
    FreeIn(B2, HandOf(c2)) = FreeIn(B, HandOf(c)) /\ hl2 = hl
HandsOut(B, B2, hl, hl2, c, c2) ==
    \E h \in Handle, p \in Page, o \in Order :
        /\ hl[h] = None
        /\ hl2 = [hl EXCEPT ![h] = [pg |-> p, order |-> o]]
        /\ Pages(p, o) \subseteq FreeIn(B, HandOf(c))
        /\ FreeIn(B2, HandOf(c2)) = FreeIn(B, HandOf(c)) \ Pages(p, o)
TakesBack(B, B2, hl, hl2, c, c2) ==
    \E h \in Handle :
        /\ hl[h] # None
        /\ hl2 = [hl EXCEPT ![h] = None]
        /\ FreeIn(B2, HandOf(c2)) = FreeIn(B, HandOf(c)) \cup HeldBy(hl, h)

\* A step keeps the heap sound and does what PagePool says.
Stepped(B) ==
    \E B2 : /\ Sound(B2, next', prev', busy', order', held', call')
            /\ \/ PoolKept(B, B2, held, held', call, call')
               \/ HandsOut(B, B2, held, held', call, call')
               \/ TakesBack(B, B2, held, held', call, call')

-----------------------------------------------------------------------------
(* Each action keeps it                                                    *)

\* A change at the ends of the blocks of one list, and of blocks in hand, keeps
\* all other lists and all blocks.
Near(B, D, o, hand) == \A q \in D : q \in B[o] \/ (Inside(q, o) /\ Pages(q, o) \subseteq hand)
Before(B, nx, pv, ord, hand, hl) ==
    /\ ListsSound(B, nx, pv, ord)
    /\ Apart(B, hand, hl)
    /\ HeldWhole(nx, pv, ord, hl)
    /\ hl \in [Handle -> [pg : Page, order : Order] \cup {None}]
Changed(nx, pv, ord, nx2, pv2, ord2, o, D) ==
    Touched(nx, pv, nx2, pv2, o, D) /\ Remarked(ord, ord2, D)

\* That is so.
LEMMA OthersKept ==
  ASSUME NEW B, NEW nx, NEW pv, NEW ord, NEW hand, NEW hl, Before(B, nx, pv, ord, hand, hl),
         NEW o \in Order, NEW D, Near(B, D, o, hand),
         NEW nx2, NEW pv2, NEW ord2, Changed(nx, pv, ord, nx2, pv2, ord2, o, D)
  PROVE  /\ \A j \in Order : j # o => Listed(nx2, pv2, j, B[j])
         /\ \A j \in Order : \A p \in B[j] : Whole(nx2, pv2, ord2, p, j)
         /\ HeldWhole(nx2, pv2, ord2, hl)
         /\ \A h \in Handle : hl[h] # None => ord2[hl[h].pg] = ord[hl[h].pg]
<1>1. /\ ListsSound(B, nx, pv, ord)
      /\ Apart(B, hand, hl)
      /\ HeldWhole(nx, pv, ord, hl)
      /\ hl \in [Handle -> [pg : Page, order : Order] \cup {None}]
      /\ Touched(nx, pv, nx2, pv2, o, D) /\ Remarked(ord, ord2, D)
  BY DEF Before, Changed
<1>2. \A j \in Order : \A p \in B[j] : Inside(p, j)
  BY <1>1 DEF ListsSound, Whole
<1>3. Blocks(D, o)
  BY <1>2 DEF Near, Blocks
<1>4. \A j \in Order : \A p \in B[j] : \A q \in D : (q = p /\ o = j) \/ Clear(q, o, p, j)
  BY <1>1 DEF Apart, ListsApart, Clear, Near
<1>5. \A h \in Handle : hl[h] # None => \A q \in D : Clear(q, o, hl[h].pg, hl[h].order)
  <2> SUFFICES ASSUME NEW h \in Handle, hl[h] # None, NEW q \in D PROVE Clear(q, o, hl[h].pg, hl[h].order)
    OBVIOUS
  <2>1. HeldBy(hl, h) = Pages(hl[h].pg, hl[h].order)
    BY DEF HeldBy
  <2>2. Pages(q, o) \cap HeldBy(hl, h) = {}
    BY <1>1 DEF Apart, Near
  <2> QED  BY <2>1, <2>2 DEF Clear
<1>6. ASSUME NEW j \in Order, j # o PROVE Listed(nx2, pv2, j, B[j])
  <2>1. Listed(nx, pv, j, B[j])
    BY <1>1 DEF ListsSound
  <2>2. \A q \in D : \A p \in B[j] : Clear(q, o, p, j)
    BY <1>4, <1>6
  <2> DEFINE E == B[j]
  <2>3. Listed(nx, pv, j, E) /\ Blocks(E, j) /\ \A q \in D : \A p \in E : Clear(q, o, p, j)
    BY <1>2, <2>1, <2>2 DEF Blocks
  <2> HIDE DEF E
  <2>4. Listed(nx2, pv2, j, E)
    BY <1>3, <1>1, <1>6, <2>3, OtherListKept
  <2> QED  BY <2>4 DEF E
<1>7. ASSUME NEW j \in Order, NEW p \in B[j] PROVE Whole(nx2, pv2, ord2, p, j)
  <2>1. Whole(nx, pv, ord, p, j)
    BY <1>1 DEF ListsSound
  <2> QED  BY <1>3, <1>1, <1>4, <2>1, WholeKept
<1>8. ASSUME NEW h \in Handle, hl[h] # None
      PROVE  /\ Whole(nx2, pv2, ord2, hl[h].pg, hl[h].order)
             /\ ord2[hl[h].pg] = ord[hl[h].pg]
  <2> DEFINE p == hl[h].pg
             j == hl[h].order
  <2>1. p \in Page /\ j \in Order
    BY <1>1, <1>8
  <2>2. Whole(nx, pv, ord, p, j)
    BY <1>1, <1>8 DEF HeldWhole
  <2>3. \A q \in D : Clear(q, o, p, j)
    BY <1>5, <1>8
  <2> HIDE DEF p, j
  <2>4. Whole(nx2, pv2, ord2, p, j)
    BY <1>3, <1>1, <2>1, <2>2, <2>3, WholeKept
  <2>5. p \notin D
    <3>1. Inside(p, j)
      BY <2>2 DEF Whole
    <3>2. p \in Pages(p, j)
      BY <2>1, <3>1, BlockPages
    <3>3. \A q \in D : q \in Pages(q, o)
      BY <1>3, <1>1, BlockPages DEF Blocks
    <3> QED  BY <2>3, <3>2, <3>3 DEF Clear
  <2>6. ord2[p] = ord[p]
    BY <1>1, <2>1, <2>5 DEF Remarked
  <2> QED  BY <2>4, <2>6 DEF p, j
<1> QED  BY <1>6, <1>7, <1>8 DEF HeldWhole

\* The first block of a list is taken off it (mem.c:115-132).
LEMMA GetFindStep ==
  ASSUME NEW B, Sound(B, next, prev, busy, order, held, call), ~wild,
         NEW h \in Handle, NEW o \in Order, GetFind(h, o)
  PROVE  Stepped(B) /\ ~wild' /\ UNCHANGED <<breach, refused>>
<1>1. PICK j \in o .. MaxOrder :
         LET p == next[Anchor(j)]
             e == End(p, j)
         IN  /\ Begin
             /\ held[h] = None
             /\ ~ListEmpty(next, Anchor(j))
             /\ \A i \in o .. j - 1 : ListEmpty(next, Anchor(i))
             /\ IF p \in Page /\ e \in Page
                THEN /\ next' = [next EXCEPT ![Anchor(j)] = next[e]]
                     /\ prev' = [prev EXCEPT ![next[e]] = Anchor(j)]
                     /\ call' = [op |-> "get", h |-> h, pg |-> p, at |-> j, want |-> o]
                     /\ UNCHANGED wild
                ELSE wild' = TRUE /\ UNCHANGED <<next, prev, call>>
             /\ UNCHANGED <<busy, order, held, refused, breach>>
  BY DEF GetFind
<1> DEFINE p == next[Anchor(j)]
           e == End(p, j)
           B2 == Take(B, j, p)
<1>2. j \in Order /\ o <= j
  BY Sizes DEF Order
<1>3. /\ Types(next, prev, busy, order, held, call)
      /\ ListsSound(B, next, prev, order)
      /\ Apart(B, HandOf(call), held)
      /\ HeldWhole(next, prev, order, held)
      /\ HeldMarked(busy, order, held)
      /\ MarksSound(B, busy, order, call)
  BY DEF Sound
<1>4. HandOf(call) = {} /\ call.op = "idle"
  BY <1>1 DEF Begin, Calling, HandOf
<1>5. Blocks(B[j], j)
  BY <1>2, <1>3 DEF ListsSound, Whole, Blocks
<1>6. p \in B[j] /\ prev[p] = Anchor(j)
  <2>1. Listed(next, prev, j, B[j]) /\ next[Anchor(j)] # Anchor(j)
    BY <1>1, <1>2, <1>3 DEF ListsSound, ListEmpty
  <2> DEFINE D == B[j]
  <2>2. Listed(next, prev, j, D) /\ Blocks(D, j)
    BY <1>5, <2>1
  <2> HIDE DEF D
  <2>3. next[Anchor(j)] \in D /\ prev[next[Anchor(j)]] = Anchor(j)
    BY <1>2, <2>1, <2>2, ListFront
  <2> QED  BY <2>3 DEF D
<1>7. Inside(p, j) /\ p \in Page
  BY <1>5, <1>6 DEF Blocks, Inside
<1>8. /\ next' = [next EXCEPT ![Anchor(j)] = next[e]]
      /\ prev' = [prev EXCEPT ![next[e]] = Anchor(j)]
      /\ call' = [op |-> "get", h |-> h, pg |-> p, at |-> j, want |-> o]
      /\ UNCHANGED <<busy, order, held, refused, breach, wild>>
      /\ held[h] = None
  <2>1. p \in Page /\ e \in Page
    BY <1>7 DEF Inside
  <2> QED  BY <1>1, <2>1
<1> HIDE DEF p
<1>9. next' = RemoveChainNext(next, prev, p, e) /\ prev' = RemoveChainPrev(next, prev, p, e)
  BY <1>6, <1>8 DEF RemoveChainNext, RemoveChainPrev
<1>10. /\ next' \in [Node -> Node] /\ prev' \in [Node -> Node]
       /\ Listed(next', prev', j, B[j] \ {p})
       /\ Touched(next, prev, next', prev', j, B[j])
  <2> DEFINE D == B[j]
  <2>1. Listed(next, prev, j, D) /\ Blocks(D, j) /\ p \in D
        /\ next \in [Node -> Node] /\ prev \in [Node -> Node]
    BY <1>2, <1>3, <1>5, <1>6 DEF ListsSound, Types
  <2> HIDE DEF D
  <2>2. /\ next' \in [Node -> Node] /\ prev' \in [Node -> Node]
        /\ Listed(next', prev', j, D \ {p})
        /\ Touched(next, prev, next', prev', j, D)
    BY <1>2, <1>9, <2>1, RemoveBlock
  <2> QED  BY <2>2 DEF D
<1>11. HandOf(call') = Pages(p, j) /\ Pages(p, j) = {} \cup Pages(p, j)
  BY <1>8 DEF HandOf
<1>12. /\ B2 \in [Order -> SUBSET Page]
       /\ B2[j] = B[j] \ {p}
       /\ \A i \in Order : i # j => B2[i] = B[i]
       /\ Apart(B2, HandOf(call'), held')
       /\ FreeIn(B2, HandOf(call')) = FreeIn(B, HandOf(call))
  <2> DEFINE hand == HandOf(call)
  <2>1. B \in [Order -> SUBSET Page] /\ Apart(B, hand, held)
    BY <1>3 DEF ListsSound
  <2>2. hand \cup Pages(p, j) = HandOf(call')
    BY <1>4, <1>11
  <2> HIDE DEF hand
  <2>3. /\ B2 \in [Order -> SUBSET Page]
        /\ B2[j] = B[j] \ {p}
        /\ \A i \in Order : i # j => B2[i] = B[i]
        /\ Apart(B2, hand \cup Pages(p, j), held)
        /\ FreeIn(B2, hand \cup Pages(p, j)) = FreeIn(B, hand)
    BY <1>2, <1>6, <2>1, ApartTake
  <2> HIDE DEF B2
  <2> QED  BY <1>8, <2>2, <2>3 DEF hand
<1>13. \A i \in Order : B2[i] \subseteq B[i]
  BY <1>12
<1> HIDE DEF B2
<1>14. /\ \A i \in Order : i # j => Listed(next', prev', i, B[i])
       /\ \A i \in Order : \A q \in B[i] : Whole(next', prev', order', q, i)
       /\ HeldWhole(next', prev', order', held')
  <2> DEFINE D == B[j]
  <2>1. Near(B, D, j, HandOf(call)) /\ Changed(next, prev, order, next', prev', order', j, D)
    BY <1>8, <1>10 DEF Near, Remarked, Changed
  <2>2. Before(B, next, prev, order, HandOf(call), held) /\ held' = held
    BY <1>3, <1>8 DEF Types, Before
  <2> HIDE DEF D
  <2> QED  BY <1>2, <2>1, <2>2, OthersKept
<1>15. Types(next', prev', busy', order', held', call')
  <2>1. p \in Int /\ j \in Int /\ o \in Int
    BY <1>2, <1>7, Sizes DEF Page, Order
  <2>2. call' \in [op : {"idle", "get", "put"}, h : Handle \cup {None}, pg : Int, at : Int, want : Int]
    BY <1>8, <2>1
  <2> QED  BY <1>3, <1>8, <1>10, <2>2 DEF Types
<1>16. ListsSound(B2, next', prev', order')
  BY <1>10, <1>12, <1>13, <1>14 DEF ListsSound
<1>17. HeldMarked(busy', order', held')
  BY <1>3, <1>8
<1>18. CallSound(next', prev', busy', order', held', call')
  <2>1. Whole(next', prev', order', p, j)
    BY <1>2, <1>6, <1>14
  <2> QED  BY <1>2, <1>8, <2>1 DEF CallSound
<1>19. MarksSound(B2, busy', order', call')
  <2> SUFFICES ASSUME NEW i \in Order, NEW x \in Page \ HandOf(call'), ~busy[x], order[x] = i
               PROVE  x \in B2[i]
    BY <1>8 DEF MarksSound
  <2>1. x \in B[i]
    BY <1>3, <1>4 DEF MarksSound
  <2>2. x # p
    BY <1>2, <1>7, <1>11, BlockPages
  <2> QED  BY <1>12, <2>1, <2>2
<1>20. Sound(B2, next', prev', busy', order', held', call')
  BY <1>12, <1>14, <1>15, <1>16, <1>17, <1>18, <1>19 DEF Sound
<1>21. PoolKept(B, B2, held, held', call, call')
  BY <1>8, <1>12 DEF PoolKept
<1> QED  BY <1>8, <1>20, <1>21 DEF Stepped

\* What is sound of a block in hand: it is on no list.
LEMMA HandClear ==
  ASSUME NEW B, NEW hand, NEW hl, Apart(B, hand, hl), NEW o \in Order, NEW p, Inside(p, o),
         Pages(p, o) \subseteq hand, NEW j \in Order, NEW q \in B[j], Inside(q, j)
  PROVE  Clear(q, j, p, o) /\ (j = o => q # p)
<1>1. Pages(q, j) \cap hand = {}
  BY DEF Apart
<1>2. p \in Pages(p, o) /\ q \in Pages(q, j)
  BY BlockPages
<1> QED  BY <1>1, <1>2 DEF Clear

\* The lower half of the block in hand goes to the tail of its list, the upper
\* half stays in hand (mem.c:134-141).
LEMMA SplitStep ==
  ASSUME NEW B, Sound(B, next, prev, busy, order, held, call), Split
  PROVE  Stepped(B) /\ UNCHANGED <<wild, breach, refused>>
<1> DEFINE p == call.pg
           j == call.at - 1
           t == NextBuddy(p, j)
           D == B[j] \cup {p}
           B2 == Give(B, j, p)
<1>1. /\ call.op = "get" /\ call.at > call.want
      /\ next' = AddChainTailNext(next, prev, p, End(p, j), Anchor(j))
      /\ prev' = AddChainTailPrev(next, prev, p, End(p, j), Anchor(j))
      /\ order' = [order EXCEPT ![p] = j]
      /\ call' = [call EXCEPT !.pg = t, !.at = j]
      /\ UNCHANGED <<busy, held, refused, breach, wild>>
  BY DEF Split, Calling
<1>2. /\ Types(next, prev, busy, order, held, call)
      /\ ListsSound(B, next, prev, order)
      /\ Apart(B, HandOf(call), held)
      /\ HeldWhole(next, prev, order, held)
      /\ HeldMarked(busy, order, held)
      /\ CallSound(next, prev, busy, order, held, call)
      /\ MarksSound(B, busy, order, call)
  BY DEF Sound
<1>3. /\ call.at \in Order /\ Whole(next, prev, order, p, call.at)
      /\ call.h \in Handle /\ held[call.h] = None /\ call.want \in Order
  BY <1>1, <1>2 DEF CallSound
<1>4. j \in Order /\ j + 1 = call.at /\ j + 1 \in Order /\ call.want <= j
  BY <1>1, <1>3, Sizes DEF Order
<1>5. HandOf(call) = Pages(p, j + 1)
  BY <1>1, <1>4 DEF HandOf
<1>6. Whole(next, prev, order, p, j + 1)
  BY <1>3, <1>4
<1> HIDE DEF p, j, t
<1>7. /\ Inside(p, j) /\ Inside(t, j) /\ p \in Page /\ t \in Page
      /\ Pages(p, j + 1) = Pages(p, j) \cup Pages(t, j)
      /\ Clear(p, j, t, j)
      /\ Whole(next, prev, order, p, j) /\ Whole(next, prev, order, t, j)
  <2>1. Inside(p, j + 1)
    BY <1>6 DEF Whole
  <2> QED  BY <1>4, <1>6, <2>1, Halves, WholeHalves DEF t, Inside
<1>8. Pages(p, j) \subseteq HandOf(call) /\ Pages(t, j) \subseteq HandOf(call)
  BY <1>5, <1>7
<1>9. Blocks(B[j], j)
  BY <1>2, <1>4 DEF ListsSound, Whole, Blocks
<1>10. \A q \in B[j] : Clear(q, j, p, j) /\ Clear(q, j, t, j) /\ q # p
  BY <1>2, <1>4, <1>7, <1>8, <1>9, HandClear DEF Blocks
<1>11. /\ next' \in [Node -> Node] /\ prev' \in [Node -> Node]
       /\ Listed(next', prev', j, B[j] \cup {p})
       /\ Touched(next, prev, next', prev', j, D)
  <2> DEFINE E == B[j]
  <2>1. Listed(next, prev, j, E) /\ Blocks(E, j) /\ p \notin E
        /\ next \in [Node -> Node] /\ prev \in [Node -> Node]
    BY <1>2, <1>4, <1>9, <1>10 DEF ListsSound, Types
  <2> HIDE DEF E
  <2>2. /\ next' \in [Node -> Node] /\ prev' \in [Node -> Node]
        /\ Listed(next', prev', j, E \cup {p})
        /\ Touched(next, prev, next', prev', j, E \cup {p})
    BY <1>1, <1>4, <1>7, <2>1, AddBlock
  <2> QED  BY <2>2 DEF E
<1>12. order' \in [Page -> Int] /\ order'[p] = j /\ \A x \in Page : x # p => order'[x] = order[x]
  <2>1. j \in Int
    BY <1>4 DEF Order
  <2> QED  BY <1>1, <1>2, <1>7, <2>1 DEF Types
<1>13. Remarked(order, order', D) /\ Near(B, D, j, HandOf(call)) /\ Blocks(D, j)
  BY <1>7, <1>8, <1>9, <1>12 DEF Remarked, Near, Blocks
<1>14. \A q \in D : (q = p \/ Clear(q, j, p, j)) /\ Clear(q, j, t, j)
  BY <1>7, <1>10
<1> HIDE DEF D
<1>15. /\ \A i \in Order : i # j => Listed(next', prev', i, B[i])
       /\ \A i \in Order : \A q \in B[i] : Whole(next', prev', order', q, i)
       /\ HeldWhole(next', prev', order', held')
       /\ \A h \in Handle : held[h] # None => order'[held[h].pg] = order[held[h].pg]
  <2>1. Before(B, next, prev, order, HandOf(call), held) /\ held' = held
    BY <1>1, <1>2 DEF Types, Before
  <2>2. Changed(next, prev, order, next', prev', order', j, D)
    BY <1>11, <1>13 DEF Changed
  <2> QED  BY <1>4, <1>13, <2>1, <2>2, OthersKept
<1>16. Whole(next', prev', order', p, j) /\ Whole(next', prev', order', t, j)
  BY <1>4, <1>7, <1>11, <1>13, <1>14, WholeKept
<1>17. /\ B2 \in [Order -> SUBSET Page]
       /\ B2[j] = B[j] \cup {p}
       /\ \A i \in Order : i # j => B2[i] = B[i]
       /\ Apart(B2, HandOf(call'), held')
       /\ FreeIn(B2, HandOf(call')) = FreeIn(B, HandOf(call))
  <2> DEFINE hand == HandOf(call)
  <2>1. B \in [Order -> SUBSET Page] /\ Apart(B, hand, held) /\ Pages(p, j) \subseteq hand
    BY <1>2, <1>8 DEF ListsSound
  <2>2. call'.op = "get" /\ call'.pg = t /\ call'.at = j
    BY <1>1, <1>2 DEF Types
  <2>3. hand \ Pages(p, j) = HandOf(call')
    BY <1>5, <1>7, <2>2 DEF HandOf, Clear
  <2> HIDE DEF hand
  <2>4. /\ B2 \in [Order -> SUBSET Page]
        /\ B2[j] = B[j] \cup {p}
        /\ \A i \in Order : i # j => B2[i] = B[i]
        /\ Apart(B2, hand \ Pages(p, j), held)
        /\ FreeIn(B2, hand \ Pages(p, j)) = FreeIn(B, hand)
    BY <1>4, <1>7, <2>1, ApartGive
  <2> HIDE DEF B2
  <2> QED  BY <1>1, <2>3, <2>4 DEF hand
<1> HIDE DEF B2
<1>18. call'.op = "get" /\ call'.pg = t /\ call'.at = j /\ call'.h = call.h /\ call'.want = call.want
  BY <1>1, <1>2 DEF Types
<1>19. Types(next', prev', busy', order', held', call')
  <2>1. j \in Int /\ t \in Int
    BY <1>4, <1>7 DEF Page, Order
  <2>2. call' \in [op : {"idle", "get", "put"}, h : Handle \cup {None}, pg : Int, at : Int, want : Int]
    BY <1>1, <1>2, <2>1 DEF Types
  <2> QED  BY <1>1, <1>2, <1>11, <1>12, <2>2 DEF Types
<1>20. ListsSound(B2, next', prev', order')
  BY <1>11, <1>15, <1>16, <1>17 DEF ListsSound
<1>21. HeldMarked(busy', order', held')
  BY <1>1, <1>2, <1>15 DEF HeldMarked
<1>22. CallSound(next', prev', busy', order', held', call')
  BY <1>1, <1>3, <1>4, <1>16, <1>18 DEF CallSound
<1>23. MarksSound(B2, busy', order', call')
  <2> SUFFICES ASSUME NEW i \in Order, NEW x \in Page \ HandOf(call'), ~busy[x], order'[x] = i
               PROVE  x \in B2[i]
    BY <1>1 DEF MarksSound
  <2>1. HandOf(call') = Pages(t, j)
    BY <1>18 DEF HandOf
  <2>2. CASE x \in Pages(p, j)
    <3>1. x = p \/ x \in p + 1 .. End(p, j)
      BY <1>4, <1>7, <2>2, BlockPages
    <3>2. x \notin p + 1 .. End(p, j)
      BY <1>16 DEF Whole
    <3> QED  BY <1>12, <1>17, <3>1, <3>2
  <2>3. CASE x \notin Pages(p, j)
    <3>1. x \notin HandOf(call)
      BY <1>5, <1>7, <2>1, <2>3
    <3>2. x # p
      BY <1>4, <1>7, <2>3, BlockPages
    <3>3. x \in B[i]
      BY <1>2, <1>12, <3>1, <3>2 DEF MarksSound
    <3> QED  BY <1>17, <3>3
  <2> QED  BY <2>2, <2>3
<1>24. Sound(B2, next', prev', busy', order', held', call')
  BY <1>15, <1>17, <1>19, <1>20, <1>21, <1>22, <1>23 DEF Sound
<1>25. PoolKept(B, B2, held, held', call, call')
  BY <1>1, <1>17 DEF PoolKept
<1> QED  BY <1>1, <1>24, <1>25 DEF Stepped

\* The block in hand is given to the caller (mem.c:142-146).
LEMMA GetDoneStep ==
  ASSUME NEW B, Sound(B, next, prev, busy, order, held, call), GetDone
  PROVE  Stepped(B) /\ UNCHANGED <<wild, breach, refused>>
<1> DEFINE p == call.pg
           o == call.at
           h == call.h
           D == {p}
<1>1. /\ call.op = "get" /\ call.at = call.want
      /\ busy' = [busy EXCEPT ![p] = TRUE]
      /\ order' = [order EXCEPT ![p] = o]
      /\ held' = [held EXCEPT ![h] = [pg |-> p, order |-> o]]
      /\ call' = Idle
      /\ UNCHANGED <<next, prev, refused, breach, wild>>
  BY DEF GetDone, Calling
<1>2. /\ Types(next, prev, busy, order, held, call)
      /\ ListsSound(B, next, prev, order)
      /\ Apart(B, HandOf(call), held)
      /\ HeldWhole(next, prev, order, held)
      /\ HeldMarked(busy, order, held)
      /\ CallSound(next, prev, busy, order, held, call)
      /\ MarksSound(B, busy, order, call)
  BY DEF Sound
<1>3. o \in Order /\ Whole(next, prev, order, p, o) /\ h \in Handle /\ held[h] = None
  BY <1>1, <1>2 DEF CallSound
<1>4. HandOf(call) = Pages(p, o)
  BY <1>1 DEF HandOf
<1> HIDE DEF p, o, h
<1>5. Inside(p, o) /\ p \in Page /\ p \in Pages(p, o)
  BY <1>3, BlockPages DEF Whole, Inside
<1>6. /\ order' \in [Page -> Int] /\ order'[p] = o /\ \A x \in Page : x # p => order'[x] = order[x]
      /\ busy' \in [Page -> BOOLEAN] /\ busy'[p] /\ \A x \in Page : x # p => busy'[x] = busy[x]
  <2>1. o \in Int
    BY <1>3 DEF Order
  <2>2. order \in [Page -> Int] /\ busy \in [Page -> BOOLEAN]
    BY <1>2 DEF Types
  <2> QED  BY <1>1, <1>5, <2>1, <2>2
<1>7. /\ held \in [Handle -> [pg : Page, order : Order] \cup {None}]
      /\ held' \in [Handle -> [pg : Page, order : Order] \cup {None}]
      /\ held'[h] = [pg |-> p, order |-> o] /\ held'[h] # None
      /\ held'[h].pg = p /\ held'[h].order = o
      /\ \A g \in Handle : g # h => held'[g] = held[g]
  <2>1. [pg |-> p, order |-> o] \in [pg : Page, order : Order]
    BY <1>3, <1>5
  <2>2. held \in [Handle -> [pg : Page, order : Order] \cup {None}]
    BY <1>2 DEF Types
  <2> QED  BY <1>1, <1>3, <2>1, <2>2, BuddyAssumption
<1>8. /\ Touched(next, prev, next', prev', o, D) /\ Remarked(order, order', D)
      /\ Near(B, D, o, HandOf(call)) /\ Blocks(D, o)
  BY <1>1, <1>4, <1>5, <1>6 DEF Touched, Remarked, Near, Blocks
<1>9. \A q \in D : q = p
  OBVIOUS
<1> HIDE DEF D
<1>10. /\ \A i \in Order : \A q \in B[i] : Whole(next', prev', order', q, i)
       /\ HeldWhole(next', prev', order', held)
       /\ \A g \in Handle : held[g] # None => order'[held[g].pg] = order[held[g].pg]
  <2>1. Before(B, next, prev, order, HandOf(call), held)
    BY <1>2, <1>7 DEF Before
  <2>2. Changed(next, prev, order, next', prev', order', o, D)
    BY <1>8 DEF Changed
  <2> QED  BY <1>3, <1>8, <2>1, <2>2, OthersKept
<1>11. Whole(next', prev', order', p, o)
  BY <1>3, <1>8, <1>9, WholeKept
<1>12. HandOf(call') = {} /\ call'.op = "idle"
  BY <1>1 DEF HandOf, Idle
<1>13. HeldBy(held', h) = HandOf(call)
  BY <1>4, <1>7 DEF HeldBy
<1>14. /\ Apart(B, HandOf(call'), held')
       /\ FreeIn(B, HandOf(call')) = FreeIn(B, HandOf(call)) \ HandOf(call)
  BY <1>2, <1>3, <1>7, <1>12, <1>13, ApartHold
<1>15. Types(next', prev', busy', order', held', call')
  <2>1. call' \in [op : {"idle", "get", "put"}, h : Handle \cup {None}, pg : Int, at : Int, want : Int]
    BY <1>1 DEF Idle
  <2> QED  BY <1>1, <1>2, <1>6, <1>7, <2>1 DEF Types
<1>16. ListsSound(B, next', prev', order')
  BY <1>1, <1>2, <1>10 DEF ListsSound
<1>17. HeldWhole(next', prev', order', held')
  BY <1>7, <1>10, <1>11 DEF HeldWhole
<1>18. HeldMarked(busy', order', held')
  <2> SUFFICES ASSUME NEW g \in Handle, held'[g] # None
               PROVE  busy'[held'[g].pg] /\ order'[held'[g].pg] = held'[g].order
    BY DEF HeldMarked
  <2>1. CASE g = h
    BY <1>6, <1>7, <2>1
  <2>2. CASE g # h
    <3>1. held'[g] = held[g] /\ held[g] # None /\ held[g].pg \in Page
      BY <1>7, <2>2
    <3>2. busy[held[g].pg] /\ order[held[g].pg] = held[g].order
      BY <1>2, <3>1 DEF HeldMarked
    <3>3. busy'[held[g].pg]
      BY <1>6, <3>1, <3>2
    <3> QED  BY <1>10, <3>1, <3>2, <3>3
  <2> QED  BY <2>1, <2>2
<1>19. CallSound(next', prev', busy', order', held', call')
  BY <1>12 DEF CallSound
<1>20. MarksSound(B, busy', order', call')
  <2> SUFFICES ASSUME NEW i \in Order, NEW x \in Page, ~busy'[x], order'[x] = i
               PROVE  x \in B[i]
    BY DEF MarksSound
  <2>1. x # p
    BY <1>6
  <2>2. ~busy[x] /\ order[x] = i
    BY <1>6, <2>1
  <2>3. x \notin HandOf(call)
    <3>1. x \notin p + 1 .. End(p, o)
      BY <1>3, <2>2 DEF Whole
    <3> QED  BY <1>3, <1>4, <1>5, <2>1, <3>1, BlockPages
  <2> QED  BY <1>2, <2>2, <2>3 DEF MarksSound
<1>21. Sound(B, next', prev', busy', order', held', call')
  BY <1>14, <1>15, <1>16, <1>17, <1>18, <1>19, <1>20 DEF Sound
<1>22. HandsOut(B, B, held, held', call, call')
  <2>1. HandOf(call) \subseteq FreeIn(B, HandOf(call))
    BY FreeElement
  <2> QED  BY <1>1, <1>3, <1>4, <1>5, <1>14, <2>1 DEF HandsOut
<1> QED  BY <1>1, <1>21, <1>22 DEF Stepped

\* A caller's block comes into the hand; put_pages_to_list finds it marked as
\* taken (mem.c:151-157).
LEMMA PutStartStep ==
  ASSUME NEW B, Sound(B, next, prev, busy, order, held, call), NEW h \in Handle, PutStart(h)
  PROVE  Stepped(B) /\ UNCHANGED <<wild, breach, refused>>
<1> DEFINE p == held[h].pg
           o == held[h].order
<1>1. /\ call.op = "idle" /\ held[h] # None
      /\ held' = [held EXCEPT ![h] = None]
      /\ IF busy[p]
         THEN /\ busy' = [busy EXCEPT ![p] = FALSE]
              /\ call' = [Idle EXCEPT !.op = "put", !.pg = p, !.at = held[h].order]
              /\ UNCHANGED refused
         ELSE refused' = TRUE /\ UNCHANGED <<busy, call>>
      /\ UNCHANGED <<next, prev, order, breach, wild>>
  BY DEF PutStart, Begin, Calling
<1>2. /\ Types(next, prev, busy, order, held, call)
      /\ ListsSound(B, next, prev, order)
      /\ Apart(B, HandOf(call), held)
      /\ HeldWhole(next, prev, order, held)
      /\ HeldMarked(busy, order, held)
      /\ MarksSound(B, busy, order, call)
  BY DEF Sound
<1>3. held \in [Handle -> [pg : Page, order : Order] \cup {None}]
  BY <1>2 DEF Types
<1>4. /\ p \in Page /\ o \in Order /\ busy[p] /\ order[p] = o
      /\ Whole(next, prev, order, p, o) /\ HeldBy(held, h) = Pages(p, o)
  BY <1>1, <1>2, <1>3 DEF HeldMarked, HeldWhole, HeldBy
<1>5. /\ busy' = [busy EXCEPT ![p] = FALSE]
      /\ call' = [Idle EXCEPT !.op = "put", !.pg = p, !.at = o]
      /\ UNCHANGED refused
  BY <1>1, <1>4
<1> HIDE DEF p, o
<1>6. call' = [op |-> "put", h |-> None, pg |-> p, at |-> o, want |-> 0]
  BY <1>5 DEF Idle
<1>7. HandOf(call) = {} /\ HandOf(call') = HeldBy(held, h) /\ HandOf(call') = Pages(p, o)
  BY <1>1, <1>4, <1>6 DEF HandOf
<1>8. Inside(p, o) /\ p \in Pages(p, o)
  BY <1>4, BlockPages DEF Whole
<1>9. /\ held' \in [Handle -> [pg : Page, order : Order] \cup {None}]
      /\ held'[h] = None /\ HeldBy(held', h) = {}
      /\ \A g \in Handle : g # h => held'[g] = held[g]
  BY <1>1, <1>3 DEF HeldBy
<1>10. busy' \in [Page -> BOOLEAN] /\ ~busy'[p] /\ \A x \in Page : x # p => busy'[x] = busy[x]
  <2>1. busy \in [Page -> BOOLEAN]
    BY <1>2 DEF Types
  <2> QED  BY <1>4, <1>5, <2>1
<1>11. /\ Apart(B, HandOf(call'), held')
       /\ FreeIn(B, HandOf(call')) = FreeIn(B, HandOf(call)) \cup HeldBy(held, h)
  <2>1. Apart(B, {}, held)
    BY <1>2, <1>7
  <2> DEFINE hl2 == held'
             none == {}
  <2>2. Apart(B, none, held) /\ HeldBy(hl2, h) = {} /\ \A g \in Handle : g # h => hl2[g] = held[g]
    BY <1>9, <2>1
  <2> HIDE DEF hl2
  <2>3. /\ Apart(B, HeldBy(held, h), hl2)
        /\ FreeIn(B, HeldBy(held, h)) = FreeIn(B, {}) \cup HeldBy(held, h)
    BY <2>2, ApartRelease
  <2> QED  BY <1>7, <2>3 DEF hl2
<1>12. Types(next', prev', busy', order', held', call')
  <2>1. p \in Int /\ o \in Int
    BY <1>4 DEF Page, Order
  <2>2. call' \in [op : {"idle", "get", "put"}, h : Handle \cup {None}, pg : Int, at : Int, want : Int]
    BY <1>6, <2>1
  <2> QED  BY <1>1, <1>2, <1>9, <1>10, <2>2 DEF Types
<1>13. ListsSound(B, next', prev', order')
  BY <1>1, <1>2
<1>14. HeldWhole(next', prev', order', held')
  BY <1>1, <1>2, <1>9 DEF HeldWhole
<1>15. HeldMarked(busy', order', held')
  <2> SUFFICES ASSUME NEW g \in Handle, held'[g] # None
               PROVE  busy'[held'[g].pg] /\ order'[held'[g].pg] = held'[g].order
    BY DEF HeldMarked
  <2>1. g # h /\ held'[g] = held[g] /\ held[g] # None /\ held[g].pg \in Page /\ held[g].order \in Order
    BY <1>3, <1>9
  <2>2. busy[held[g].pg] /\ order[held[g].pg] = held[g].order
    BY <1>2, <2>1 DEF HeldMarked
  <2>3. held[g].pg # p
    <3>1. Whole(next, prev, order, held[g].pg, held[g].order)
      BY <1>2, <2>1 DEF HeldWhole
    <3> DEFINE q == held[g].pg
               i == held[g].order
    <3>2. q \in Pages(q, i)
      <4>1. Inside(q, i) /\ i \in Order
        BY <2>1, <3>1 DEF Whole
      <4> HIDE DEF q, i
      <4> QED  BY <4>1, BlockPages
    <3>3. q \in HeldBy(held, g)
      BY <2>1, <3>2 DEF HeldBy
    <3>4. HeldBy(held, g) \cap HeldBy(held, h) = {}
      BY <1>2, <2>1 DEF Apart
    <3> QED  BY <1>4, <1>8, <3>3, <3>4
  <2>4. busy'[held[g].pg]
    BY <1>10, <2>1, <2>2, <2>3
  <2> QED  BY <1>1, <2>1, <2>2, <2>4
<1>16. CallSound(next', prev', busy', order', held', call')
  <2>1. call'.op = "put" /\ call'.pg = p /\ call'.at = o
    BY <1>6
  <2> QED  BY <1>1, <1>4, <1>10, <2>1 DEF CallSound
<1>17. MarksSound(B, busy', order', call')
  <2> SUFFICES ASSUME NEW i \in Order, NEW x \in Page \ HandOf(call'), ~busy'[x], order[x] = i
               PROVE  x \in B[i]
    BY <1>1 DEF MarksSound
  <2>1. x # p
    BY <1>7, <1>8
  <2> QED  BY <1>2, <1>7, <1>10, <2>1 DEF MarksSound
<1>18. Sound(B, next', prev', busy', order', held', call')
  BY <1>11, <1>12, <1>13, <1>14, <1>15, <1>16, <1>17 DEF Sound
<1>19. TakesBack(B, B, held, held', call, call')
  BY <1>1, <1>11 DEF TakesBack
<1> QED  BY <1>1, <1>5, <1>18, <1>19 DEF Stepped

\* The block behind the one in hand is free: it leaves its list, and the two are
\* one block (mem.c:162-170).
LEMMA MergeNextStep ==
  ASSUME NEW B, Sound(B, next, prev, busy, order, held, call), MergeNext, breach' = {}
  PROVE  Stepped(B) /\ UNCHANGED <<wild, breach, refused>>
<1> DEFINE p == call.pg
           o == call.at
           t == NextBuddy(p, o)
           e == End(p, o)
           nx1 == RemoveChainNext(next, prev, t, End(t, o))
           pv1 == RemoveChainPrev(next, prev, t, End(t, o))
           D == B[o] \cup {p}
           B2 == Take(B, o, t)
<1>1. /\ call.op = "put" /\ LooksFree(t, o)
      /\ IF End(t, o) \in Page
         THEN /\ next' = [nx1 EXCEPT ![e] = t]
              /\ prev' = [pv1 EXCEPT ![t] = e]
              /\ order' = [order EXCEPT ![p] = @ + 1, ![t] = -1]
              /\ call' = [call EXCEPT !.at = o + 1]
              /\ UNCHANGED wild
         ELSE wild' = TRUE /\ UNCHANGED <<next, prev, order, call>>
      /\ breach' = IF o = MaxOrder THEN breach \cup {"top"} ELSE breach
      /\ UNCHANGED <<busy, held, refused>>
  BY DEF MergeNext, Calling
<1>2. /\ Types(next, prev, busy, order, held, call)
      /\ ListsSound(B, next, prev, order)
      /\ Apart(B, HandOf(call), held)
      /\ HeldWhole(next, prev, order, held)
      /\ HeldMarked(busy, order, held)
      /\ CallSound(next, prev, busy, order, held, call)
      /\ MarksSound(B, busy, order, call)
  BY DEF Sound
<1>3. o \in Order /\ Whole(next, prev, order, p, o) /\ ~busy[p] /\ order[p] = o
  BY <1>1, <1>2 DEF CallSound
<1>4. o # MaxOrder /\ breach' = breach
  BY <1>1
<1>5. o + 1 \in Order
  <2> HIDE DEF o
  <2> QED  BY <1>3, <1>4, Sizes DEF Order
<1>6. HandOf(call) = Pages(p, o)
  BY <1>1 DEF HandOf
<1> HIDE DEF p, o
<1>7. Inside(p, o) /\ p \in Page /\ e \in Page /\ Pages(p, o) \subseteq HandOf(call)
  BY <1>3, <1>6 DEF Whole, Inside
<1>8. t \in B[o]
  <2>1. t \notin Pages(p, o)
    <3>1. Size(o) \in Nat \ {0} /\ p \in Int
      BY <1>3, <1>7, Sizes DEF Page
    <3> QED  BY <3>1 DEF Pages, End, NextBuddy
  <2> QED  BY <1>1, <1>2, <1>3, <1>6, <2>1 DEF LooksFree, MarksSound
<1>9. Blocks(B[o], o)
  BY <1>2, <1>3 DEF ListsSound, Whole, Blocks
<1>10. Inside(t, o) /\ t \in Page /\ End(t, o) \in Page
  BY <1>8, <1>9 DEF Blocks, Inside
<1>11. /\ next' = [nx1 EXCEPT ![e] = t]
       /\ prev' = [pv1 EXCEPT ![t] = e]
       /\ order' = [order EXCEPT ![p] = @ + 1, ![t] = -1]
       /\ call' = [call EXCEPT !.at = o + 1]
       /\ UNCHANGED <<busy, held, refused, breach, wild>>
  BY <1>1, <1>4, <1>10
<1>12. \A q \in B[o] : Clear(q, o, p, o) /\ q # p
  BY <1>2, <1>3, <1>7, <1>9, HandClear DEF Blocks
<1>13. e # Anchor(o) /\ t # Anchor(o) /\ \A q \in B[o] : End(q, o) # e
  <2>1. Blocks(D, o) /\ p \in D /\ t \in D /\ \A q \in B[o] : q \in D
    BY <1>7, <1>8, <1>9 DEF Blocks
  <2> HIDE DEF D, t
  <2> QED  BY <1>3, <1>12, <2>1, Ends
<1>14. /\ nx1 \in [Node -> Node] /\ pv1 \in [Node -> Node]
       /\ Listed(nx1, pv1, o, B[o] \ {t})
       /\ Touched(next, prev, nx1, pv1, o, B[o])
  <2> DEFINE E == B[o]
  <2>1. Listed(next, prev, o, E) /\ Blocks(E, o) /\ t \in E
        /\ next \in [Node -> Node] /\ prev \in [Node -> Node]
    BY <1>2, <1>3, <1>8, <1>9 DEF ListsSound, Types
  <2>2. nx1 = RemoveChainNext(next, prev, t, End(t, o)) /\ pv1 = RemoveChainPrev(next, prev, t, End(t, o))
    OBVIOUS
  <2> HIDE DEF E, t, nx1, pv1, e, D, B2
  <2>3. /\ nx1 \in [Node -> Node] /\ pv1 \in [Node -> Node]
        /\ Listed(nx1, pv1, o, E \ {t})
        /\ Touched(next, prev, nx1, pv1, o, E)
    BY <1>3, <2>1, <2>2, RemoveBlock, SMTT(60)
  <2> QED  BY <2>3 DEF E
<1> HIDE DEF nx1, pv1, e
<1>15. /\ e \in Node /\ t \in Node
       /\ next' \in [Node -> Node] /\ next'[e] = t /\ \A x \in Node : x # e => next'[x] = nx1[x]
       /\ prev' \in [Node -> Node] /\ prev'[t] = e /\ \A x \in Node : x # t => prev'[x] = pv1[x]
  <2>1. e \in Node /\ t \in Node
    BY <1>7, <1>10 DEF Node
  <2> HIDE DEF t
  <2> QED  BY <1>11, <1>14, <2>1
<1>16. Listed(next', prev', o, B[o] \ {t})
  <2> DEFINE E == B[o] \ {t}
  <2>1. \A q \in E : q \in Node /\ End(q, o) \in Node /\ q # t /\ End(q, o) # e
    BY <1>9, <1>13 DEF Blocks, Inside, Node
  <2>2. Anchor(o) \in Node
    BY <1>3 DEF Node
  <2>3. Listed(nx1, pv1, o, E)
    BY <1>14
  <2> HIDE DEF E, t
  <2>4. /\ next'[Anchor(o)] = nx1[Anchor(o)] /\ prev'[Anchor(o)] = pv1[Anchor(o)]
        /\ \A q \in E : next'[End(q, o)] = nx1[End(q, o)] /\ prev'[q] = pv1[q]
    BY <1>13, <1>15, <2>1, <2>2
  <2>5. Listed(next', prev', o, E)
    BY <1>3, <2>3, <2>4, ListKept
  <2> QED  BY <2>5 DEF E
<1>17. Touched(next, prev, next', prev', o, D)
  <2>1. \A q \in B[o] : q \in D
    OBVIOUS
  <2>2. p \in D /\ t \in D /\ e = End(p, o)
    BY <1>8 DEF e
  <2> HIDE DEF D, t
  <2> QED  BY <1>14, <1>15, <2>1, <2>2 DEF Touched
<1>18. p # t
  BY <1>8, <1>12
<1> HIDE DEF t
<1>19. /\ order' \in [Page -> Int] /\ order'[p] = o + 1 /\ order'[t] = -1
       /\ \A x \in Page : x # p /\ x # t => order'[x] = order[x]
  <2>1. o \in Int
    BY <1>3 DEF Order
  <2>2. order \in [Page -> Int]
    BY <1>2 DEF Types
  <2> QED  BY <1>3, <1>7, <1>10, <1>11, <1>18, <2>1, <2>2
<1>20. Remarked(order, order', D) /\ Near(B, D, o, HandOf(call)) /\ Blocks(D, o)
  BY <1>7, <1>8, <1>9, <1>19 DEF Remarked, Near, Blocks
<1>21. \A q \in D : q = p \/ Clear(q, o, p, o)
  BY <1>12
<1> HIDE DEF D
<1>22. /\ \A i \in Order : i # o => Listed(next', prev', i, B[i])
       /\ \A i \in Order : \A q \in B[i] : Whole(next', prev', order', q, i)
       /\ HeldWhole(next', prev', order', held')
       /\ \A h \in Handle : held[h] # None => order'[held[h].pg] = order[held[h].pg]
  <2>1. Before(B, next, prev, order, HandOf(call), held) /\ held' = held
    BY <1>2, <1>11 DEF Types, Before
  <2>2. Changed(next, prev, order, next', prev', order', o, D)
    BY <1>17, <1>20 DEF Changed
  <2> QED  BY <1>3, <1>20, <2>1, <2>2, OthersKept
<1>23. Whole(next', prev', order', p, o + 1)
  <2>1. Whole(next', prev', order', p, o)
    BY <1>3, <1>17, <1>20, <1>21, WholeKept
  <2>2. Whole(next', prev', order', t, o)
    BY <1>3, <1>8, <1>22
  <2>3. next'[End(p, o)] = t /\ prev'[t] = End(p, o)
    BY <1>15 DEF e
  <2>4. order'[t] \notin Order
    BY <1>19, Sizes DEF Order
  <2> QED  BY <1>3, <1>5, <2>1, <2>2, <2>3, <2>4, WholeJoined DEF t
<1>24. Pages(p, o + 1) = Pages(p, o) \cup Pages(t, o)
  <2>1. Inside(p, o + 1)
    BY <1>23 DEF Whole
  <2> QED  BY <1>3, <1>5, <2>1, Halves DEF t
<1>25. call'.op = "put" /\ call'.pg = p /\ call'.at = o + 1
  BY <1>1, <1>2, <1>11 DEF Types, p
<1>26. HandOf(call') = Pages(p, o + 1)
  BY <1>25 DEF HandOf
<1>27. /\ B2 \in [Order -> SUBSET Page]
       /\ B2[o] = B[o] \ {t}
       /\ \A i \in Order : i # o => B2[i] = B[i]
       /\ Apart(B2, HandOf(call'), held')
       /\ FreeIn(B2, HandOf(call')) = FreeIn(B, HandOf(call))
  <2> DEFINE hand == HandOf(call)
  <2>1. B \in [Order -> SUBSET Page] /\ Apart(B, hand, held)
    BY <1>2 DEF ListsSound
  <2>2. hand \cup Pages(t, o) = HandOf(call')
    BY <1>6, <1>24, <1>26
  <2> HIDE DEF hand
  <2>3. /\ B2 \in [Order -> SUBSET Page]
        /\ B2[o] = B[o] \ {t}
        /\ \A i \in Order : i # o => B2[i] = B[i]
        /\ Apart(B2, hand \cup Pages(t, o), held)
        /\ FreeIn(B2, hand \cup Pages(t, o)) = FreeIn(B, hand)
    BY <1>3, <1>8, <2>1, ApartTake
  <2> HIDE DEF B2
  <2> QED  BY <1>11, <2>2, <2>3 DEF hand
<1> HIDE DEF B2
<1>28. Types(next', prev', busy', order', held', call')
  <2>1. o + 1 \in Int
    BY <1>5 DEF Order
  <2>2. call' \in [op : {"idle", "get", "put"}, h : Handle \cup {None}, pg : Int, at : Int, want : Int]
    BY <1>2, <1>11, <2>1 DEF Types
  <2> QED  BY <1>2, <1>11, <1>15, <1>19, <2>2 DEF Types
<1>29. ListsSound(B2, next', prev', order')
  BY <1>16, <1>22, <1>27 DEF ListsSound
<1>30. HeldMarked(busy', order', held')
  BY <1>2, <1>11, <1>22 DEF HeldMarked
<1>31. CallSound(next', prev', busy', order', held', call')
  BY <1>3, <1>5, <1>11, <1>19, <1>23, <1>25 DEF CallSound
<1>32. MarksSound(B2, busy', order', call')
  <2> SUFFICES ASSUME NEW i \in Order, NEW x \in Page \ HandOf(call'), ~busy[x], order'[x] = i
               PROVE  x \in B2[i]
    BY <1>11 DEF MarksSound
  <2>1. x # p /\ x # t /\ x \notin HandOf(call)
    <3>1. p \in Pages(p, o) /\ t \in Pages(t, o)
      BY <1>3, <1>7, <1>10, BlockPages
    <3> QED  BY <1>6, <1>24, <1>26, <3>1
  <2>2. x \in B[i]
    BY <1>2, <1>19, <2>1 DEF MarksSound
  <2> QED  BY <1>27, <2>1, <2>2
<1>33. Sound(B2, next', prev', busy', order', held', call')
  BY <1>22, <1>27, <1>28, <1>29, <1>30, <1>31, <1>32 DEF Sound
<1>34. PoolKept(B, B2, held, held', call, call')
  BY <1>11, <1>27 DEF PoolKept
<1> QED  BY <1>11, <1>33, <1>34 DEF Stepped

\* The block in hand goes to the front of its list (mem.c:183-184).
LEMMA PutDoneStep ==
  ASSUME NEW B, Sound(B, next, prev, busy, order, held, call), PutDone
  PROVE  Stepped(B) /\ UNCHANGED <<wild, breach, refused>>
<1> DEFINE p == call.pg
           o == call.at
           D == B[o] \cup {p}
           B2 == Give(B, o, p)
<1>1. /\ call.op = "put"
      /\ next' = AddChainNext(next, prev, p, End(p, o), Anchor(o))
      /\ prev' = AddChainPrev(next, prev, p, End(p, o), Anchor(o))
      /\ call' = Idle
      /\ UNCHANGED <<busy, order, held, refused, breach, wild>>
  BY DEF PutDone, Calling
<1>2. /\ Types(next, prev, busy, order, held, call)
      /\ ListsSound(B, next, prev, order)
      /\ Apart(B, HandOf(call), held)
      /\ HeldWhole(next, prev, order, held)
      /\ HeldMarked(busy, order, held)
      /\ CallSound(next, prev, busy, order, held, call)
      /\ MarksSound(B, busy, order, call)
  BY DEF Sound
<1>3. o \in Order /\ Whole(next, prev, order, p, o) /\ order[p] = o
  BY <1>1, <1>2 DEF CallSound
<1>4. HandOf(call) = Pages(p, o)
  BY <1>1 DEF HandOf
<1> HIDE DEF p, o
<1>5. Inside(p, o) /\ p \in Page
  BY <1>3 DEF Whole, Inside
<1>6. Blocks(B[o], o)
  BY <1>2, <1>3 DEF ListsSound, Whole, Blocks
<1>7. Pages(p, o) \subseteq HandOf(call)
  BY <1>4
<1>8. \A q \in B[o] : Clear(q, o, p, o) /\ q # p
  BY <1>2, <1>3, <1>5, <1>6, <1>7, HandClear DEF Blocks
<1>9. /\ next' \in [Node -> Node] /\ prev' \in [Node -> Node]
      /\ Listed(next', prev', o, B[o] \cup {p})
      /\ Touched(next, prev, next', prev', o, D)
  <2> DEFINE E == B[o]
  <2>1. Listed(next, prev, o, E) /\ Blocks(E, o) /\ p \notin E
        /\ next \in [Node -> Node] /\ prev \in [Node -> Node]
    BY <1>2, <1>3, <1>6, <1>8 DEF ListsSound, Types
  <2> HIDE DEF E
  <2>2. /\ next' \in [Node -> Node] /\ prev' \in [Node -> Node]
        /\ Listed(next', prev', o, E \cup {p})
        /\ Touched(next, prev, next', prev', o, E \cup {p})
    BY <1>1, <1>3, <1>5, <2>1, AddBlock
  <2> QED  BY <2>2 DEF E
<1>10. Remarked(order, order', D) /\ Near(B, D, o, HandOf(call)) /\ Blocks(D, o)
  BY <1>1, <1>5, <1>6, <1>7 DEF Remarked, Near, Blocks
<1>11. \A q \in D : q = p \/ Clear(q, o, p, o)
  BY <1>8
<1> HIDE DEF D
<1>12. /\ \A i \in Order : i # o => Listed(next', prev', i, B[i])
       /\ \A i \in Order : \A q \in B[i] : Whole(next', prev', order', q, i)
       /\ HeldWhole(next', prev', order', held')
  <2>1. Before(B, next, prev, order, HandOf(call), held) /\ held' = held
    BY <1>1, <1>2 DEF Types, Before
  <2>2. Changed(next, prev, order, next', prev', order', o, D)
    BY <1>9, <1>10 DEF Changed
  <2> QED  BY <1>3, <1>10, <2>1, <2>2, OthersKept
<1>13. Whole(next', prev', order', p, o)
  BY <1>3, <1>9, <1>10, <1>11, WholeKept
<1>14. call'.op = "idle" /\ HandOf(call') = {}
  BY <1>1 DEF HandOf, Idle
<1>15. /\ B2 \in [Order -> SUBSET Page]
       /\ B2[o] = B[o] \cup {p}
       /\ \A i \in Order : i # o => B2[i] = B[i]
       /\ Apart(B2, HandOf(call'), held')
       /\ FreeIn(B2, HandOf(call')) = FreeIn(B, HandOf(call))
  <2> DEFINE hand == HandOf(call)
  <2>1. B \in [Order -> SUBSET Page] /\ Apart(B, hand, held) /\ Pages(p, o) \subseteq hand
    BY <1>2, <1>7 DEF ListsSound
  <2>2. hand \ Pages(p, o) = HandOf(call')
    BY <1>4, <1>14
  <2> HIDE DEF hand
  <2>3. /\ B2 \in [Order -> SUBSET Page]
        /\ B2[o] = B[o] \cup {p}
        /\ \A i \in Order : i # o => B2[i] = B[i]
        /\ Apart(B2, hand \ Pages(p, o), held)
        /\ FreeIn(B2, hand \ Pages(p, o)) = FreeIn(B, hand)
    BY <1>3, <1>5, <2>1, ApartGive
  <2> HIDE DEF B2
  <2> QED  BY <1>1, <2>2, <2>3 DEF hand
<1> HIDE DEF B2
<1>16. Types(next', prev', busy', order', held', call')
  <2>1. call' \in [op : {"idle", "get", "put"}, h : Handle \cup {None}, pg : Int, at : Int, want : Int]
    BY <1>1 DEF Idle
  <2> QED  BY <1>1, <1>2, <1>9, <2>1 DEF Types
<1>17. ListsSound(B2, next', prev', order')
  BY <1>9, <1>12, <1>13, <1>15 DEF ListsSound
<1>18. HeldMarked(busy', order', held')
  BY <1>1, <1>2
<1>19. CallSound(next', prev', busy', order', held', call')
  BY <1>14 DEF CallSound
<1>20. MarksSound(B2, busy', order', call')
  <2> SUFFICES ASSUME NEW i \in Order, NEW x \in Page, ~busy[x], order[x] = i
               PROVE  x \in B2[i]
    BY <1>1 DEF MarksSound
  <2>1. CASE x \in Pages(p, o)
    <3>1. x = p \/ x \in p + 1 .. End(p, o)
      BY <1>3, <1>5, <2>1, BlockPages
    <3>2. x \notin p + 1 .. End(p, o)
      BY <1>3 DEF Whole
    <3> QED  BY <1>3, <1>15, <3>1, <3>2
  <2>2. CASE x \notin Pages(p, o)
    <3>1. x \in B[i]
      BY <1>2, <1>4, <2>2 DEF MarksSound
    <3> QED  BY <1>15, <3>1
  <2> QED  BY <2>1, <2>2
<1>21. Sound(B2, next', prev', busy', order', held', call')
  BY <1>12, <1>15, <1>16, <1>17, <1>18, <1>19, <1>20 DEF Sound
<1>22. PoolKept(B, B2, held, held', call, call')
  BY <1>1, <1>15 DEF PoolKept
<1> QED  BY <1>1, <1>21, <1>22 DEF Stepped

\* As long as put_pages_to_list does not go wrong, every step keeps the heap sound,
\* uses no memory outside it, refuses nothing and does what PagePool says.
LEMMA BuddyStep ==
  ASSUME BuddyInv, [Next]_vars, breach' = {}
  PROVE  /\ breach = {} /\ ~wild' /\ ~refused'
         /\ \A B : Sound(B, next, prev, busy, order, held, call) => Stepped(B)
<1>1. breach = {}
  <2>1. CASE UNCHANGED vars
    BY <2>1 DEF vars
  <2>2. CASE \E h \in Handle, o \in Order : GetFind(h, o)
    BY <2>2 DEF GetFind
  <2>3. CASE \E h \in Handle : PutStart(h)
    BY <2>3 DEF PutStart
  <2>4. CASE MergeNext \/ MergePrev
    BY <2>4 DEF MergeNext, MergePrev
  <2>5. CASE Split \/ GetDone \/ PutDone \/ PutTop \/ PutOutside \/ Wild
    BY <2>5 DEF Split, GetDone, PutDone, PutTop, PutOutside, Wild, vars
  <2> QED  BY <2>1, <2>2, <2>3, <2>4, <2>5 DEF Next, Get, Put
<1>2. /\ ~wild /\ ~refused
      /\ \E B : Sound(B, next, prev, busy, order, held, call)
  BY <1>1 DEF BuddyInv
<1>3. ASSUME NEW B, Sound(B, next, prev, busy, order, held, call)
      PROVE  Stepped(B) /\ ~wild' /\ ~refused'
  <2>1. CASE UNCHANGED vars
    <3>1. UNCHANGED <<next, prev, busy, order, held, call, refused, wild>>
      BY <2>1 DEF vars
    <3>2. Sound(B, next', prev', busy', order', held', call')
      BY <1>3, <3>1
    <3>3. PoolKept(B, B, held, held', call, call')
      BY <3>1 DEF PoolKept
    <3> QED  BY <1>2, <3>1, <3>2, <3>3 DEF Stepped
  <2>2. CASE \E h \in Handle, o \in Order : GetFind(h, o)
    BY <1>2, <1>3, <2>2, GetFindStep
  <2>3. CASE Split
    BY <1>2, <1>3, <2>3, SplitStep
  <2>4. CASE GetDone
    BY <1>2, <1>3, <2>4, GetDoneStep
  <2>5. CASE \E h \in Handle : PutStart(h)
    BY <1>2, <1>3, <2>5, PutStartStep
  <2>6. CASE MergeNext
    BY <1>2, <1>3, <2>6, MergeNextStep
  <2>7. CASE MergePrev
    BY <2>7 DEF MergePrev
  <2>8. CASE PutDone
    BY <1>2, <1>3, <2>8, PutDoneStep
  <2>9. CASE PutTop
    <3>1. call.op = "put" /\ call.at > MaxOrder
      BY <2>9 DEF PutTop, Calling
    <3>2. call.at \in Order
      BY <1>3, <3>1 DEF Sound, CallSound
    <3> QED  BY <3>1, <3>2, Sizes DEF Order
  <2>10. CASE PutOutside
    BY <2>10 DEF PutOutside
  <2>11. CASE Wild
    BY <1>2, <2>11 DEF Wild
  <2> QED  BY <2>1, <2>2, <2>3, <2>4, <2>5, <2>6, <2>7, <2>8, <2>9, <2>10, <2>11 DEF Next, Get, Put
<1> QED  BY <1>1, <1>2, <1>3

\* So BuddyInv stays.
LEMMA BuddyKeeps ==
  ASSUME BuddyInv, [Next]_vars
  PROVE  BuddyInv'
<1> SUFFICES ASSUME breach' = {}
             PROVE  /\ ~wild' /\ ~refused'
                    /\ \E B : Sound(B, next', prev', busy', order', held', call')
  BY DEF BuddyInv
<1>1. /\ breach = {} /\ ~wild' /\ ~refused'
      /\ \A B : Sound(B, next, prev, busy, order, held, call) => Stepped(B)
  BY BuddyStep
<1>2. PICK B : Sound(B, next, prev, busy, order, held, call)
  BY <1>1 DEF BuddyInv
<1>3. Stepped(B)
  BY <1>1, <1>2
<1> QED  BY <1>1, <1>3 DEF Stepped

-----------------------------------------------------------------------------
(* Walking along a list                                                    *)

\* The r-th page of the k-th block comes at this place of the walk, the first at 0.
Place(o, k, r) == (k - 1) * Size(o) + r

\* What the whole number of times tells.
LEMMA Divided ==
  ASSUME NEW a \in Nat, NEW b \in Nat \ {0}
  PROVE  /\ a \div b \in Nat
         /\ (a \div b) * b <= a
         /\ a < (a \div b) * b + b
  BY SMT

\* What is known of products
LEMMA Times ==
  /\ \A i, j, n \in Nat : i < j => i * n + n <= j * n
  /\ \A i, n \in Nat : i * n \in Nat
  /\ \A i, n \in Nat : (i + 1) * n = i * n + n
  BY SMT

\* The remainder
LEMMA Rest ==
  ASSUME NEW a \in Nat, NEW b \in Nat \ {0}, NEW r \in 0 .. b - 1
  PROVE  (a * b + r) % b = r
<1>1. a * b + r \in Nat
  BY SMT
<1>2. (a * b + r) \div b = a
  BY SMT
<1>3. (a * b + r) % b = (a * b + r) - b * a
  BY <1>1, <1>2, SMT
<1> QED  BY <1>3, SMT

Placed(o, m, k, r) ==
    /\ Place(o, k, r) \in 0 .. m * Size(o) - 1
    /\ Place(o, k, r) % Size(o) = r
    /\ Place(o, k, r) = Place(o, k, 0) + r
    /\ r > 0 => Place(o, k, r - 1) = Place(o, k, r) - 1

\* The places of a row of m blocks are 0 .. m * 2^o - 1.
LEMMA Places ==
  ASSUME NEW o \in Order, NEW m \in Nat
  PROVE  /\ m * Size(o) \in Nat /\ (m * Size(o)) % Size(o) = 0
         /\ \A k \in 1 .. m : \A r \in 0 .. Size(o) - 1 : Placed(o, m, k, r)
         /\ \A k \in 1 .. m : k > 1 => Place(o, k - 1, Size(o) - 1) = Place(o, k, 0) - 1
         /\ Place(o, 1, 0) = 0
         /\ \A n \in 0 .. m * Size(o) - 1 :
               \E k \in 1 .. m : \E r \in 0 .. Size(o) - 1 : n = Place(o, k, r)
         /\ \A k, l \in 1 .. m : Place(o, k, 0) = Place(o, l, 0) => k = l
<1> DEFINE z == Size(o)  t == m * z
<1>1. z \in Nat \ {0}
  BY Sizes
<1> HIDE DEF z
<1>2. t \in Nat
  BY <1>1, Times
<1>3. t % z = 0
  <2>1. 0 \in 0 .. z - 1
    BY <1>1
  <2>2. (m * z + 0) % z = 0
    BY <1>1, <2>1, Rest
  <2>3. m * z + 0 = m * z
    BY <1>2
  <2> QED  BY <2>2, <2>3
<1>4. ASSUME NEW k \in 1 .. m, NEW r \in 0 .. z - 1
      PROVE  /\ (k - 1) * z + r \in 0 .. t - 1
             /\ ((k - 1) * z + r) % z = r
             /\ (k - 1) * z + (r - 1) = ((k - 1) * z + r) - 1
             /\ (k - 1) * z + r = ((k - 1) * z + 0) + r
  <2> DEFINE i == k - 1  b == i * z
  <2>1. i \in Nat /\ i < m
    OBVIOUS
  <2> HIDE DEF i
  <2>2. b \in Nat /\ b + z <= t /\ (b + r) % z = r
    BY <1>1, <2>1, Times, Rest
  <2> HIDE DEF b, t
  <2>3. b + r \in 0 .. t - 1 /\ (b + r) % z = r /\ b + (r - 1) = (b + r) - 1 /\ b + r = (b + 0) + r
    BY <1>1, <1>2, <2>2
  <2> QED  BY <2>3 DEF b, i
<1>5. ASSUME NEW k \in 1 .. m, k > 1
      PROVE  ((k - 1) - 1) * z + (z - 1) = ((k - 1) * z + 0) - 1
  <2> DEFINE i == (k - 1) - 1  b == i * z  c == (k - 1) * z
  <2>1. i \in Nat /\ i + 1 = k - 1
    BY <1>5
  <2>2. c = (i + 1) * z
    BY <2>1
  <2> HIDE DEF i, c
  <2>3. b \in Nat /\ c = b + z
    BY <1>1, <2>1, <2>2, Times
  <2> HIDE DEF b
  <2>4. b + (z - 1) = (c + 0) - 1
    BY <1>1, <2>3
  <2> QED  BY <2>4 DEF b, c, i
<1>6. ASSUME NEW n \in 0 .. t - 1
      PROVE  \E k \in 1 .. m : \E r \in 0 .. z - 1 : n = (k - 1) * z + r
  <2> DEFINE i == n \div z  b == i * z
  <2>1. n \in Nat
    BY <1>2
  <2>2. i \in Nat /\ b <= n /\ n < b + z
    BY <1>1, <2>1, Divided
  <2> HIDE DEF i
  <2>3. b \in Nat /\ (m <= i => t <= b)
    <3>1. m < i => t + z <= b
      BY <1>1, <2>2, Times
    <3>2. m = i => t = b
      OBVIOUS
    <3>3. b \in Nat
      BY <1>1, <2>2, Times
    <3> HIDE DEF b, t
    <3> QED  BY <1>1, <1>2, <2>2, <3>1, <3>2, <3>3
  <2> DEFINE k == i + 1  r == n - b
  <2>4. k \in 1 .. m
    <3> HIDE DEF b, t
    <3> QED  BY <1>2, <2>1, <2>2, <2>3
  <2>5. r \in 0 .. z - 1 /\ n = b + r
    <3> HIDE DEF b, t
    <3> QED  BY <1>1, <2>1, <2>2, <2>3
  <2>6. k - 1 = i
    BY <2>2
  <2>7. n = (k - 1) * z + r
    <3> HIDE DEF k, r
    <3> QED  BY <2>5, <2>6
  <2> HIDE DEF k, r
  <2> QED  BY <2>4, <2>5, <2>7
<1>7. ASSUME NEW k \in 1 .. m, NEW l \in 1 .. m, (k - 1) * z + 0 = (l - 1) * z + 0
      PROVE  k = l
  <2> DEFINE i == k - 1  j == l - 1  b == i * z  c == j * z
  <2>1. i \in Nat /\ j \in Nat /\ (i = j => k = l)
    OBVIOUS
  <2> HIDE DEF i, j
  <2>2. b \in Nat /\ c \in Nat /\ (i < j => b + z <= c) /\ (j < i => c + z <= b)
    BY <1>1, <2>1, Times
  <2>3. b + 0 = c + 0
    BY <1>7 DEF i, j
  <2> HIDE DEF b, c
  <2>4. i = j
    BY <1>1, <2>1, <2>2, <2>3
  <2> QED  BY <2>1, <2>4
<1>8. (1 - 1) * z + 0 = 0
  BY <1>1
<1> QED  BY <1>2, <1>3, <1>4, <1>5, <1>6, <1>7, <1>8 DEF Place, Placed, z

\* The pages of the blocks of a list; the blocks have none in common.
Area(D, o) == UNION {Pages(p, o) : p \in D}
Disjoint(D, o) == \A p, q \in D : p = q \/ Clear(p, o, q, o)

\* They are as many as the row has places.
LEMMA RowCount ==
  ASSUME NEW o \in Order, NEW D, Blocks(D, o), Disjoint(D, o),
         NEW m \in Nat, NEW s, Row(s, m, D)
  PROVE  /\ Area(D, o) \subseteq Page
         /\ Cardinality(Area(D, o)) = m * Size(o)
         /\ m * Size(o) <= NPages
<1> DEFINE t == m * Size(o)  A == Area(D, o)  z == Size(o)
           Here(n, x) == \E k \in 1 .. m : \E r \in 0 .. z - 1 : n = Place(o, k, r) /\ x = s[k] + r
           f == [n \in 0 .. t - 1 |-> CHOOSE x : Here(n, x)]
<1>1. z \in Nat \ {0} /\ NPages \in Nat /\ t \in Nat
  BY Sizes, Places
<1>2. \A x : x \in A <=> \E p \in D : x \in Pages(p, o)
  BY DEF Area
<1>3. \A p \in D : p \in Page /\ Inside(p, o) /\ Pages(p, o) \subseteq Page
  BY BlockPages DEF Blocks, Inside
<1>4. \A k \in 1 .. m : s[k] \in D /\ s[k] \in Int
  BY <1>3 DEF Row, Page
<1>5. ASSUME NEW k \in 1 .. m, NEW r \in 0 .. z - 1 PROVE s[k] + r \in Pages(s[k], o)
  BY <1>1, <1>4 DEF Pages, End, z
<1>6. ASSUME NEW k \in 1 .. m, NEW x \in Pages(s[k], o) PROVE \E r \in 0 .. z - 1 : x = s[k] + r
  <2>1. x - s[k] \in 0 .. z - 1 /\ x = s[k] + (x - s[k])
    BY <1>1, <1>4 DEF Pages, End, z
  <2> QED  BY <2>1
<1>7. A \subseteq Page
  BY <1>2, <1>3
<1>8. ASSUME NEW k \in 1 .. m, NEW r \in 0 .. z - 1
       PROVE  /\ Place(o, k, r) \in 0 .. t - 1
              /\ Place(o, k, r) % z = r
              /\ Place(o, k, r) = Place(o, k, 0) + r
  <2>1. Placed(o, m, k, r)
    BY Places
  <2> QED  BY <2>1 DEF Placed
<1>9. ASSUME NEW n \in 0 .. t - 1
       PROVE  \E k \in 1 .. m : \E r \in 0 .. z - 1 : n = Place(o, k, r)
  BY Places
<1>10. ASSUME NEW k \in 1 .. m, NEW l \in 1 .. m, Place(o, k, 0) = Place(o, l, 0)
       PROVE  k = l
  BY <1>10, Places
<1> HIDE DEF A, t, z
<1>11. ASSUME NEW k \in 1 .. m, NEW l \in 1 .. m, NEW r \in 0 .. z - 1, NEW u \in 0 .. z - 1,
             s[k] + r = s[l] + u
      PROVE  k = l /\ r = u
  <2>1. s[k] + r \in Pages(s[k], o) /\ s[k] + r \in Pages(s[l], o)
    BY <1>5, <1>11
  <2>2. s[k] = s[l]
    BY <1>4, <2>1 DEF Disjoint, Clear
  <2>3. k = l
    BY <2>2 DEF Row
  <2>4. r = u
    BY <1>1, <1>4, <1>11, <2>2
  <2> QED  BY <2>3, <2>4
<1>12. ASSUME NEW k \in 1 .. m, NEW l \in 1 .. m, NEW r \in 0 .. z - 1, NEW u \in 0 .. z - 1,
             Place(o, k, r) = Place(o, l, u)
      PROVE  k = l /\ r = u
  <2>1. Place(o, k, r) % z = r /\ Place(o, l, u) % z = u
    BY <1>8
  <2>2. r = u
    BY <1>12, <2>1
  <2>3. Place(o, k, r) = Place(o, k, 0) + r /\ Place(o, l, u) = Place(o, l, 0) + u
    BY <1>8
  <2> HIDE DEF Here, f
  <2>4. 0 \in 0 .. z - 1
    BY <1>1
  <2>5. Place(o, k, 0) \in 0 .. t - 1 /\ Place(o, l, 0) \in 0 .. t - 1
    BY <2>4, <1>8
  <2>6. Place(o, k, 0) = Place(o, l, 0)
    BY <1>1, <1>12, <2>2, <2>3, <2>5
  <2> QED  BY <2>2, <2>6, <1>10
<1>13. ASSUME NEW n \in 0 .. t - 1 PROVE Here(n, f[n])
  <2>1. \E x : Here(n, x)
    <3>1. PICK k \in 1 .. m, r \in 0 .. z - 1 : n = Place(o, k, r)
      BY <1>9
    <3>2. Here(n, s[k] + r)
      BY <3>1
    <3> HIDE DEF Here
    <3> QED  BY <3>2
  <2> HIDE DEF Here
  <2> QED  BY <2>1
<1>14. DOMAIN f = 0 .. t - 1 /\ f = [n \in 0 .. t - 1 |-> f[n]]
  OBVIOUS
<1> HIDE DEF f
<1>15. f \in Bijection(0 .. t - 1, A)
  <2>1. \A n \in 0 .. t - 1 : f[n] \in A
    BY <1>2, <1>4, <1>5, <1>13
  <2>2. ASSUME NEW n \in 0 .. t - 1, NEW i \in 0 .. t - 1, f[n] = f[i] PROVE n = i
    <3>1. PICK k \in 1 .. m, r \in 0 .. z - 1 : n = Place(o, k, r) /\ f[n] = s[k] + r
      BY <1>13
    <3>2. PICK l \in 1 .. m, u \in 0 .. z - 1 : i = Place(o, l, u) /\ f[i] = s[l] + u
      BY <1>13
    <3> QED  BY <1>11, <2>2, <3>1, <3>2
  <2>3. ASSUME NEW x \in A PROVE \E n \in 0 .. t - 1 : f[n] = x
    <3>1. PICK p \in D : x \in Pages(p, o)
      BY <1>2
    <3>2. PICK k \in 1 .. m : s[k] = p
      BY DEF Row
    <3>3. PICK r \in 0 .. z - 1 : x = s[k] + r
      BY <1>6, <3>1, <3>2
    <3>4. Place(o, k, r) \in 0 .. t - 1
      BY <1>8
    <3>5. PICK l \in 1 .. m, u \in 0 .. z - 1 : Place(o, k, r) = Place(o, l, u) /\ f[Place(o, k, r)] = s[l] + u
      BY <1>13, <3>4
    <3>6. k = l /\ r = u
      BY <1>12, <3>5
    <3> QED  BY <3>3, <3>4, <3>5, <3>6
  <2>4. f \in [0 .. t - 1 -> A]
    BY <1>14, <2>1
  <2> QED  BY <2>2, <2>3, <2>4 DEF Bijection, Injection, Surjection, IsInjective
<1>16. IsFiniteSet(0 .. t - 1) /\ Cardinality(0 .. t - 1) = t
  <2>1. /\ IsFiniteSet(0 .. t - 1)
        /\ Cardinality(0 .. t - 1) = IF 0 > t - 1 THEN 0 ELSE (t - 1) - 0 + 1
    BY <1>1, FS_Interval
  <2> QED  BY <1>1, <2>1
<1>17. Cardinality(A) = t
  <2>1. ExistsBijection(0 .. t - 1, A)
    BY <1>15 DEF ExistsBijection
  <2> QED  BY <1>16, <2>1, FS_Bijection
<1>18. IsFiniteSet(Page) /\ Cardinality(Page) = NPages
  <2>1. /\ IsFiniteSet(0 .. NPages - 1)
        /\ Cardinality(0 .. NPages - 1) = IF 0 > NPages - 1 THEN 0 ELSE (NPages - 1) - 0 + 1
    BY <1>1, FS_Interval
  <2> QED  BY <1>1, <2>1 DEF Page
<1>19. t <= NPages
  BY <1>7, <1>17, <1>18, FS_Subset
<1> QED  BY <1>7, <1>17, <1>19 DEF A, t, z

\* The walk of Walk, along any links
WalkIn(nx, o) ==
    LET at[n \in 0 .. NPages + 1] == IF n = 0 THEN Anchor(o) ELSE nx[at[n - 1]]
    IN  at
OnListIn(nx, o) == LET at == WalkIn(nx, o) IN {at[n] : n \in DOMAIN at} \ {Anchor(o)}

\* The function that Walk describes exists, so it is what Walk says.
LEMMA Walks ==
  ASSUME NEW nx, NEW o \in Order
  PROVE  /\ DOMAIN WalkIn(nx, o) = 0 .. NPages + 1
         /\ WalkIn(nx, o)[0] = Anchor(o)
         /\ \A n \in 1 .. NPages + 1 : WalkIn(nx, o)[n] = nx[WalkIn(nx, o)[n - 1]]
<1> DEFINE Good(f, k) == f = [n \in 0 .. k |-> IF n = 0 THEN Anchor(o) ELSE nx[f[n - 1]]]
           S == {k \in Nat : ~ \E f : Good(f, k)}
<1>1. NPages \in Nat
  BY Sizes
<1>2. S = {}
  <2> SUFFICES ASSUME S # {} PROVE FALSE
    OBVIOUS
  <2>1. PICK k \in S : \A j \in S : k <= j
    BY Smallest
  <2>2. k # 0
    <3> DEFINE f == [n \in 0 .. 0 |-> Anchor(o)]
    <3>1. \A n : n \in 0 .. 0 <=> n = 0
      OBVIOUS
    <3>2. Good(f, 0)
      BY <3>1
    <3> HIDE DEF f, Good
    <3> QED  BY <3>2
  <2>3. k \in Nat /\ k - 1 \in Nat /\ k - 1 \notin S
    <3>1. k \in Nat
      OBVIOUS
    <3> HIDE DEF S
    <3> QED  BY <2>1, <2>2, <3>1
  <2>4. PICK f : Good(f, k - 1)
    BY <2>3
  <2> DEFINE g == [n \in 0 .. k |-> IF n = k THEN nx[f[k - 1]] ELSE f[n]]
  <2>5. \A n \in 0 .. k - 1 : f[n] = IF n = 0 THEN Anchor(o) ELSE nx[f[n - 1]]
    BY <2>4
  <2>6. /\ \A n \in 0 .. k : n # k => n \in 0 .. k - 1
        /\ \A n \in 0 .. k : n # 0 => n - 1 \in 0 .. k /\ n - 1 # k
    BY <2>3
  <2>7. /\ \A n \in 0 .. k : n # k => g[n] = f[n]
        /\ k \in 0 .. k /\ g[k] = nx[f[k - 1]]
        /\ g = [n \in 0 .. k |-> g[n]]
    BY <2>3
  <2> HIDE DEF g
  <2>8. ASSUME NEW n \in 0 .. k PROVE g[n] = IF n = 0 THEN Anchor(o) ELSE nx[g[n - 1]]
    <3>1. n # 0 => g[n - 1] = f[n - 1]
      BY <2>6, <2>7
    <3> QED  BY <2>2, <2>5, <2>6, <2>7, <3>1
  <2>9. Good(g, k)
    BY <2>7, <2>8
  <2> HIDE DEF Good
  <2> QED  BY <2>1, <2>9
<1>3. \E f : Good(f, NPages + 1)
  <2> HIDE DEF Good
  <2> QED  BY <1>1, <1>2
<1>4. WalkIn(nx, o) = CHOOSE f : Good(f, NPages + 1)
  BY DEF WalkIn
<1>5. Good(WalkIn(nx, o), NPages + 1)
  <2> HIDE DEF Good
  <2> QED  BY <1>3, <1>4
<1> DEFINE w == WalkIn(nx, o)
<1>6. w = [n \in 0 .. NPages + 1 |-> IF n = 0 THEN Anchor(o) ELSE nx[w[n - 1]]]
  BY <1>5
<1> HIDE DEF w
<1>7. /\ DOMAIN w = 0 .. NPages + 1 /\ w[0] = Anchor(o)
      /\ \A n \in 1 .. NPages + 1 : w[n] = nx[w[n - 1]]
  <2>1. 0 \in 0 .. NPages + 1 /\ \A n \in 1 .. NPages + 1 : n \in 0 .. NPages + 1 /\ n # 0
    BY <1>1
  <2> QED  BY <1>6, <2>1
<1> QED  BY <1>7 DEF w

\* The pages of each block are linked one after the other.
Strung(nx, pv, D, o) ==
    \A p \in D : \A x \in p + 1 .. End(p, o) : nx[x - 1] = x /\ pv[x] = x - 1

\* The walk comes to the pages of the row in their order.
LEMMA WalkAlong ==
  ASSUME NEW o \in Order, NEW D, Blocks(D, o), NEW nx, NEW pv, Strung(nx, pv, D, o),
         NEW m, NEW s, RowIn(nx, pv, o, D, s, m), m * Size(o) <= NPages
  PROVE  \A k \in 1 .. m : \A r \in 0 .. Size(o) - 1 : WalkIn(nx, o)[Place(o, k, r) + 1] = s[k] + r
<1> DEFINE at == WalkIn(nx, o)  z == Size(o)
           Bad == {n \in Nat : \E k \in 1 .. m : \E r \in 0 .. z - 1 :
                                   n = Place(o, k, r) /\ at[n + 1] # s[k] + r}
<1>1. m \in Nat /\ z \in Nat \ {0} /\ NPages \in Nat
  BY Sizes DEF RowIn
<1>2. m * z \in Nat
  BY <1>1, Places
<1>3. ASSUME NEW k \in 1 .. m, NEW r \in 0 .. z - 1
      PROVE  Placed(o, m, k, r)
  BY <1>1, Places
<1>4. \A n \in 0 .. NPages : at[n + 1] = nx[at[n]]
  <2>1. \A n \in 0 .. NPages : n + 1 \in 1 .. NPages + 1 /\ (n + 1) - 1 = n
    BY <1>1
  <2>2. \A n \in 1 .. NPages + 1 : at[n] = nx[at[n - 1]]
    BY Walks
  <2> HIDE DEF at
  <2> QED  BY <2>1, <2>2
<1>5. at[0] = Anchor(o)
  BY Walks
<1>6. \A k \in 1 .. m : s[k] \in D /\ s[k] \in Int
  BY DEF RowIn, Row, Blocks, Inside, Page
<1>7. \A k \in 1 .. m : k > 1 => Place(o, k - 1, z - 1) = Place(o, k, 0) - 1
  BY <1>1, Places
<1>8. Place(o, 1, 0) = 0
  BY <1>1, Places
<1>9. Bad = {}
  <2> SUFFICES ASSUME Bad # {} PROVE FALSE
    OBVIOUS
  <2> HIDE DEF at
  <2>1. PICK n \in Bad : \A j \in Bad : n <= j
    BY Smallest
  <2>2. PICK k \in 1 .. m, r \in 0 .. z - 1 : n = Place(o, k, r) /\ at[n + 1] # s[k] + r
    BY <2>1
  <2>3. n \in Nat /\ n \in 0 .. NPages /\ (r > 0 => Place(o, k, r - 1) = n - 1)
    <3>1. n \in 0 .. m * z - 1 /\ (r > 0 => Place(o, k, r - 1) = n - 1)
      BY <1>3, <2>2 DEF Placed
    <3> DEFINE t == m * z
    <3>2. t <= NPages /\ t \in Nat /\ n \in 0 .. t - 1
      BY <1>2, <3>1
    <3> HIDE DEF t
    <3> QED  BY <1>1, <3>1, <3>2
  <2>4. at[n + 1] = nx[at[n]]
    BY <1>4, <2>3
  <2>5. ASSUME NEW l \in 1 .. m, NEW u \in 0 .. z - 1, Place(o, l, u) = n - 1
        PROVE  at[n] = s[l] + u
    <3>1. n - 1 \in Nat
      <4>1. Place(o, l, u) \in 0 .. m * z - 1
        BY <1>3 DEF Placed
      <4> DEFINE t == m * z
      <4>2. n - 1 \in 0 .. t - 1 /\ t \in Nat
        BY <1>2, <2>5, <4>1
      <4> HIDE DEF t
      <4> QED  BY <4>2
    <3>2. n - 1 \notin Bad
      <4>1. ~(n <= n - 1)
        BY <2>3
      <4> HIDE DEF Bad
      <4> QED  BY <2>1, <4>1
    <3>3. (n - 1) + 1 = n
      BY <2>3
    <3> QED  BY <2>5, <3>1, <3>2, <3>3
  <2>6. CASE r > 0
    <3>1. r - 1 \in 0 .. z - 1
      BY <1>1, <2>6
    <3>2. at[n] = s[k] + (r - 1)
      BY <2>3, <2>5, <2>6, <3>1
    <3>3. s[k] + r \in s[k] + 1 .. End(s[k], o) /\ (s[k] + r) - 1 = s[k] + (r - 1)
      BY <1>1, <1>6, <2>6 DEF End
    <3>4. nx[s[k] + (r - 1)] = s[k] + r
      BY <1>6, <3>3 DEF Strung
    <3> QED  BY <2>2, <2>4, <3>2, <3>4
  <2>7. CASE r = 0 /\ k = 1
    <3>1. n = 0
      BY <1>8, <2>2, <2>7
    <3>2. nx[Hi(s, m, o, 0)] = Lo(s, m, o, 0 + 1)
      BY <1>1 DEF RowIn, Linked
    <3>3. Hi(s, m, o, 0) = Anchor(o) /\ Lo(s, m, o, 0 + 1) = s[1]
      BY <2>7 DEF Hi, Lo
    <3>4. s[1] + 0 = s[1] /\ s[k] = s[1]
      BY <1>6, <2>7
    <3> QED  BY <1>5, <2>2, <2>4, <2>7, <3>1, <3>2, <3>3, <3>4
  <2>8. CASE r = 0 /\ k > 1
    <3>1. k - 1 \in 1 .. m /\ k - 1 \in 0 .. m /\ (k - 1) + 1 = k /\ z - 1 \in 0 .. z - 1
      BY <1>1, <2>8
    <3>2. Place(o, k - 1, z - 1) = n - 1
      BY <1>7, <2>2, <2>8
    <3>3. at[n] = s[k - 1] + (z - 1)
      BY <2>5, <3>1, <3>2
    <3>4. s[k - 1] + (z - 1) = End(s[k - 1], o)
      BY <1>1, <1>6, <3>1 DEF End
    <3>5. nx[Hi(s, m, o, k - 1)] = Lo(s, m, o, (k - 1) + 1)
      BY <3>1 DEF RowIn, Linked
    <3>6. Hi(s, m, o, k - 1) = End(s[k - 1], o) /\ Lo(s, m, o, (k - 1) + 1) = s[k]
      BY <3>1 DEF Hi, Lo
    <3>7. s[k] + 0 = s[k]
      BY <1>6
    <3> QED  BY <2>2, <2>4, <2>8, <3>3, <3>4, <3>5, <3>6, <3>7
  <2>9. r > 0 \/ r = 0
    BY <1>1
  <2>10. k = 1 \/ k > 1
    OBVIOUS
  <2> QED  BY <2>6, <2>7, <2>8, <2>9, <2>10
<1> HIDE DEF at
<1>10. ASSUME NEW k \in 1 .. m, NEW r \in 0 .. z - 1 PROVE at[Place(o, k, r) + 1] = s[k] + r
  <2>1. Place(o, k, r) \in Nat
    <3>1. Place(o, k, r) \in 0 .. m * z - 1
      BY <1>3 DEF Placed
    <3> DEFINE t == m * z
    <3>2. Place(o, k, r) \in 0 .. t - 1 /\ t \in Nat
      BY <1>2, <3>1
    <3> HIDE DEF t
    <3> QED  BY <3>2
  <2> QED  BY <1>9, <2>1
<1> QED  BY <1>10 DEF at

\* What ListsOfBlocks and MarksTrue say of one list.
Walked(nx, pv, o, D) ==
    LET at == WalkIn(nx, o)
        on == OnListIn(nx, o)
    IN  /\ on = Area(D, o) /\ on \subseteq Page
        /\ WellLinked(nx, pv, on \cup {Anchor(o)})
        /\ Cardinality(on) % Size(o) = 0
        /\ \A n \in 1 .. Cardinality(on) : (n - 1) % Size(o) # 0 => at[n] = at[n - 1] + 1
        /\ \A p \in D : \E n \in 1 .. Cardinality(on) : at[n] = p /\ (n - 1) % Size(o) = 0

\* The pages of a row and its list head are one closed piece of the heap.
LEMMA RowClosed ==
  ASSUME NEW o \in Order, NEW D, Blocks(D, o), NEW nx, NEW pv, Strung(nx, pv, D, o),
         NEW m, NEW s, RowIn(nx, pv, o, D, s, m)
  PROVE  WellLinked(nx, pv, Area(D, o) \cup {Anchor(o)})
<1> DEFINE R == Area(D, o) \cup {Anchor(o)}
<1>1. m \in Nat /\ Row(s, m, D) /\ \A k \in 0 .. m : nx[Hi(s, m, o, k)] = Lo(s, m, o, k + 1)
                                                    /\ pv[Lo(s, m, o, k + 1)] = Hi(s, m, o, k)
  BY DEF RowIn, Linked
<1>2. \A p \in D : Inside(p, o)
  BY DEF Blocks
<1>3. \A x : x \in R <=> x = Anchor(o) \/ \E p \in D : x \in Pages(p, o)
  BY DEF Area
<1> HIDE DEF R
<1>4. \A p \in D : p \in R /\ End(p, o) \in R
  BY <1>2, <1>3, BlockPages
<1>5. \A k : Lo(s, m, o, k) \in R /\ Hi(s, m, o, k) \in R
  <2>1. /\ \A k : Lo(s, m, o, k) = Anchor(o) \/ Lo(s, m, o, k) \in D
        /\ \A k : Hi(s, m, o, k) = Anchor(o) \/ \E q \in D : Hi(s, m, o, k) = End(q, o)
    BY <1>1, RowNodes
  <2> QED  BY <1>3, <1>4, <2>1
<1>6. ASSUME NEW x, NEW k \in 0 .. m, x = Hi(s, m, o, k) PROVE nx[x] \in R /\ pv[nx[x]] = x
  BY <1>1, <1>5, <1>6
<1>7. ASSUME NEW x, NEW k \in 0 .. m, x = Lo(s, m, o, k + 1) PROVE pv[x] \in R /\ nx[pv[x]] = x
  BY <1>1, <1>5, <1>7
<1>8. ASSUME NEW p \in D, NEW x \in Pages(p, o)
      PROVE  /\ x = End(p, o) \/ (nx[x] = x + 1 /\ pv[x + 1] = x /\ x + 1 \in R)
             /\ x = p \/ (pv[x] = x - 1 /\ nx[x - 1] = x /\ x - 1 \in R)
  <2>1. Inside(p, o) /\ Size(o) \in Nat \ {0}
    BY <1>2, Sizes
  <2>2. x \in Int /\ p \in Int /\ p <= x /\ x <= End(p, o) /\ End(p, o) \in Int
    BY <2>1 DEF Pages, End, Inside, Page
  <2>3. ASSUME x # End(p, o) PROVE nx[x] = x + 1 /\ pv[x + 1] = x /\ x + 1 \in R
    <3>1. x + 1 \in p + 1 .. End(p, o) /\ (x + 1) - 1 = x /\ x + 1 \in Pages(p, o)
      BY <2>2, <2>3 DEF Pages
    <3>2. nx[x] = x + 1 /\ pv[x + 1] = x
      BY <3>1 DEF Strung
    <3> QED  BY <1>3, <3>1, <3>2
  <2>4. ASSUME x # p PROVE pv[x] = x - 1 /\ nx[x - 1] = x /\ x - 1 \in R
    <3>1. x \in p + 1 .. End(p, o) /\ x - 1 \in Pages(p, o)
      BY <2>2, <2>4 DEF Pages
    <3>2. nx[x - 1] = x /\ pv[x] = x - 1
      BY <3>1 DEF Strung
    <3> QED  BY <1>3, <3>1, <3>2
  <2> QED  BY <2>3, <2>4
<1>9. ASSUME NEW p \in D
      PROVE  /\ \E k \in 0 .. m : End(p, o) = Hi(s, m, o, k)
             /\ \E k \in 0 .. m : p = Lo(s, m, o, k + 1)
  <2>1. PICK k \in 1 .. m : s[k] = p
    BY <1>1 DEF Row
  <2>2. k \in 0 .. m /\ k - 1 \in 0 .. m /\ (k - 1) + 1 = k
    BY <1>1
  <2>3. End(p, o) = Hi(s, m, o, k) /\ p = Lo(s, m, o, k)
    BY <2>1 DEF Hi, Lo
  <2>4. p = Lo(s, m, o, (k - 1) + 1)
    BY <2>2, <2>3
  <2> QED  BY <2>2, <2>3, <2>4
<1>10. /\ 0 \in 0 .. m /\ Anchor(o) = Hi(s, m, o, 0)
       /\ m \in 0 .. m /\ Anchor(o) = Lo(s, m, o, m + 1)
  BY <1>1 DEF Hi, Lo
<1>11. ASSUME NEW x \in R
       PROVE  nx[x] \in R /\ pv[nx[x]] = x /\ pv[x] \in R /\ nx[pv[x]] = x
  <2>1. CASE x = Anchor(o)
    BY <1>6, <1>7, <1>10, <2>1
  <2>2. CASE \E p \in D : x \in Pages(p, o)
    <3>1. PICK p \in D : x \in Pages(p, o)
      BY <2>2
    <3>2. nx[x] \in R /\ pv[nx[x]] = x
      <4>1. CASE x = End(p, o)
        BY <1>6, <1>9, <4>1
      <4>2. CASE x # End(p, o)
        BY <1>8, <3>1, <4>2
      <4> QED  BY <4>1, <4>2
    <3>3. pv[x] \in R /\ nx[pv[x]] = x
      <4>1. CASE x = p
        BY <1>7, <1>9, <4>1
      <4>2. CASE x # p
        BY <1>8, <3>1, <4>2
      <4> QED  BY <4>1, <4>2
    <3> QED  BY <3>2, <3>3
  <2> QED  BY <1>3, <2>1, <2>2
<1> QED  BY <1>11 DEF WellLinked, R

\* A walk meets just the pages of the row.
LEMMA RowWalked ==
  ASSUME NEW o \in Order, NEW D, Blocks(D, o), Disjoint(D, o),
         NEW nx, NEW pv, Strung(nx, pv, D, o), Listed(nx, pv, o, D)
  PROVE  Walked(nx, pv, o, D)
<1>1. PICK m, s : RowIn(nx, pv, o, D, s, m)
  BY DEF Listed
<1> DEFINE at == WalkIn(nx, o)  on == OnListIn(nx, o)  A == Area(D, o)  z == Size(o)  t == m * z
<1>2. m \in Nat /\ Row(s, m, D) /\ z \in Nat \ {0} /\ NPages \in Nat
  BY <1>1, Sizes DEF RowIn
<1>3. A \subseteq Page /\ Cardinality(A) = t /\ t <= NPages
  BY <1>2, RowCount
<1>4. t \in Nat /\ t % z = 0
  BY <1>2, Places
<1>5. WellLinked(nx, pv, A \cup {Anchor(o)})
  BY <1>1, RowClosed
<1>6. \A k \in 1 .. m : \A r \in 0 .. z - 1 : at[Place(o, k, r) + 1] = s[k] + r
  BY <1>1, <1>3, WalkAlong
<1>7. DOMAIN at = 0 .. NPages + 1 /\ at[0] = Anchor(o) /\ \A n \in 1 .. NPages + 1 : at[n] = nx[at[n - 1]]
  BY Walks
<1>8. \A k \in 1 .. m : \A r \in 0 .. z - 1 : Placed(o, m, k, r)
  BY <1>2, Places
<1>9. \A n \in 0 .. t - 1 : \E k \in 1 .. m : \E r \in 0 .. z - 1 : n = Place(o, k, r)
  BY <1>2, Places
<1>10. /\ \A x : x \in A <=> \E p \in D : x \in Pages(p, o)
       /\ \A k \in 1 .. m : s[k] \in D /\ s[k] \in Int
       /\ \A p \in D : \E k \in 1 .. m : s[k] = p
  BY <1>2 DEF Area, Row, Blocks, Inside, Page
<1>11. \A x : x \in on <=> x # Anchor(o) /\ \E n \in 0 .. NPages + 1 : x = at[n]
  BY <1>7 DEF OnListIn
<1>12. Anchor(o) \notin A
  <2>1. Anchor(o) \notin Page
    BY Sizes DEF Anchor, Order, Page
  <2> QED  BY <1>3, <2>1
<1> HIDE DEF at, on, A, z
<1>13. \A n \in 0 .. NPages + 1 : at[n] \in A \cup {Anchor(o)}
  <2> DEFINE R == A \cup {Anchor(o)}
             Bad == {n \in Nat : n \in 0 .. NPages + 1 /\ at[n] \notin R}
  <2>1. Anchor(o) \in R /\ \A x \in R : nx[x] \in R
    BY <1>5 DEF WellLinked
  <2> HIDE DEF R
  <2>2. Bad = {}
    <3> SUFFICES ASSUME Bad # {} PROVE FALSE
      OBVIOUS
    <3>1. PICK n \in Bad : \A j \in Bad : n <= j
      BY Smallest
    <3>2. n \in Nat /\ n \in 0 .. NPages + 1 /\ at[n] \notin R
      BY <3>1
    <3>3. n # 0
      BY <1>7, <2>1, <3>2
    <3>4. n - 1 \in Nat /\ n - 1 \in 0 .. NPages + 1 /\ n \in 1 .. NPages + 1
      BY <1>2, <3>2, <3>3
    <3>5. n - 1 \notin Bad
      <4>1. ~(n <= n - 1)
        BY <3>2
      <4> HIDE DEF Bad
      <4> QED  BY <3>1, <4>1
    <3>6. at[n - 1] \in R
      BY <3>4, <3>5
    <3> QED  BY <1>7, <2>1, <3>2, <3>4, <3>6
  <2>3. \A n \in 0 .. NPages + 1 : n \in Nat
    OBVIOUS
  <2> QED  BY <2>2, <2>3 DEF R
<1>14. ASSUME NEW x \in A PROVE \E n \in 0 .. NPages + 1 : x = at[n]
  <2>1. PICK p \in D : x \in Pages(p, o)
    BY <1>10
  <2>2. PICK k \in 1 .. m : s[k] = p
    BY <1>10
  <2>3. x - p \in 0 .. z - 1 /\ x = s[k] + (x - p)
    BY <1>2, <1>10, <2>1, <2>2 DEF Pages, End, z
  <2>4. x = at[Place(o, k, x - p) + 1]
    BY <1>6, <2>3
  <2>5. Place(o, k, x - p) \in 0 .. t - 1
    BY <1>8, <2>3 DEF Placed, z
  <2>6. Place(o, k, x - p) + 1 \in 0 .. NPages + 1
    <3> HIDE DEF t
    <3> QED  BY <1>2, <1>3, <1>4, <2>5
  <2> QED  BY <2>4, <2>6
<1>15. on = A
  <2>1. \A x \in on : x \in A
    BY <1>11, <1>13
  <2>2. \A x \in A : x \in on
    BY <1>11, <1>12, <1>14
  <2> QED  BY <2>1, <2>2
<1>16. ASSUME NEW n \in 1 .. t, (n - 1) % z # 0 PROVE at[n] = at[n - 1] + 1
  <2>1. n - 1 \in 0 .. t - 1 /\ (n - 1) + 1 = n
    BY <1>4
  <2>2. PICK k \in 1 .. m, r \in 0 .. z - 1 : n - 1 = Place(o, k, r)
    BY <1>9, <2>1
  <2>3. Placed(o, m, k, r)
    BY <1>8
  <2>4. (n - 1) % z = r
    BY <2>2, <2>3 DEF Placed, z
  <2>5. r > 0 /\ r - 1 \in 0 .. z - 1
    BY <1>2, <1>16, <2>4
  <2>6. Place(o, k, r - 1) + 1 = n - 1
    BY <1>4, <2>1, <2>2, <2>3, <2>5 DEF Placed
  <2>7. at[n] = s[k] + r /\ at[n - 1] = s[k] + (r - 1)
    BY <1>6, <2>1, <2>2, <2>5, <2>6
  <2> QED  BY <1>10, <2>5, <2>7
<1>17. ASSUME NEW p \in D PROVE \E n \in 1 .. t : at[n] = p /\ (n - 1) % z = 0
  <2>1. PICK k \in 1 .. m : s[k] = p
    BY <1>10
  <2>2. 0 \in 0 .. z - 1
    BY <1>2
  <2>3. Place(o, k, 0) \in 0 .. t - 1 /\ Place(o, k, 0) % z = 0
    BY <1>8, <2>2 DEF Placed, z
  <2>4. at[Place(o, k, 0) + 1] = p
    <3>1. s[k] + 0 = p
      BY <1>10, <2>1
    <3> QED  BY <1>6, <2>2, <3>1
  <2>5. Place(o, k, 0) + 1 \in 1 .. t /\ (Place(o, k, 0) + 1) - 1 = Place(o, k, 0)
    <3> HIDE DEF t
    <3> QED  BY <1>4, <2>3
  <2> QED  BY <2>3, <2>4, <2>5
<1> HIDE DEF t
<1>18. /\ on = A /\ on \subseteq Page /\ WellLinked(nx, pv, on \cup {Anchor(o)})
       /\ Cardinality(on) % z = 0
       /\ \A n \in 1 .. Cardinality(on) : (n - 1) % z # 0 => at[n] = at[n - 1] + 1
       /\ \A p \in D : \E n \in 1 .. Cardinality(on) : at[n] = p /\ (n - 1) % z = 0
  BY <1>3, <1>4, <1>5, <1>15, <1>16, <1>17
<1> QED  BY <1>18 DEF Walked, at, on, A, z

-----------------------------------------------------------------------------
(* The start                                                               *)

\* A whole number of blocks
Mult(a, o) == a * Size(o)

\* What is known of whole numbers of blocks.
LEMMA Mults ==
  ASSUME NEW o \in Order
  PROVE  /\ \A a \in Nat : Mult(a, o) \in Nat /\ Mult(a + 1, o) = Mult(a, o) + Size(o)
         /\ \A a, b \in Nat : a < b => Mult(a, o) + Size(o) <= Mult(b, o)
         /\ Mult(0, o) = 0
         /\ \A x \in Nat : \E a \in Nat : Mult(a, o) <= x /\ x < Mult(a, o) + Size(o)
<1> DEFINE z == Size(o)
<1>1. z \in Nat \ {0}
  BY Sizes
<1> HIDE DEF z
<1>2. /\ \A a \in Nat : a * z \in Nat /\ (a + 1) * z = a * z + z
      /\ \A a, b \in Nat : a < b => a * z + z <= b * z
      /\ 0 * z = 0
  BY <1>1, Times
<1>3. \A x \in Nat : x \div z \in Nat /\ (x \div z) * z <= x /\ x < (x \div z) * z + z
  BY <1>1, Divided
<1>4. \A x \in Nat : \E a \in Nat : a * z <= x /\ x < a * z + z
  BY <1>3
<1> QED  BY <1>2, <1>4 DEF Mult, z

\* Pages of order 0 are single.
LEMMA SizeOfOne == Size(0) = 1 /\ \A a \in Nat : Mult(a, 0) = a
<1>1. IsFiniteSet({}) /\ Cardinality({}) = 0
  BY FS_EmptySet
<1>2. Cardinality(SUBSET {}) = 2^0
  BY <1>1, FS_SUBSET
<1>3. SUBSET {} = {{}} /\ Cardinality({{}}) = 1
  BY FS_Singleton
<1>4. Size(0) = 1
  BY <1>2, <1>3 DEF Size
<1> QED  BY <1>4 DEF Mult

\* The pages below Top are whole blocks of the largest order; the marks lie two
\* blocks apart.
LEMMA Tops ==
  /\ MaxOrder \in Order /\ 0 \in Order
  /\ Top \in Nat /\ Top <= NPages
  /\ \E m \in Nat : Top = Mult(m, MaxOrder)
  /\ \A p \in Nat : p % Gap = 0 => \E a \in Nat : p = Mult(a, MaxOrder)
<1> DEFINE z == Size(MaxOrder)  g == Gap  q == NPages \div g
<1>1. MaxOrder \in Order /\ 0 \in Order /\ NPages \in Nat
  BY Sizes DEF Order
<1>2. z \in Nat \ {0}
  BY <1>1, Sizes
<1>3. g = 2 * z
  BY DEF Gap
<1>4. Top = q * g
  BY DEF Top
<1> HIDE DEF z, g
<1>5. g \in Nat \ {0}
  BY <1>2, <1>3
<1>6. q \in Nat /\ q * g <= NPages
  BY <1>1, <1>5, Divided
<1>7. ASSUME NEW a \in Nat PROVE a * g \in Nat /\ a * g = (2 * a) * z /\ 2 * a \in Nat
  BY <1>2, <1>3, SMT
<1>8. ASSUME NEW p \in Nat, p % g = 0 PROVE \E a \in Nat : p = a * z
  <2>1. p = g * (p \div g) /\ p \div g \in Nat
    BY <1>5, <1>8, SMT
  <2> DEFINE a == p \div g
  <2>2. a \in Nat /\ p = a * g
    BY <1>5, <2>1
  <2> HIDE DEF a
  <2> QED  BY <1>7, <2>2
<1> HIDE DEF q
<1>9. \E m \in Nat : q * g = m * z
  BY <1>6, <1>7
<1> QED  BY <1>1, <1>4, <1>6, <1>7, <1>8, <1>9 DEF Mult, z, g

\* The pages that are put on a list are whole blocks of its order.
LEMMA SpanPlace ==
  ASSUME NEW o \in Order
  PROVE  \E l, m \in Nat : /\ Span(o) = Mult(l, o) .. Mult(l + m, o) - 1
                           /\ Mult(l + m, o) <= NPages
<1>1. Top \in Nat /\ Top <= NPages /\ NPages \in Nat
  BY Tops, Sizes
<1>2. CASE o = 0 /\ o = MaxOrder
  <2>1. Span(o) = (0 .. Top - 1) \cup (Top .. NPages - 1)
    BY <1>2 DEF Span
  <2>2. (0 .. Top - 1) \cup (Top .. NPages - 1) = 0 .. NPages - 1
    BY <1>1
  <2>3. Mult(0, o) = 0 /\ Mult(0 + NPages, o) = NPages
    BY <1>1, <1>2, SizeOfOne
  <2>4. /\ 0 \in Nat /\ NPages \in Nat
        /\ Span(o) = Mult(0, o) .. Mult(0 + NPages, o) - 1 /\ Mult(0 + NPages, o) <= NPages
    BY <1>1, <2>1, <2>2, <2>3
  <2> QED  BY <2>4
<1>3. CASE o = 0 /\ o # MaxOrder
  <2>1. Span(o) = Top .. NPages - 1
    BY <1>3 DEF Span
  <2>2. NPages - Top \in Nat /\ Top + (NPages - Top) = NPages
    BY <1>1
  <2>3. Mult(Top, o) = Top /\ Mult(Top + (NPages - Top), o) = NPages
    BY <1>1, <1>3, <2>2, SizeOfOne
  <2>4. /\ Top \in Nat /\ NPages - Top \in Nat
        /\ Span(o) = Mult(Top, o) .. Mult(Top + (NPages - Top), o) - 1
        /\ Mult(Top + (NPages - Top), o) <= NPages
    BY <1>1, <2>1, <2>2, <2>3
  <2> QED  BY <2>4
<1>4. CASE o # 0 /\ o = MaxOrder
  <2>1. PICK m \in Nat : Top = Mult(m, o)
    BY <1>4, Tops
  <2>2. Span(o) = 0 .. Top - 1
    BY <1>4 DEF Span
  <2>3. Mult(0, o) = 0 /\ 0 + m = m
    BY <2>1, Mults
  <2> QED  BY <1>1, <2>1, <2>2, <2>3
<1>5. CASE o # 0 /\ o # MaxOrder
  <2>1. Span(o) = {}
    BY <1>5 DEF Span
  <2>2. Mult(0, o) = 0 /\ 0 + 0 = 0 /\ 0 .. 0 - 1 = {}
    BY Mults
  <2> QED  BY <1>1, <2>1, <2>2
<1> QED  BY <1>2, <1>3, <1>4, <1>5

\* Their first pages
Heads(o) == {p \in Span(o) : \E a \in Nat : p = Mult(a, o)}

\* Each page is linked to the one behind it, and the list head to the two ends.
Straight(nx, pv, o) ==
    /\ nx[Anchor(o)] = First(o) /\ pv[Anchor(o)] = Last(o)
    /\ \A p \in Span(o) : /\ nx[p] = IF p = Last(o) THEN Anchor(o) ELSE p + 1
                          /\ pv[p] = IF p = First(o) THEN Anchor(o) ELSE p - 1

\* Then the list is the row of the blocks of the span.
LEMMA SpanListed ==
  ASSUME NEW o \in Order, NEW nx, NEW pv, Straight(nx, pv, o)
  PROVE  /\ Listed(nx, pv, o, Heads(o)) /\ Strung(nx, pv, Heads(o), o)
         /\ Blocks(Heads(o), o)
         /\ \A p \in Heads(o) : Pages(p, o) \subseteq Span(o)
         /\ \A x \in Span(o) : \E p \in Heads(o) : x \in Pages(p, o)
<1>1. PICK l \in Nat, m \in Nat : /\ Span(o) = Mult(l, o) .. Mult(l + m, o) - 1
                                  /\ Mult(l + m, o) <= NPages
  BY SpanPlace
<1> DEFINE z == Size(o)  M(a) == Mult(a, o)  D == Heads(o)
           s == [k \in 1 .. m |-> M(l + k - 1)]
<1>2. z \in Nat \ {0} /\ NPages \in Nat
  BY Sizes
<1>3. /\ \A a \in Nat : M(a) \in Nat /\ M(a + 1) = M(a) + z
      /\ \A a, b \in Nat : a < b => M(a) + z <= M(b)
      /\ \A x \in Nat : \E a \in Nat : M(a) <= x /\ x < M(a) + z
  BY Mults
<1>4. Span(o) = M(l) .. M(l + m) - 1 /\ M(l + m) <= NPages /\ l + m \in Nat
  BY <1>1
<1>5. \A p : p \in D <=> p \in Span(o) /\ \E a \in Nat : p = M(a)
  BY DEF Heads
<1> HIDE DEF M, D, z
<1>6. M(l) \in Nat /\ M(l + m) \in Nat
  BY <1>3, <1>4
<1>7. ASSUME NEW a \in Nat, l <= a, a < l + m
      PROVE  M(a) \in D /\ M(l) <= M(a) /\ M(a) + z <= M(l + m)
  <2>1. l = a \/ l < a
    BY <1>7
  <2>2. M(l) <= M(a)
    BY <1>2, <1>3, <1>7, <2>1
  <2>3. M(a) + z <= M(l + m)
    BY <1>3, <1>4, <1>7
  <2>4. M(a) \in M(l) .. M(l + m) - 1
    <3>1. M(a) \in Nat
      BY <1>3
    <3> QED  BY <1>2, <1>6, <2>2, <2>3, <3>1
  <2> QED  BY <1>4, <1>5, <2>2, <2>3, <2>4
<1>8. ASSUME NEW a \in Nat, NEW x \in Span(o), M(a) <= x, x < M(a) + z
      PROVE  l <= a /\ a < l + m
  <2>1. x \in Nat /\ M(l) <= x /\ x < M(l + m)
    BY <1>4, <1>6
  <2>2. ~(a < l)
    <3>1. a < l => M(a) + z <= M(l)
      BY <1>3
    <3>2. M(a) \in Nat /\ M(l) \in Nat
      BY <1>3
    <3> QED  BY <1>2, <1>8, <2>1, <3>1, <3>2
  <2>3. ~(l + m <= a)
    <3>1. l + m < a => M(l + m) + z <= M(a)
      BY <1>3, <1>4
    <3>2. l + m = a => M(l + m) = M(a)
      OBVIOUS
    <3>3. M(a) \in Nat /\ M(l + m) \in Nat
      BY <1>3, <1>4
    <3>4. l + m <= a => l + m < a \/ l + m = a
      BY <1>4
    <3>5. ~(l + m < a)
      BY <1>2, <1>8, <2>1, <3>1, <3>3
    <3>6. ~(l + m = a)
      BY <1>2, <1>8, <2>1, <3>2, <3>3
    <3> QED  BY <3>4, <3>5, <3>6
  <2> QED  BY <1>4, <2>2, <2>3
<1>9. ASSUME NEW p \in D
      PROVE  \E a \in Nat : p = M(a) /\ l <= a /\ a < l + m
  <2>1. PICK a \in Nat : p = M(a)
    BY <1>5
  <2>2. p \in Span(o) /\ M(a) <= p /\ p < M(a) + z
    <3>1. M(a) \in Nat /\ p \in Span(o)
      BY <1>3, <1>5
    <3> QED  BY <1>2, <2>1, <3>1
  <2> QED  BY <1>8, <2>1, <2>2
<1>10. ASSUME NEW p \in D
      PROVE  /\ p \in Nat /\ End(p, o) = p + z - 1
             /\ M(l) <= p /\ p + z <= M(l + m)
  <2>1. PICK a \in Nat : p = M(a) /\ l <= a /\ a < l + m
    BY <1>9
  <2>2. M(l) <= M(a) /\ M(a) + z <= M(l + m) /\ M(a) \in Nat
    BY <1>3, <1>7, <2>1
  <2> QED  BY <2>1, <2>2 DEF End, z
<1>11. Blocks(D, o)
  <2> SUFFICES ASSUME NEW p \in D PROVE Inside(p, o)
    BY DEF Blocks
  <2>1. p \in Nat /\ End(p, o) = p + z - 1 /\ p + z <= M(l + m)
    BY <1>10
  <2>2. p \in 0 .. NPages - 1 /\ p + z - 1 \in 0 .. NPages - 1
    BY <1>2, <1>4, <1>6, <2>1
  <2> QED  BY <2>1, <2>2 DEF Inside, Page
<1>12. ASSUME NEW p \in D PROVE Pages(p, o) \subseteq Span(o)
  <2>1. Pages(p, o) = p .. p + z - 1
    BY <1>10 DEF Pages
  <2> QED  BY <1>2, <1>4, <1>10, <1>6, <2>1
<1>13. ASSUME NEW x \in Span(o) PROVE \E p \in D : x \in Pages(p, o)
  <2>1. x \in Nat
    BY <1>4, <1>6
  <2>2. PICK a \in Nat : M(a) <= x /\ x < M(a) + z
    BY <1>3, <2>1
  <2>3. M(a) \in D /\ M(a) \in Nat
    BY <1>3, <1>7, <1>8, <2>2
  <2>4. x \in M(a) .. M(a) + z - 1
    BY <1>2, <2>1, <2>2, <2>3
  <2>5. Pages(M(a), o) = M(a) .. M(a) + z - 1
    BY <1>10, <2>3 DEF Pages
  <2> QED  BY <2>3, <2>4, <2>5
<1>14. /\ m = 0 => First(o) = Anchor(o) /\ Last(o) = Anchor(o)
       /\ m # 0 => First(o) = M(l) /\ Last(o) = M(l + m) - 1 /\ M(l) + z <= M(l + m)
  <2>1. CASE m = 0
    <3>1. Span(o) = {}
      BY <1>4, <1>6, <2>1
    <3> QED  BY <2>1, <3>1 DEF First, Last
  <2>2. CASE m # 0
    <3>1. M(l) + z <= M(l + m)
      BY <1>3, <1>4, <2>2
    <3>2. /\ M(l) \in Span(o) /\ \A q \in Span(o) : M(l) <= q
          /\ M(l + m) - 1 \in Span(o) /\ \A q \in Span(o) : M(l + m) - 1 >= q
          /\ \A q \in Span(o) : q \in Int
      BY <1>2, <1>4, <1>6, <3>1
    <3>3. M(l) \in Int /\ M(l + m) - 1 \in Int
      BY <1>6
    <3>4. First(o) = M(l)
      <4> DEFINE P(p) == \A q \in Span(o) : p <= q
      <4>1. First(o) = CHOOSE p \in Span(o) : P(p)
        BY <3>2 DEF First
      <4>2. M(l) \in Span(o) /\ P(M(l))
        BY <3>2
      <4>3. \A p \in Span(o) : P(p) => p = M(l)
        BY <3>2, <3>3
      <4> HIDE DEF P
      <4> QED  BY <4>1, <4>2, <4>3
    <3>5. Last(o) = M(l + m) - 1
      <4> DEFINE P(p) == \A q \in Span(o) : p >= q
                 e == M(l + m) - 1
      <4>1. Last(o) = CHOOSE p \in Span(o) : P(p)
        BY <3>2 DEF Last
      <4>2. e \in Span(o) /\ P(e)
        BY <3>2
      <4>3. \A p \in Span(o) : P(p) => p = e
        BY <3>2, <3>3
      <4> HIDE DEF P, e
      <4>4. Last(o) = e
        BY <4>1, <4>2, <4>3
      <4> QED  BY <4>4 DEF e
    <3> QED  BY <2>2, <3>1, <3>4, <3>5
  <2> QED  BY <2>1, <2>2
<1>15. Row(s, m, D)
  <2>1. \A k \in 1 .. m : l + k - 1 \in Nat /\ l <= l + k - 1 /\ l + k - 1 < l + m
    OBVIOUS
  <2>2. \A k \in 1 .. m : s[k] = M(l + k - 1) /\ s[k] \in D
    BY <1>7, <2>1
  <2>3. s \in [1 .. m -> D]
    BY <2>2
  <2>4. ASSUME NEW a \in Nat, NEW b \in Nat, M(a) = M(b) PROVE a = b
    <3>1. M(a) \in Nat /\ M(b) \in Nat
      BY <1>3
    <3>2. (a < b => M(a) + z <= M(b)) /\ (b < a => M(b) + z <= M(a))
      BY <1>3
    <3>3. ~(a < b) /\ ~(b < a)
      BY <1>2, <2>4, <3>1, <3>2
    <3> QED  BY <3>3
  <2>5. ASSUME NEW i \in 1 .. m, NEW j \in 1 .. m, s[i] = s[j] PROVE i = j
    <3>1. l + i - 1 = l + j - 1
      BY <2>1, <2>2, <2>4, <2>5
    <3> QED  BY <3>1
  <2>6. ASSUME NEW p \in D PROVE \E k \in 1 .. m : s[k] = p
    <3>1. PICK a \in Nat : p = M(a) /\ l <= a /\ a < l + m
      BY <1>9
    <3>2. a - l + 1 \in 1 .. m /\ l + (a - l + 1) - 1 = a
      BY <3>1
    <3> HIDE DEF s
    <3> QED  BY <2>2, <3>1, <3>2
  <2> QED  BY <2>3, <2>5, <2>6 DEF Row
<1>16. \A k \in 1 .. m : s[k] = M(l + k - 1)
  OBVIOUS
<1> HIDE DEF s
<1>17. Linked(nx, pv, s, m, o)
  <2> SUFFICES ASSUME NEW k \in 0 .. m
               PROVE  nx[Hi(s, m, o, k)] = Lo(s, m, o, k + 1) /\ pv[Lo(s, m, o, k + 1)] = Hi(s, m, o, k)
    BY DEF Linked
  <2>1. k # 0 => /\ k \in 1 .. m /\ Hi(s, m, o, k) = M(l + k) - 1
                 /\ M(l + k) - 1 \in Span(o)
    <3> SUFFICES ASSUME k # 0 PROVE /\ k \in 1 .. m /\ Hi(s, m, o, k) = M(l + k) - 1
                                    /\ M(l + k) - 1 \in Span(o)
      OBVIOUS
    <3>1. k \in 1 .. m /\ l + k - 1 \in Nat /\ (l + k - 1) + 1 = l + k
      OBVIOUS
    <3>2. M(l + k) = M(l + k - 1) + z /\ M(l + k - 1) \in Nat
      BY <1>3, <3>1
    <3>3. End(s[k], o) = M(l + k - 1) + z - 1
      BY <1>16, <3>1 DEF End, z
    <3>4. M(l + k - 1) + z - 1 = M(l + k) - 1
      BY <1>2, <3>2
    <3>5. l <= l + k - 1 /\ l + k - 1 < l + m
      OBVIOUS
    <3>6. M(l) <= M(l + k - 1) /\ M(l + k - 1) + z <= M(l + m)
      BY <1>7, <3>1, <3>5
    <3>7. M(l + k) - 1 \in M(l) .. M(l + m) - 1
      BY <1>2, <1>6, <3>2, <3>6
    <3> QED  BY <1>4, <3>1, <3>3, <3>4, <3>7 DEF Hi
  <2>2. k # m => /\ k + 1 \in 1 .. m /\ Lo(s, m, o, k + 1) = M(l + k)
                 /\ M(l + k) \in Span(o)
    <3> SUFFICES ASSUME k # m PROVE /\ k + 1 \in 1 .. m /\ Lo(s, m, o, k + 1) = M(l + k)
                                    /\ M(l + k) \in Span(o)
      OBVIOUS
    <3>1. k + 1 \in 1 .. m /\ l + (k + 1) - 1 = l + k /\ l + k \in Nat /\ l <= l + k /\ l + k < l + m
      OBVIOUS
    <3>2. s[k + 1] = M(l + k)
      BY <1>16, <3>1
    <3>3. M(l + k) \in D
      BY <1>7, <3>1
    <3> QED  BY <1>5, <3>1, <3>2, <3>3 DEF Lo
  <2>3. k = 0 => Hi(s, m, o, k) = Anchor(o) /\ l + k = l
    BY DEF Hi
  <2>4. k = m => Lo(s, m, o, k + 1) = Anchor(o) /\ l + k = l + m
    BY DEF Lo
  <2>5. k # 0 => M(l) + z <= M(l + k)
    BY <1>3
  <2>6. k # m => M(l + k) + z <= M(l + m)
    BY <1>3
  <2>7. M(l + k) \in Nat
    BY <1>3
  <2>8. /\ nx[Anchor(o)] = First(o) /\ pv[Anchor(o)] = Last(o)
        /\ \A p \in Span(o) : /\ nx[p] = IF p = Last(o) THEN Anchor(o) ELSE p + 1
                              /\ pv[p] = IF p = First(o) THEN Anchor(o) ELSE p - 1
    BY DEF Straight
  <2>9. (M(l + k) - 1) + 1 = M(l + k)
    BY <2>7
  <2>10. CASE k = 0 /\ m = 0
    BY <1>14, <2>3, <2>4, <2>8, <2>10
  <2>11. CASE k = 0 /\ m # 0
    BY <1>14, <2>2, <2>3, <2>8, <2>11
  <2>12. CASE k # 0 /\ k = m
    BY <1>14, <2>1, <2>4, <2>8, <2>12
  <2>13. CASE k # 0 /\ k # m
    <3>1. m # 0
      BY <2>13
    <3>2. M(l + k) - 1 # M(l + m) - 1 /\ M(l + k) # M(l)
      BY <1>2, <1>6, <2>5, <2>6, <2>7, <2>13
    <3>3. nx[M(l + k) - 1] = (M(l + k) - 1) + 1
      BY <1>14, <2>1, <2>8, <2>13, <3>1, <3>2
    <3>4. pv[M(l + k)] = M(l + k) - 1
      BY <1>14, <2>2, <2>8, <2>13, <3>1, <3>2
    <3> QED  BY <2>1, <2>2, <2>9, <2>13, <3>3, <3>4
  <2> QED  BY <2>10, <2>11, <2>12, <2>13
<1>18. Strung(nx, pv, D, o)
  <2> SUFFICES ASSUME NEW p \in D, NEW x \in p + 1 .. End(p, o) PROVE nx[x - 1] = x /\ pv[x] = x - 1
    BY DEF Strung
  <2>1. p \in Nat /\ End(p, o) = p + z - 1 /\ M(l) <= p /\ p + z <= M(l + m)
    BY <1>10
  <2>2. /\ x \in M(l) .. M(l + m) - 1 /\ x - 1 \in M(l) .. M(l + m) - 1
        /\ x # M(l) /\ x - 1 # M(l + m) - 1 /\ (x - 1) + 1 = x
    BY <1>2, <1>6, <2>1
  <2>3. m # 0
    <3>1. m = 0 => M(l + m) = M(l)
      OBVIOUS
    <3> QED  BY <1>2, <1>6, <2>1, <3>1
  <2>4. First(o) = M(l) /\ Last(o) = M(l + m) - 1
    BY <1>14, <2>3
  <2> QED  BY <1>4, <2>2, <2>4 DEF Straight
<1>19. Listed(nx, pv, o, D)
  BY <1>15, <1>17 DEF Listed, RowIn
<1> QED  BY <1>11, <1>12, <1>13, <1>18, <1>19 DEF D

\* Every page is put on just one list.
LEMMA Spans ==
  /\ \A o \in Order : \A x \in Span(o) : /\ x \in Page /\ ListOf(x) = o
                                         /\ o # 0 => o = MaxOrder /\ x < Top
  /\ \A x \in Page : ListOf(x) \in Order /\ x \in Span(ListOf(x))
<1>1. Top \in Nat /\ Top <= NPages /\ NPages \in Nat /\ MaxOrder \in Order /\ 0 \in Order
  BY Tops, Sizes
<1>2. ASSUME NEW o \in Order, NEW x \in Span(o)
      PROVE  x \in Page /\ ListOf(x) = o /\ (o # 0 => o = MaxOrder /\ x < Top)
  <2>1. CASE o = MaxOrder /\ x \in 0 .. Top - 1
    BY <1>1, <2>1 DEF Page, ListOf
  <2>2. CASE o = 0 /\ x \in Top .. NPages - 1
    BY <1>1, <2>2 DEF Page, ListOf
  <2> QED  BY <2>1, <2>2 DEF Span
<1>3. ASSUME NEW x \in Page PROVE ListOf(x) \in Order /\ x \in Span(ListOf(x))
  <2>1. CASE x < Top
    BY <1>1, <2>1 DEF Page, ListOf, Span
  <2>2. CASE ~(x < Top)
    BY <1>1, <2>2 DEF Page, ListOf, Span
  <2> QED  BY <2>1, <2>2
<1> QED  BY <1>2, <1>3

\* A page inside a block has no mark, and a page with a mark is a first page.
LEMMA StartMarks ==
  /\ \A o \in Order : \A p \in Heads(o) : \A x \in p + 1 .. End(p, o) : InitOrder(x) \notin Order
  /\ \A o \in Order : \A p \in Page : InitOrder(p) = o => p \in Heads(o)
  /\ \A p \in Page : InitOrder(p) \in Int
<1>1. Top \in Nat /\ MaxOrder \in Nat /\ MaxOrder \in Order /\ 0 \in Order
  BY Tops, Sizes
<1>2. ASSUME NEW o \in Order, NEW p \in Heads(o), NEW x \in p + 1 .. End(p, o)
      PROVE  InitOrder(x) \notin Order
  <2>1. PICK a \in Nat : p = Mult(a, o)
    BY DEF Heads
  <2> DEFINE z == Size(o)
  <2>2. z \in Nat \ {0} /\ p \in Nat /\ End(p, o) = p + z - 1
    BY <2>1, Sizes, Mults DEF End
  <2> HIDE DEF z
  <2>3. x \in Nat /\ p < x /\ x < p + z
    BY <2>2
  <2>4. o # 0
    <3>1. z = 1 => FALSE
      BY <2>2, <2>3
    <3> QED  BY <3>1, SizeOfOne DEF z
  <2>5. x \in Span(o)
    <3>1. x \in Pages(p, o)
      BY <2>2, <2>3 DEF Pages
    <3>2. p \in Span(o) /\ Pages(p, o) \subseteq Span(o)
      <4>1. PICK l \in Nat, m \in Nat : Span(o) = Mult(l, o) .. Mult(l + m, o) - 1
        BY SpanPlace
      <4>2. p \in Span(o)
        BY DEF Heads
      <4>3. l + m \in Nat /\ Mult(l, o) \in Nat /\ Mult(l + m, o) \in Nat
        <5>1. l + m \in Nat
          OBVIOUS
        <5> QED  BY <5>1, Mults
      <4>4. p + z <= Mult(l + m, o)
        <5>1. a < l + m => p + z <= Mult(l + m, o)
          BY <2>1, <4>3, Mults DEF z
        <5>2. l + m < a => Mult(l + m, o) + z <= p
          BY <2>1, <4>3, Mults DEF z
        <5>3. l + m = a => Mult(l + m, o) = p
          BY <2>1
        <5>4. p < Mult(l + m, o)
          BY <4>1, <4>2, <4>3, <2>2
        <5>5. ~(l + m < a)
          BY <2>2, <4>3, <5>2, <5>4
        <5>6. ~(l + m = a)
          BY <2>2, <4>3, <5>3, <5>4
        <5>7. a < l + m
          BY <4>1, <5>5, <5>6
        <5> QED  BY <5>1, <5>7
      <4> QED  BY <2>2, <4>1, <4>2, <4>3, <4>4 DEF Pages
    <3> QED  BY <3>1, <3>2
  <2>6. o = MaxOrder /\ x < Top
    BY <2>4, <2>5, Spans
  <2>7. x % Gap # 0
    <3> SUFFICES ASSUME x % Gap = 0 PROVE FALSE
      OBVIOUS
    <3>1. PICK b \in Nat : x = Mult(b, o)
      BY <2>3, <2>6, Tops
    <3>2. /\ a < b => p + z <= x
          /\ b < a => x + z <= p
          /\ a = b => x = p
      BY <2>1, <3>1, Mults DEF z
    <3>3. ~(a < b) /\ ~(b < a) /\ a # b
      BY <2>2, <2>3, <3>2
    <3> QED  BY <3>3
  <2>8. InitOrder(x) = -1
    BY <1>1, <2>3, <2>6, <2>7 DEF InitOrder
  <2> QED  BY <1>1, <2>8 DEF Order
<1>3. ASSUME NEW o \in Order, NEW p \in Page, InitOrder(p) = o PROVE p \in Heads(o)
  <2>1. p \in Nat /\ o \in Nat
    BY Sizes DEF Page, Order
  <2>2. CASE p >= Top
    <3>1. o = 0 /\ ListOf(p) = 0
      BY <1>1, <1>3, <2>1, <2>2 DEF InitOrder, ListOf
    <3>2. p \in Span(o)
      BY <3>1, Spans
    <3>3. p = Mult(p, o)
      BY <2>1, <3>1, SizeOfOne
    <3> QED  BY <2>1, <3>2, <3>3 DEF Heads
  <2>3. CASE ~(p >= Top)
    <3>1. o = MaxOrder /\ p % Gap = 0 /\ ListOf(p) = MaxOrder
      BY <1>1, <1>3, <2>1, <2>3 DEF InitOrder, ListOf
    <3>2. p \in Span(o)
      BY <3>1, Spans
    <3>3. \E a \in Nat : p = Mult(a, o)
      BY <2>1, <3>1, Tops
    <3> QED  BY <3>2, <3>3 DEF Heads
  <2> QED  BY <2>2, <2>3
<1>4. \A p \in Page : InitOrder(p) \in Int
  BY <1>1 DEF InitOrder
<1> QED  BY <1>2, <1>3, <1>4

\* Two blocks of one order, each a whole number of blocks from page 0, have no page
\* in common.
LEMMA MultsApart ==
  ASSUME NEW o \in Order, NEW p, NEW q, NEW a \in Nat, NEW b \in Nat,
         p = Mult(a, o), q = Mult(b, o), p # q
  PROVE  Clear(p, o, q, o)
<1> DEFINE z == Size(o)
<1>1. z \in Nat \ {0} /\ p \in Nat /\ q \in Nat
  BY Sizes, Mults
<1>2. (a < b => p + z <= q) /\ (b < a => q + z <= p)
  BY Mults
<1>3. Pages(p, o) = p .. p + z - 1 /\ Pages(q, o) = q .. q + z - 1
  BY DEF Pages, End
<1> HIDE DEF z
<1>4. a < b \/ b < a
  <2>1. a # b
    OBVIOUS
  <2> QED  BY <2>1
<1> QED  BY <1>1, <1>2, <1>3, <1>4 DEF Clear

\* The lists that init_page_map leaves are sound, and all pages are on them.
LEMMA BuddyStart ==
  ASSUME Init
  PROVE  /\ ~wild /\ ~refused
         /\ \E B : /\ Sound(B, next, prev, busy, order, held, call)
                   /\ FreeIn(B, HandOf(call)) = Page
<1> DEFINE B == [o \in Order |-> Heads(o)]
<1>1. /\ next = [n \in Node |-> IF n < 0 THEN First(-1 - n)
                                ELSE IF n = Last(ListOf(n)) THEN Anchor(ListOf(n)) ELSE n + 1]
      /\ prev = [n \in Node |-> IF n < 0 THEN Last(-1 - n)
                                ELSE IF n = First(ListOf(n)) THEN Anchor(ListOf(n)) ELSE n - 1]
      /\ busy = [p \in Page |-> FALSE]
      /\ order = [p \in Page |-> InitOrder(p)]
      /\ held = [h \in Handle |-> None]
      /\ call = Idle /\ ~refused /\ ~wild
  BY DEF Init
<1>2. \A o \in Order : B[o] = Heads(o)
  OBVIOUS
<1>3. B \in [Order -> SUBSET Page]
  <2>1. \A o \in Order : Heads(o) \subseteq Page
    BY Spans DEF Heads
  <2> QED  BY <2>1
<1> HIDE DEF B
<1>4. \A o \in Order : o \in Nat /\ Anchor(o) \in Node /\ Anchor(o) < 0 /\ -1 - Anchor(o) = o
  BY Sizes DEF Anchor, Node, Order
<1>5. \A p \in Page : p \in Node /\ p \in Nat
  BY DEF Node, Page
<1>6. ASSUME NEW o \in Order PROVE Straight(next, prev, o)
  <2>1. next[Anchor(o)] = First(o) /\ prev[Anchor(o)] = Last(o)
    BY <1>1, <1>4
  <2>2. ASSUME NEW p \in Span(o)
        PROVE  /\ next[p] = IF p = Last(o) THEN Anchor(o) ELSE p + 1
               /\ prev[p] = IF p = First(o) THEN Anchor(o) ELSE p - 1
    <3>1. ListOf(p) = o /\ p \in Node /\ ~(p < 0)
      <4>1. p \in Page /\ ListOf(p) = o
        BY Spans
      <4> QED  BY <1>5, <4>1
    <3> QED  BY <1>1, <3>1
  <2> QED  BY <2>1, <2>2 DEF Straight
<1>7. ASSUME NEW o \in Order
      PROVE  /\ Listed(next, prev, o, B[o]) /\ Strung(next, prev, B[o], o)
             /\ Blocks(B[o], o)
             /\ \A p \in B[o] : Pages(p, o) \subseteq Span(o)
             /\ \A x \in Span(o) : \E p \in B[o] : x \in Pages(p, o)
  BY <1>2, <1>6, SpanListed
<1>8. ASSUME NEW o \in Order
      PROVE  WellLinked(next, prev, Area(B[o], o) \cup {Anchor(o)})
  <2> DEFINE D == B[o]
  <2>1. Listed(next, prev, o, D) /\ Strung(next, prev, D, o) /\ Blocks(D, o)
    BY <1>7
  <2> HIDE DEF D
  <2>2. PICK m, s : RowIn(next, prev, o, D, s, m)
    BY <2>1 DEF Listed
  <2>3. WellLinked(next, prev, Area(D, o) \cup {Anchor(o)})
    BY <2>1, <2>2, RowClosed
  <2> QED  BY <2>3 DEF D
<1>9. ASSUME NEW n \in Node PROVE next[n] \in Node /\ prev[n] \in Node
  <2>1. PICK o \in Order : n \in Area(B[o], o) \cup {Anchor(o)}
    <3>1. CASE n \in Page
      <4>1. ListOf(n) \in Order /\ n \in Span(ListOf(n))
        BY <3>1, Spans
      <4>2. PICK p \in B[ListOf(n)] : n \in Pages(p, ListOf(n))
        BY <1>7, <4>1
      <4> QED  BY <4>1, <4>2 DEF Area
    <3>2. CASE \E o \in Order : n = Anchor(o)
      BY <3>2
    <3> QED  BY <3>1, <3>2 DEF Node
  <2>2. next[n] \in Area(B[o], o) \cup {Anchor(o)} /\ prev[n] \in Area(B[o], o) \cup {Anchor(o)}
    BY <1>8, <2>1 DEF WellLinked
  <2>3. Area(B[o], o) \subseteq Page
    <3>1. \A p \in B[o] : Pages(p, o) \subseteq Page
      BY <1>7, BlockPages DEF Blocks
    <3> QED  BY <3>1 DEF Area
  <2> QED  BY <1>4, <1>5, <2>2, <2>3
<1>10. Types(next, prev, busy, order, held, call)
  <2>1. next \in [Node -> Node] /\ prev \in [Node -> Node]
    BY <1>1, <1>9
  <2>2. busy \in [Page -> BOOLEAN] /\ order \in [Page -> Int]
    BY <1>1, StartMarks
  <2>3. held \in [Handle -> [pg : Page, order : Order] \cup {None}]
    BY <1>1
  <2>4. call \in [op : {"idle", "get", "put"}, h : Handle \cup {None}, pg : Int, at : Int, want : Int]
    BY <1>1 DEF Idle
  <2> QED  BY <2>1, <2>2, <2>3, <2>4 DEF Types
<1>11. ListsSound(B, next, prev, order)
  <2>1. ASSUME NEW o \in Order, NEW p \in B[o] PROVE Whole(next, prev, order, p, o)
    <3>1. Inside(p, o)
      BY <1>7 DEF Blocks
    <3>2. ASSUME NEW x \in p + 1 .. End(p, o)
          PROVE  next[x - 1] = x /\ prev[x] = x - 1 /\ order[x] \notin Order
      <4>1. next[x - 1] = x /\ prev[x] = x - 1
        BY <1>7 DEF Strung
      <4>2. x \in Page
        BY <3>1, BlockPages
      <4>3. order[x] = InitOrder(x)
        BY <1>1, <4>2
      <4>4. InitOrder(x) \notin Order
        BY <1>2, StartMarks
      <4> QED  BY <4>1, <4>3, <4>4
    <3> QED  BY <3>1, <3>2 DEF Whole
  <2> QED  BY <1>3, <1>7, <2>1 DEF ListsSound
<1>12. call.op = "idle" /\ HandOf(call) = {} /\ \A h \in Handle : held[h] = None /\ HeldBy(held, h) = {}
  BY <1>1 DEF Idle, HandOf, HeldBy
<1>13. ListsApart(B)
  <2> SUFFICES ASSUME NEW o \in Order, NEW j \in Order, NEW p \in B[o], NEW q \in B[j]
               PROVE  (o = j /\ p = q) \/ Clear(p, o, q, j)
    BY DEF ListsApart
  <2>1. CASE o = j /\ p # q
    <3>1. PICK a \in Nat, b \in Nat : p = Mult(a, o) /\ q = Mult(b, o)
      BY <1>2, <2>1 DEF Heads
    <3> QED  BY <2>1, <3>1, MultsApart
  <2>2. CASE o # j
    <3>1. Pages(p, o) \subseteq Span(o) /\ Pages(q, j) \subseteq Span(j)
      BY <1>7
    <3> QED  BY <2>2, <3>1, Spans DEF Clear
  <2> QED  BY <2>1, <2>2
<1>14. Apart(B, HandOf(call), held)
  BY <1>12, <1>13 DEF Apart
<1>15. HeldWhole(next, prev, order, held) /\ HeldMarked(busy, order, held)
       /\ CallSound(next, prev, busy, order, held, call)
  BY <1>12 DEF HeldWhole, HeldMarked, CallSound
<1>16. MarksSound(B, busy, order, call)
  BY <1>1, <1>2, StartMarks DEF MarksSound
<1>17. FreeIn(B, HandOf(call)) = Page
  <2> DEFINE hand == HandOf(call)
  <2> HIDE DEF hand
  <2>1. \A x : x \in FreeIn(B, hand) <=> x \in hand \/ \E o \in Order : \E p \in B[o] : x \in Pages(p, o)
    BY FreeElement
  <2>2. \A x \in FreeIn(B, hand) : x \in Page
    BY <1>7, <1>12, <2>1, Spans DEF hand
  <2>3. \A x \in Page : x \in FreeIn(B, hand)
    <3> TAKE x \in Page
    <3>1. ListOf(x) \in Order /\ x \in Span(ListOf(x))
      BY Spans
    <3> DEFINE o == ListOf(x)
    <3>2. o \in Order /\ x \in Span(o)
      BY <3>1
    <3> HIDE DEF o
    <3>3. \E p \in B[o] : x \in Pages(p, o)
      BY <1>7, <3>2
    <3> QED  BY <2>1, <3>2, <3>3
  <2> QED  BY <2>2, <2>3 DEF hand
<1>18. Sound(B, next, prev, busy, order, held, call)
  BY <1>10, <1>11, <1>14, <1>15, <1>16 DEF Sound
<1> QED  BY <1>1, <1>17, <1>18

-----------------------------------------------------------------------------
(* The theorems                                                            *)

\* BuddyInv holds always.
LEMMA BuddySound == Spec => []BuddyInv
<1>1. Init => BuddyInv
  BY BuddyStart DEF BuddyInv
<1>2. BuddyInv /\ [Next]_vars => BuddyInv'
  BY BuddyKeeps
<1> QED  BY <1>1, <1>2, PTL DEF Spec

\* The walks of the properties are along next.
LEMMA WalkIsNext == \A o : Walk(o) = WalkIn(next, o) /\ OnList(o) = OnListIn(next, o)
  BY DEF Walk, WalkIn, OnList, OnListIn

\* In a sound heap the walk along each list meets just the pages of its blocks.
LEMMA ListsWalked ==
  ASSUME NEW B, NEW nx, NEW pv, NEW bz, NEW ord, NEW hl, NEW c, Sound(B, nx, pv, bz, ord, hl, c)
  PROVE  /\ \A o \in Order : Walked(nx, pv, o, B[o])
         /\ \A o \in Order : Area(B[o], o) \cap HandOf(c) = {}
         /\ \A o, j \in Order : o # j => Area(B[o], o) \cap Area(B[j], j) = {}
         /\ FreeIn(B, HandOf(c)) = (UNION {OnListIn(nx, o) : o \in Order}) \cup HandOf(c)
<1>1. ListsSound(B, nx, pv, ord) /\ Apart(B, HandOf(c), hl) /\ ListsApart(B)
  BY DEF Sound, Apart
<1>2. ASSUME NEW o \in Order PROVE Walked(nx, pv, o, B[o])
  <2> DEFINE D == B[o]
  <2>1. Blocks(D, o) /\ Strung(nx, pv, D, o) /\ Listed(nx, pv, o, D)
    BY <1>1 DEF ListsSound, Whole, Blocks, Strung
  <2>2. Disjoint(D, o)
    BY <1>1 DEF ListsApart, Disjoint
  <2> HIDE DEF D
  <2>3. Walked(nx, pv, o, D)
    BY <2>1, <2>2, RowWalked
  <2> QED  BY <2>3 DEF D
<1>3. ASSUME NEW o \in Order PROVE Area(B[o], o) \cap HandOf(c) = {}
  BY <1>1 DEF Apart, Area
<1>4. ASSUME NEW o \in Order, NEW j \in Order, o # j PROVE Area(B[o], o) \cap Area(B[j], j) = {}
  BY <1>1, <1>4 DEF ListsApart, Clear, Area
<1>5. FreeIn(B, HandOf(c)) = (UNION {OnListIn(nx, o) : o \in Order}) \cup HandOf(c)
  <2>1. \A o \in Order : OnListIn(nx, o) = UNION {Pages(p, o) : p \in B[o]}
    BY <1>2 DEF Walked, Area
  <2>2. {OnListIn(nx, o) : o \in Order} = {UNION {Pages(p, o) : p \in B[o]} : o \in Order}
    BY <2>1
  <2> QED  BY <2>2 DEF FreeIn
<1> QED  BY <1>2, <1>3, <1>4, <1>5

\* InHand is the hand of the proofs.
LEMMA HandIs == InHand = HandOf(call)
  BY DEF InHand, HandOf

\* Until put_pages_to_list merges with the block before, with a block of the
\* largest order or with memory outside the page array, the list of each order is
\* one closed ring of whole blocks of its order, their pages in ascending order,
\* and no page is on two lists or in a block being worked on.  This is what cutting
\* 2^order pages off the front (mem.c:124-127) and linking chains by their two ends
\* (list.c:78-95) rest on.
THEOREM ListsAlwaysOfBlocks == Spec => []ListsOfBlocks
<1>1. BuddyInv => ListsOfBlocks
  <2> SUFFICES ASSUME NEW B, Sound(B, next, prev, busy, order, held, call) PROVE ListsOfBlocks
    BY DEF BuddyInv, ListsOfBlocks
  <2>1. /\ \A o \in Order : Walked(next, prev, o, B[o])
        /\ \A o \in Order : Area(B[o], o) \cap HandOf(call) = {}
        /\ \A o, j \in Order : o # j => Area(B[o], o) \cap Area(B[j], j) = {}
    BY ListsWalked
  <2>2. ASSUME NEW o \in Order
        PROVE  LET at == Walk(o)
                   on == OnList(o)
               IN  /\ on \subseteq Page \ InHand
                   /\ WellLinked(next, prev, on \cup {Anchor(o)})
                   /\ Cardinality(on) % Size(o) = 0
                   /\ \A n \in 1 .. Cardinality(on) :
                          (n - 1) % Size(o) # 0 => at[n] = at[n - 1] + 1
    <3>1. /\ OnList(o) = Area(B[o], o) /\ OnList(o) \subseteq Page
          /\ WellLinked(next, prev, OnList(o) \cup {Anchor(o)})
          /\ Cardinality(OnList(o)) % Size(o) = 0
          /\ \A n \in 1 .. Cardinality(OnList(o)) :
                 (n - 1) % Size(o) # 0 => Walk(o)[n] = Walk(o)[n - 1] + 1
      BY <2>1, WalkIsNext DEF Walked
    <3>2. OnList(o) \subseteq Page \ InHand
      BY <2>1, <3>1, HandIs
    <3> QED  BY <3>1, <3>2
  <2>3. \A o, j \in Order : o # j => OnList(o) \cap OnList(j) = {}
    <3>1. \A o \in Order : OnList(o) = Area(B[o], o)
      BY <2>1, WalkIsNext DEF Walked
    <3> QED  BY <2>1, <3>1
  <2> QED  BY <2>2, <2>3 DEF ListsOfBlocks
<1> QED  BY <1>1, BuddySound, PTL

\* Until then, a page that looks like the head of a free block of some order is the
\* head of one on the list of that order, so that the merge test of line 162 never
\* takes a page out of a block somebody has.
THEOREM MarksAlwaysTrue == Spec => []MarksTrue
<1>1. BuddyInv => MarksTrue
  <2> SUFFICES ASSUME NEW B, Sound(B, next, prev, busy, order, held, call) PROVE MarksTrue
    BY DEF BuddyInv, MarksTrue
  <2>1. \A o \in Order : Walked(next, prev, o, B[o])
    BY ListsWalked
  <2>2. ASSUME NEW o \in Order, NEW p \in Page \ InHand, LooksFree(p, o)
        PROVE  \E n \in 1 .. Cardinality(OnList(o)) : Walk(o)[n] = p /\ (n - 1) % Size(o) = 0
    <3>1. p \in B[o]
      BY <2>2, HandIs DEF LooksFree, Sound, MarksSound
    <3> QED  BY <2>1, <3>1, WalkIsNext DEF Walked
  <2> QED  BY <2>2 DEF MarksTrue
<1> QED  BY <1>1, BuddySound, PTL

\* Until then the callers of get_free_pages and put_free_pages see the page pool of
\* PagePool: a block handed out was free and is nobody else's, a block put back is
\* free again, and no page is lost (mem.c:115-185).
THEOREM BuddyIsPool == Spec => PoolImplemented
<1>1. \A B : Sound(B, next, prev, busy, order, held, call) => FreeIn(B, HandOf(call)) = FreePages
  <2> SUFFICES ASSUME NEW B, Sound(B, next, prev, busy, order, held, call)
               PROVE  FreeIn(B, HandOf(call)) = FreePages
    OBVIOUS
  <2>1. FreeIn(B, HandOf(call)) = (UNION {OnListIn(next, o) : o \in Order}) \cup HandOf(call)
    BY ListsWalked
  <2> QED  BY <2>1, WalkIsNext, HandIs DEF FreePages
<1>2. (\A B : Sound(B, next, prev, busy, order, held, call) => FreeIn(B, HandOf(call)) = FreePages)'
  <2>1. \A o : OnList(o)' = OnListIn(next', o)
    BY DEF OnList, OnListIn, Walk, WalkIn
  <2> SUFFICES ASSUME NEW B, Sound(B, next', prev', busy', order', held', call')
               PROVE  FreeIn(B, HandOf(call')) = FreePages'
    OBVIOUS
  <2> DEFINE nx == next'  c == call'
  <2>2. FreeIn(B, HandOf(c)) = (UNION {OnListIn(nx, o) : o \in Order}) \cup HandOf(c)
    BY ListsWalked
  <2>3. InHand' = HandOf(c)
    BY DEF InHand, HandOf
  <2>4. FreePages' = (UNION {OnListIn(nx, o) : o \in Order}) \cup HandOf(c)
    BY <2>1, <2>3 DEF FreePages
  <2> QED  BY <2>2, <2>4
<1>3. Init => Pool!PoolInit
  <2> SUFFICES ASSUME Init PROVE Pool!PoolInit
    OBVIOUS
  <2>1. FreePages = Page
    BY <1>1, BuddyStart
  <2>2. held = [h \in Handle |-> None]
    BY DEF Init
  <2> QED  BY <2>1, <2>2 DEF Pool!PoolInit, Pool!Page, Page
<1>4. BuddyInv /\ [Next]_vars => [breach' = {} => Pool!PoolNext \/ UNCHANGED Pool!poolVars]_vars
  <2> SUFFICES ASSUME BuddyInv, [Next]_vars, breach' = {}
               PROVE  Pool!PoolNext \/ UNCHANGED Pool!poolVars
    OBVIOUS
  <2>1. /\ breach = {}
        /\ \A B : Sound(B, next, prev, busy, order, held, call) => Stepped(B)
    BY BuddyStep
  <2>2. PICK B : Sound(B, next, prev, busy, order, held, call)
    BY <2>1 DEF BuddyInv
  <2>3. PICK B2 : /\ Sound(B2, next', prev', busy', order', held', call')
                  /\ \/ PoolKept(B, B2, held, held', call, call')
                     \/ HandsOut(B, B2, held, held', call, call')
                     \/ TakesBack(B, B2, held, held', call, call')
    BY <2>1, <2>2 DEF Stepped
  <2>4. FreeIn(B, HandOf(call)) = FreePages /\ FreeIn(B2, HandOf(call')) = FreePages'
    BY <1>1, <1>2, <2>2, <2>3
  <2>5. \A p, o : Pool!Pages(p, o) = Pages(p, o)
    BY DEF Pool!Pages, Pages, End, Pool!Size, Size
  <2>6. \A h : Pool!Held(h) = HeldBy(held, h)
    BY <2>5 DEF Pool!Held, HeldBy
  <2>7. Pool!Page = Page /\ Pool!Order = Order
    BY DEF Pool!Page, Page, Pool!Order, Order
  <2>8. CASE PoolKept(B, B2, held, held', call, call')
    BY <2>4, <2>8 DEF PoolKept, Pool!poolVars
  <2>9. CASE HandsOut(B, B2, held, held', call, call')
    <3>1. PICK h \in Handle, p \in Page, o \in Order :
              /\ held[h] = None
              /\ held' = [held EXCEPT ![h] = [pg |-> p, order |-> o]]
              /\ Pages(p, o) \subseteq FreePages
              /\ FreePages' = FreePages \ Pages(p, o)
      BY <2>4, <2>9 DEF HandsOut
    <3>2. Pool!PoolGet(h, p, o)
      BY <2>5, <3>1 DEF Pool!PoolGet
    <3> QED  BY <2>7, <3>2 DEF Pool!PoolNext
  <2>10. CASE TakesBack(B, B2, held, held', call, call')
    <3>1. PICK h \in Handle :
              /\ held[h] # None
              /\ held' = [held EXCEPT ![h] = None]
              /\ FreePages' = FreePages \cup HeldBy(held, h)
      BY <2>4, <2>10 DEF TakesBack
    <3>2. Pool!PoolPut(h)
      BY <2>6, <3>1 DEF Pool!PoolPut
    <3> QED  BY <3>2 DEF Pool!PoolNext
  <2> QED  BY <2>3, <2>8, <2>9, <2>10
<1> QED  BY <1>3, <1>4, BuddySound, PTL DEF Spec, PoolImplemented

\* Until then no caller that puts back what it was given is refused with the
\* message of mem.c:154, and no memory outside the page array and the list heads
\* is used.
THEOREM HonestCallsServed == Spec => [](breach = {} => ~refused /\ ~wild)
<1>1. BuddyInv => (breach = {} => ~refused /\ ~wild)
  BY DEF BuddyInv
<1> QED  BY <1>1, BuddySound, PTL
-----------------------------------------------------------------------------
(* What the pool promises                                                  *)

\* Nothing stronger is needed: what PagePool promises is inductive.
PoolInv == Pool!PoolTypeOK /\ Pool!NoSharing /\ Pool!NoLeak

\* At first every page is free and no handle has one.
LEMMA PoolInvInit == Pool!PoolInit => PoolInv
  BY DEF Pool!PoolInit, PoolInv, Pool!PoolTypeOK, Pool!NoSharing, Pool!NoLeak, Pool!Held

\* A get moves pages that were free into one handle.
LEMMA GetKeeps ==
  ASSUME PoolInv, NEW h \in Handle, NEW p \in Page, NEW o \in Order, Pool!PoolGet(h, p, o)
  PROVE  PoolInv'
<1> DEFINE b == [pg |-> p, order |-> o]  old(g) == Pool!Held(g)  new(g) == Pool!Held(g)'
<1>1. b \in Pool!Block /\ b # None /\ b.pg = p /\ b.order = o
  BY BuddyAssumption DEF Pool!Block, Pool!Page, Page, Pool!Order, Order
<1>2. old(h) = {} /\ new(h) = Pool!Pages(p, o)
  BY <1>1 DEF Pool!PoolGet, Pool!Held, PoolInv, Pool!PoolTypeOK
<1>3. \A g \in Handle \ {h} : new(g) = old(g)
  BY DEF Pool!PoolGet, Pool!Held, PoolInv, Pool!PoolTypeOK
<1>4. Pool!Pages(p, o) \subseteq FreePages /\ FreePages' = FreePages \ Pool!Pages(p, o)
  BY DEF Pool!PoolGet
<1>5. Pool!PoolTypeOK'
  BY <1>1, <1>4 DEF Pool!PoolGet, PoolInv, Pool!PoolTypeOK
<1>6. Pool!NoSharing'
  BY <1>2, <1>3, <1>4 DEF PoolInv, Pool!NoSharing
<1>7. Pool!NoLeak'
  <2>1. FreePages \cup UNION {old(g) : g \in Handle} = FreePages' \cup UNION {new(g) : g \in Handle}
    BY <1>2, <1>3, <1>4
  <2> QED  BY <2>1 DEF PoolInv, Pool!NoLeak
<1> QED  BY <1>5, <1>6, <1>7 DEF PoolInv

\* A put moves the pages of one handle back.
LEMMA PutKeeps ==
  ASSUME PoolInv, NEW h \in Handle, Pool!PoolPut(h)
  PROVE  PoolInv'
<1> DEFINE old(g) == Pool!Held(g)  new(g) == Pool!Held(g)'
<1>1. new(h) = {} /\ FreePages' = FreePages \cup old(h)
  BY DEF Pool!PoolPut, Pool!Held, PoolInv, Pool!PoolTypeOK
<1>2. \A g \in Handle \ {h} : new(g) = old(g)
  BY DEF Pool!PoolPut, Pool!Held, PoolInv, Pool!PoolTypeOK
<1>3. old(h) \subseteq Pool!Page
  BY DEF PoolInv, Pool!NoLeak
<1>4. Pool!PoolTypeOK'
  BY <1>1, <1>3 DEF Pool!PoolPut, PoolInv, Pool!PoolTypeOK
<1>5. Pool!NoSharing'
  BY <1>1, <1>2 DEF PoolInv, Pool!NoSharing
<1>6. Pool!NoLeak'
  <2>1. FreePages \cup UNION {old(g) : g \in Handle} = FreePages' \cup UNION {new(g) : g \in Handle}
    BY <1>1, <1>2
  <2> QED  BY <2>1 DEF PoolInv, Pool!NoLeak
<1> QED  BY <1>4, <1>5, <1>6 DEF PoolInv

\* A step of PagePool keeps it, and so does one that leaves the pool alone.
LEMMA PoolStep ==
  ASSUME PoolInv, Pool!PoolNext \/ UNCHANGED Pool!poolVars
  PROVE  PoolInv'
<1>1. CASE Pool!PoolNext
  BY <1>1, GetKeeps, PutKeeps DEF Pool!PoolNext, Pool!Page, Page, Pool!Order, Order
<1>2. CASE UNCHANGED Pool!poolVars
  BY <1>2 DEF Pool!poolVars, PoolInv, Pool!PoolTypeOK, Pool!NoSharing, Pool!NoLeak, Pool!Held
<1> QED  BY <1>1, <1>2

\* Whoever implements PagePool gives no page to two callers and loses none, for
\* every number of pages (put_free_pages and get_free_pages, mem.c:212-224).
THEOREM PoolKeepsPages == Pool!PoolSpec => [](Pool!PoolTypeOK /\ Pool!NoSharing /\ Pool!NoLeak)
<1>1. PoolInv /\ [Pool!PoolNext]_Pool!poolVars => PoolInv'
  BY PoolStep
<1> QED  BY PoolInvInit, <1>1, PTL DEF Pool!PoolSpec, PoolInv

\* Until put_pages_to_list makes a wrong merge, get_free_pages gives no page to two
\* callers, none that a caller has is on a list or in the hand of a call, and
\* every page is in one of these places (mem.c:115-224): what PagePool promises,
\* of the lists themselves.
THEOREM PagesNeverShared == Spec => [](breach = {} => Pool!NoSharing /\ Pool!NoLeak)
<1>1. Pool!PoolInit => (breach = {} => PoolInv)
  BY PoolInvInit
<1>2. /\ BuddyInv
      /\ breach = {} => PoolInv
      /\ [Next]_vars
      /\ [breach' = {} => Pool!PoolNext \/ UNCHANGED Pool!poolVars]_vars
      => (breach = {} => PoolInv)'
  <2> SUFFICES ASSUME BuddyInv, breach = {} => PoolInv, [Next]_vars, breach' = {},
                      [breach' = {} => Pool!PoolNext \/ UNCHANGED Pool!poolVars]_vars
               PROVE  PoolInv'
    OBVIOUS
  <2>1. breach = {}
    BY BuddyStep
  <2>2. CASE UNCHANGED vars
    BY <2>1, <2>2, PoolStep DEF vars, Pool!poolVars, FreePages, OnList, Walk, InHand
  <2>3. CASE Pool!PoolNext \/ UNCHANGED Pool!poolVars
    BY <2>1, <2>3, PoolStep
  <2> QED  BY <2>2, <2>3
<1>3. PoolInv => Pool!NoSharing /\ Pool!NoLeak
  BY DEF PoolInv
<1> QED  BY <1>1, <1>2, <1>3, BuddySound, BuddyIsPool, PTL DEF Spec, PoolImplemented
=============================================================================
