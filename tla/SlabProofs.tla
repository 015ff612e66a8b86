----------------------------- MODULE SlabProofs -----------------------------
(***************************************************************************)
(* For any number of caches, pages, sizes and callers: the object caches   *)
(* lose no object and give none out twice, kfree finds the cache of what   *)
(* it is given, the strings of blocks are whole, and kmalloc and kfree     *)
(* implement KHeap.                                                        *)
(*                                                                         *)
(* The properties follow links, so they are not inductive.  The invariant  *)
(* says instead that a sequence exists which the links spell out: of the   *)
(* free objects of each cache (FreeSound) and of the first pages of its    *)
(* blocks (Chained); and, which no property says, that the blocks of all   *)
(* caches lie apart (BlocksApart), so that the objects do, and a caller    *)
(* that writes to its memory writes to no link.  That the walks of the     *)
(* properties pass just those sequences is shown at the end.               *)
(***************************************************************************)
EXTENDS Slab, FiniteSetTheorems, WellFoundedInduction, TLAPS

\* The powers of two that the orders stand for are positive.
LEMMA PowerPositive == \A n \in Nat : 2^n \in Nat \ {0}
<1> TAKE n \in Nat
<1>1. IsFiniteSet(1 .. n) /\ Cardinality(1 .. n) = n
  BY FS_Interval
<1>2. IsFiniteSet(SUBSET (1 .. n)) /\ Cardinality(SUBSET (1 .. n)) = 2^n
  BY <1>1, FS_SUBSET
<1>3. SUBSET (1 .. n) # {}
  OBVIOUS
<1> QED  BY <1>2, <1>3, FS_EmptySet, FS_CardinalityType

\* The smallest number with a property
LEMMA Smallest ==
  ASSUME NEW S \in SUBSET Nat, S # {}
  PROVE  \E k \in S : \A j \in S : k <= j
<1>1. PICK k \in S : \A j \in S : ~ <<j, k>> \in OpToRel(<, Nat)
  BY NatLessThanWellFounded, WFMin
<1>2. \A j \in S : ~(j < k)
  BY <1>1 DEF OpToRel
<1> QED  BY <1>2

\* What the whole number of times tells.
LEMMA Divided ==
  ASSUME NEW a \in Nat, NEW b \in Nat \ {0}
  PROVE  /\ a \div b \in Nat
         /\ (a \div b) * b <= a
         /\ a < (a \div b) * b + b
  BY SMT

\* What is known of products
LEMMA Times ==
  /\ \A i, j, n \in Nat : i < j => i * n + n <= j * n
  /\ \A i, j, n \in Nat : i <= j => i * n <= j * n
  /\ \A i, n \in Nat : i * n \in Nat
  /\ \A i, j, n \in Nat : (i + j) * n = i * n + j * n
  BY SMT

-----------------------------------------------------------------------------
(* Sizes                                                                   *)

\* The pages of a block, 2^order of them
Wide(c) == 2^OrderOf(c)

\* A block is whole pages and holds at least one object.
LEMMA Sizes ==
  ASSUME NEW c \in Cache
  PROVE  /\ Size(c) \in Nat \ {0}
         /\ Wide(c) \in Nat \ {0}
         /\ Total(c) = Wide(c) * PageSize
         /\ Total(c) \in Nat \ {0}
         /\ Size(c) <= Total(c)
         /\ PageSize \in Nat \ {0}
         /\ NPages \in Nat
<1> DEFINE o == OrderOf(c)
<1>1. c \in Nat /\ NCache \in Nat /\ Unit \in Nat \ {0} /\ PageSize \in Nat \ {0} /\ Waste \in Nat \ {0}
        /\ NPages \in Nat /\ MaxOrder \in Nat /\ Waste <= PageSize
  BY SlabAssumption DEF Cache
<1>2. Size(c) \in Nat \ {0}
  <2>1. \A i, u \in Nat : u > 0 => (i + 1) * u \in Nat \ {0}
    BY SMT
  <2> QED  BY <2>1, <1>1 DEF Size
<1>3. o \in Fits(c)
  <2>1. Fits(c) # {}
    BY SlabAssumption
  <2>2. PICK q \in Fits(c) : TRUE
    BY <2>1
  <2>3. Fits(c) \subseteq Nat
    BY <1>1 DEF Fits
  <2>4. \E k \in Fits(c) : \A j \in Fits(c) : k <= j
    BY <2>2, <2>3, Smallest
  <2> QED  BY <2>4 DEF OrderOf
<1>4. o \in Nat /\ Size(c) <= Waste * 2^o
  BY <1>1, <1>3 DEF Fits
<1> DEFINE w == 2^o
<1>5. w \in Nat \ {0}
  BY <1>4, PowerPositive
<1>6. Wide(c) = w /\ Total(c) = w * PageSize /\ Size(c) <= Waste * w
  BY <1>4 DEF Wide, Total
<1> HIDE DEF w, o
<1>7. w * PageSize \in Nat \ {0} /\ Waste * w <= w * PageSize
  <2>1. \A i, j, n \in Nat : i <= j => i * n <= n * j
    BY SMT
  <2>2. \A i, n \in Nat \ {0} : i * n \in Nat \ {0}
    BY SMT
  <2> QED  BY <2>1, <2>2, <1>1, <1>5
<1>8. Size(c) <= w * PageSize
  <2>1. Waste * w \in Nat
    BY <1>1, <1>5, Times
  <2> QED  BY <1>2, <1>6, <1>7, <2>1
<1> QED  BY <1>1, <1>2, <1>5, <1>6, <1>7, <1>8

\* kmem_cache_line_object counts at least one object, none that hangs over, and
\* links every object but the last to the next.
LEMMA ObjectCount ==
  ASSUME NEW c \in Cache
  PROVE  /\ Objects(c) \in Nat \ {0}
         /\ Turns(c) \in Nat
         /\ Turns(c) <= Objects(c)
         /\ Objects(c) <= Turns(c) + 1
         /\ Objects(c) * Size(c) <= Total(c)
         /\ Turns(c) * Size(c) < Total(c)
<1> DEFINE z == Size(c)  t == Total(c)  n == Turns(c)
<1>1. z \in Nat \ {0} /\ t \in Nat \ {0} /\ z <= t
  BY Sizes
<1>2. t - 1 \in Nat /\ n = (t - 1) \div z
  BY <1>1 DEF Turns
<1>3. n \in Nat /\ n * z <= t - 1 /\ t - 1 < n * z + z
  BY <1>1, <1>2, Divided
<1>4. Objects(c) = IF t - n * z = z THEN n + 1 ELSE n
  BY DEF Objects
<1> HIDE DEF z, t, n
<1>5. n * z \in Nat /\ (n + 1) * z = n * z + z
  <2>1. 1 * z = z
    BY <1>1
  <2> QED  BY <1>1, <1>3, <2>1, Times
<1> DEFINE m == Objects(c)  b == n * z
<1>6. m \in Nat \ {0} /\ n <= m /\ m <= n + 1 /\ m * z <= t /\ n * z < t
  <2>1. b \in Nat /\ b <= t - 1 /\ t - 1 < b + z /\ (n + 1) * z = b + z
    BY <1>3, <1>5
  <2>2. m = IF t - b = z THEN n + 1 ELSE n
    BY <1>4
  <2>3. n = 0 => b = 0
    BY <1>1
  <2> HIDE DEF b, m
  <2>4. CASE t - b = z
    BY <1>1, <1>3, <2>1, <2>2, <2>4 DEF b
  <2>5. CASE t - b # z
    <3>1. m = n /\ n # 0
      BY <1>1, <1>3, <2>1, <2>2, <2>3, <2>5
    <3>2. m * z = b
      BY <3>1 DEF b
    <3>3. b <= t /\ b < t
      BY <1>1, <2>1
    <3> QED  BY <1>3, <3>1, <3>2, <3>3 DEF b
  <2> QED  BY <2>4, <2>5
<1> QED  BY <1>3, <1>6 DEF z, t, n, m

-----------------------------------------------------------------------------
(* Where objects lie                                                       *)

\* The objects of cache c in the blocks that start at the pages in D, and the
\* units of one object
ObjectAt(p, k, c) == AddrOf(p) + k * Size(c)
ObjectSet(D, c)   == {ObjectAt(p, k, c) : p \in D, k \in 0 .. Objects(c) - 1}
Span(a, c)        == a .. a + Size(c) - 1

\* An object lies inside its block.
LEMMA ObjectInside ==
  ASSUME NEW c \in Cache, NEW p \in Page, Block(p, c) \subseteq Page,
         NEW k \in 0 .. Objects(c) - 1
  PROVE  /\ ObjectAt(p, k, c) \in Addr
         /\ Span(ObjectAt(p, k, c), c) \subseteq Addr
         /\ \A x \in Span(ObjectAt(p, k, c), c) : PageOf(x) \in Block(p, c)
<1> DEFINE z == Size(c)  t == Total(c)  w == Wide(c)  n == Objects(c)  a == p * PageSize
<1>1. /\ z \in Nat \ {0} /\ t \in Nat \ {0} /\ w \in Nat \ {0} /\ n \in Nat \ {0}
      /\ PageSize \in Nat \ {0} /\ NPages \in Nat /\ t = w * PageSize /\ n * z <= t
  BY Sizes, ObjectCount
<1>2. p \in Nat /\ p < NPages /\ k \in Nat /\ k < n
  BY <1>1 DEF Page
<1>3. Block(p, c) = p .. p + w - 1
  BY DEF Block, BlockEnd, Wide
<1>4. p + w <= NPages
  <2>1. p + w - 1 \in p .. p + w - 1
    BY <1>1, <1>2
  <2>2. p + w - 1 \in Page
    BY <2>1, <1>3
  <2> QED  BY <1>1, <1>2, <2>2 DEF Page
<1>5. ObjectAt(p, k, c) = a + k * z
  BY DEF ObjectAt, AddrOf
<1> HIDE DEF z, t, w, n, a
<1>6. k * z \in Nat /\ k * z + z <= n * z /\ n * z \in Nat
  BY <1>1, <1>2, Times
<1>7. a \in Nat /\ (p + w) * PageSize = a + t /\ (p + w) * PageSize <= NPages * PageSize
        /\ NPages * PageSize \in Nat
  <2>1. p + w \in Nat
    BY <1>1, <1>2
  <2> QED  BY <1>1, <1>2, <1>4, <2>1, Times DEF a
<1>8. ASSUME NEW x \in a + k * z .. a + k * z + z - 1
      PROVE  x \in Addr /\ x \div PageSize \in p .. p + w - 1
  <2> DEFINE q == x \div PageSize
  <2>1. x \in Nat /\ a <= x /\ x < a + t
    BY <1>1, <1>6, <1>7
  <2>2. x \in Addr
    <3>1. x < NPages * PageSize
      BY <2>1, <1>1, <1>7
    <3> QED  BY <2>1, <3>1, <1>7 DEF Addr
  <2>3. q \in Nat /\ q * PageSize <= x /\ x < q * PageSize + PageSize
    BY <2>1, <1>1, Divided
  <2> HIDE DEF q
  <2>5. q * PageSize \in Nat
    BY <2>3, <1>1, Times
  <2>6. ~(q < p)
    <3> DEFINE b == q * PageSize
    <3>1. q < p => b + PageSize <= a
      BY <2>3, <1>1, <1>2, Times DEF a
    <3>2. b \in Nat /\ x < b + PageSize
      BY <2>3, <2>5
    <3> HIDE DEF b
    <3> QED  BY <3>1, <3>2, <2>1, <1>7, <1>1
  <2>7. ~(p + w <= q)
    <3> DEFINE b == q * PageSize  e == (p + w) * PageSize
    <3>1. p + w \in Nat
      BY <1>1, <1>2
    <3>2. p + w <= q => e <= b
      BY <3>1, <2>3, <1>1, Times
    <3>3. b \in Nat /\ b <= x /\ e = a + t
      BY <2>3, <2>5, <1>7
    <3> HIDE DEF b, e
    <3> QED  BY <3>2, <3>3, <2>1, <1>1, <1>7
  <2>8. q \in p .. p + w - 1
    BY <2>3, <2>6, <2>7, <1>1, <1>2
  <2> QED  BY <2>2, <2>8 DEF q
<1>9. Span(ObjectAt(p, k, c), c) = a + k * z .. a + k * z + z - 1
  BY <1>5 DEF Span, z
<1>10. a + k * z \in a + k * z .. a + k * z + z - 1
  BY <1>1, <1>6, <1>7
<1> QED  BY <1>3, <1>5, <1>8, <1>9, <1>10 DEF PageOf

\* Two objects of one block do not overlap.
LEMMA ObjectsInARow ==
  ASSUME NEW c \in Cache, NEW p \in Page,
         NEW k \in 0 .. Objects(c) - 1, NEW j \in 0 .. Objects(c) - 1, k # j
  PROVE  Span(ObjectAt(p, k, c), c) \cap Span(ObjectAt(p, j, c), c) = {}
<1> DEFINE z == Size(c)  a == AddrOf(p)
<1>1. z \in Nat \ {0} /\ k \in Nat /\ j \in Nat
  BY Sizes, ObjectCount
<1>2. a \in Nat
  BY Sizes, Times DEF Page, AddrOf
<1>3. \A i \in Nat : Span(ObjectAt(p, i, c), c) = a + i * z .. a + i * z + z - 1
  BY DEF Span, ObjectAt
<1> HIDE DEF z, a
<1>4. k * z \in Nat /\ j * z \in Nat /\ (k * z + z <= j * z \/ j * z + z <= k * z)
  BY <1>1, Times
<1>5. (a + k * z .. a + k * z + z - 1) \cap (a + j * z .. a + j * z + z - 1) = {}
  BY <1>1, <1>2, <1>4
<1> QED  BY <1>1, <1>3, <1>5

-----------------------------------------------------------------------------
(* Strings of free objects                                                 *)

\* t is the string of n addresses that starts with f when memory holds lk:
\* each but the last holds the address of the next.
StringIn(t, n, f, lk) ==
    /\ t \in [0 .. n - 1 -> Addr]
    /\ \A i, j \in 0 .. n - 1 : t[i] = t[j] => i = j
    /\ n > 0 => t[0] = f
    /\ \A k \in 0 .. n - 2 : lk[t[k]] = t[k + 1]
Elements(t, n) == {t[k] : k \in 0 .. n - 1}

\* The free objects of a cache are strung together, and together with those
\* that are taken they are the objects O.
FreeSound(n, f, lk, T, O) ==
    \E t : /\ StringIn(t, n, f, lk)
          /\ Elements(t, n) \cap T = {}
          /\ Elements(t, n) \cup T = O

\* Writing elsewhere does not disturb a string.
LEMMA StringKept ==
  ASSUME NEW n \in Nat, NEW f, NEW lk, NEW lk2, NEW T, NEW O, FreeSound(n, f, lk, T, O),
         \A a \in O : lk2[a] = lk[a]
  PROVE  FreeSound(n, f, lk2, T, O)
<1>1. PICK t : /\ StringIn(t, n, f, lk)
               /\ Elements(t, n) \cap T = {}
               /\ Elements(t, n) \cup T = O
  BY DEF FreeSound
<1>2. ASSUME NEW k \in 0 .. n - 2 PROVE lk2[t[k]] = t[k + 1]
  <2>1. k \in 0 .. n - 1
    OBVIOUS
  <2>2. t[k] \in O
    BY <1>1, <2>1 DEF Elements
  <2>3. lk[t[k]] = t[k + 1]
    BY <1>1 DEF StringIn
  <2> QED  BY <2>2, <2>3
<1>3. StringIn(t, n, f, lk2)
  BY <1>1, <1>2 DEF StringIn
<1> QED  BY <1>1, <1>3 DEF FreeSound

\* The first of the free objects is one of the cache that nobody has.
LEMMA StringFront ==
  ASSUME NEW n \in Nat \ {0}, NEW f, NEW lk, NEW T, NEW O, FreeSound(n, f, lk, T, O)
  PROVE  f \in O /\ f \in Addr /\ f \notin T
<1>1. PICK t : /\ StringIn(t, n, f, lk)
               /\ Elements(t, n) \cap T = {}
               /\ Elements(t, n) \cup T = O
  BY DEF FreeSound
<1>2. 0 \in 0 .. n - 1 /\ t[0] = f /\ t \in [0 .. n - 1 -> Addr]
  BY <1>1 DEF StringIn
<1> QED  BY <1>1, <1>2 DEF Elements

\* Taking the first object leaves the string of the others.
LEMMA StringPop ==
  ASSUME NEW n \in Nat \ {0}, NEW f, NEW lk, NEW lk2, NEW T, NEW O, FreeSound(n, f, lk, T, O),
         \A a \in O \ {f} : lk2[a] = lk[a]
  PROVE  FreeSound(n - 1, lk[f], lk2, T \cup {f}, O)
<1>1. PICK t : /\ StringIn(t, n, f, lk)
               /\ Elements(t, n) \cap T = {}
               /\ Elements(t, n) \cup T = O
  BY DEF FreeSound
<1> DEFINE u == [k \in 0 .. (n - 1) - 1 |-> t[k + 1]]
<1>2. 0 \in 0 .. n - 1 /\ t[0] = f /\ t \in [0 .. n - 1 -> Addr] /\ (n - 1) - 1 = n - 2
  BY <1>1 DEF StringIn
<1>3. f \in Elements(t, n) /\ f \in Addr
  BY <1>2 DEF Elements
<1>4. \A k \in 0 .. n - 2 : k \in 0 .. n - 1 /\ k + 1 \in 0 .. n - 1 /\ k + 1 # 0
  OBVIOUS
<1>5. u \in [0 .. (n - 1) - 1 -> Addr] /\ \A k \in 0 .. n - 2 : u[k] = t[k + 1]
  BY <1>2, <1>4
<1>6. ASSUME NEW i \in 0 .. n - 2, NEW j \in 0 .. n - 2, u[i] = u[j] PROVE i = j
  <2>1. t[i + 1] = t[j + 1]
    BY <1>5, <1>6
  <2>2. i + 1 = j + 1
    BY <1>1, <1>4, <2>1 DEF StringIn
  <2> QED  BY <2>2
<1>7. n - 1 > 0 => u[0] = lk[f]
  <2> HAVE n - 1 > 0
  <2>1. 0 \in 0 .. n - 2
    OBVIOUS
  <2>2. lk[t[0]] = t[0 + 1]
    BY <1>1, <2>1 DEF StringIn
  <2> QED  BY <1>2, <1>5, <2>1, <2>2
<1>8. ASSUME NEW k \in 0 .. (n - 1) - 2 PROVE lk2[u[k]] = u[k + 1]
  <2>1. k \in 0 .. n - 2 /\ k + 1 \in 0 .. n - 2
    OBVIOUS
  <2>2. lk[t[k + 1]] = t[(k + 1) + 1]
    BY <1>1, <2>1 DEF StringIn
  <2>3. t[k + 1] # f
    BY <1>1, <1>2, <1>4, <2>1 DEF StringIn
  <2>4. t[k + 1] \in O
    BY <1>1, <1>4, <2>1 DEF Elements
  <2> QED  BY <1>5, <2>1, <2>2, <2>3, <2>4
<1>9. StringIn(u, n - 1, lk[f], lk2)
  <2> HIDE DEF u
  <2> QED  BY <1>2, <1>5, <1>6, <1>7, <1>8 DEF StringIn
<1>10. Elements(u, n - 1) = Elements(t, n) \ {f}
  <2>1. ASSUME NEW k \in 0 .. n - 1, t[k] # f PROVE \E j \in 0 .. n - 2 : u[j] = t[k]
    <3>1. k - 1 \in 0 .. n - 2 /\ (k - 1) + 1 = k
      BY <2>1, <1>2
    <3> QED  BY <3>1, <1>5
  <2>2. ASSUME NEW k \in 0 .. n - 2 PROVE u[k] \in Elements(t, n) /\ u[k] # f
    BY <1>1, <1>2, <1>4, <1>5 DEF Elements, StringIn
  <2> HIDE DEF u
  <2> QED  BY <1>2, <2>1, <2>2 DEF Elements
<1> QED  BY <1>1, <1>3, <1>9, <1>10 DEF FreeSound

\* An object that is put in front is the first of the string.
LEMMA StringPush ==
  ASSUME NEW n \in Nat, NEW f, NEW lk, NEW lk2, NEW T, NEW O, NEW a \in Addr, NEW T2,
         FreeSound(n, f, lk, T, O), a \in T, T2 = T \ {a},
         lk2[a] = f, \A b \in O \ {a} : lk2[b] = lk[b]
  PROVE  FreeSound(n + 1, a, lk2, T2, O)
<1>1. PICK t : /\ StringIn(t, n, f, lk)
               /\ Elements(t, n) \cap T = {}
               /\ Elements(t, n) \cup T = O
  BY DEF FreeSound
<1> DEFINE u == [k \in 0 .. n |-> IF k = 0 THEN a ELSE t[k - 1]]
<1>2. /\ t \in [0 .. n - 1 -> Addr]
      /\ \A i, j \in 0 .. n - 1 : t[i] = t[j] => i = j
      /\ n > 0 => t[0] = f
      /\ \A k \in 0 .. n - 2 : lk[t[k]] = t[k + 1]
      /\ \A k \in 0 .. n - 1 : t[k] # a /\ t[k] \in O
  BY <1>1 DEF StringIn, Elements
<1>3. /\ u[0] = a
      /\ \A k \in 1 .. n : u[k] = t[k - 1] /\ k - 1 \in 0 .. n - 1
      /\ u \in [0 .. n -> Addr]
  BY <1>2
<1> HIDE DEF u
<1>4. ASSUME NEW i \in 0 .. n, NEW j \in 0 .. n, u[i] = u[j] PROVE i = j
  <2>1. CASE i = 0 /\ j # 0
    BY <1>2, <1>3, <1>4, <2>1
  <2>2. CASE i # 0 /\ j = 0
    BY <1>2, <1>3, <1>4, <2>2
  <2>3. CASE i # 0 /\ j # 0
    <3>1. i \in 1 .. n /\ j \in 1 .. n
      BY <2>3
    <3>2. i - 1 = j - 1
      BY <1>2, <1>3, <1>4, <3>1
    <3> QED  BY <3>1, <3>2
  <2> QED  BY <2>1, <2>2, <2>3
<1>5. ASSUME NEW k \in 0 .. n - 1 PROVE lk2[u[k]] = u[k + 1]
  <2>1. k + 1 \in 1 .. n /\ (k + 1) - 1 = k
    OBVIOUS
  <2>2. CASE k = 0
    BY <1>2, <1>3, <2>1, <2>2
  <2>3. CASE k # 0
    <3>1. k \in 1 .. n /\ k - 1 \in 0 .. n - 2 /\ (k - 1) + 1 = k
      BY <2>3
    <3>2. u[k] = t[k - 1] /\ u[k + 1] = t[k] /\ lk[t[k - 1]] = t[k]
      BY <1>2, <1>3, <2>1, <3>1
    <3>3. t[k - 1] \in O /\ t[k - 1] # a
      BY <1>2, <1>3, <3>1
    <3> QED  BY <3>2, <3>3
  <2> QED  BY <2>2, <2>3
<1>6. (n + 1) - 1 = n /\ (n + 1) - 2 = n - 1
  OBVIOUS
<1>7. StringIn(u, n + 1, a, lk2)
  BY <1>3, <1>4, <1>5, <1>6 DEF StringIn
<1>8. Elements(u, n + 1) = Elements(t, n) \cup {a}
  <2>1. \A k \in 0 .. n - 1 : k + 1 \in 1 .. n /\ (k + 1) - 1 = k
    OBVIOUS
  <2>2. \A k \in 0 .. n : k = 0 \/ k \in 1 .. n
    OBVIOUS
  <2>3. \A k \in 1 .. n : k \in 0 .. n
    OBVIOUS
  <2>4. 0 \in 0 .. n
    OBVIOUS
  <2>5. Elements(u, n + 1) = {u[k] : k \in 0 .. n} /\ Elements(t, n) = {t[k] : k \in 0 .. n - 1}
    BY <1>6 DEF Elements
  <2>6. ASSUME NEW k \in 0 .. n PROVE u[k] \in Elements(t, n) \cup {a}
    BY <1>3, <2>2, <2>5
  <2>7. ASSUME NEW k \in 0 .. n - 1 PROVE t[k] \in Elements(u, n + 1)
    <3>1. u[k + 1] = t[k]
      BY <1>3, <2>1
    <3> QED  BY <2>1, <2>3, <2>5, <3>1
  <2>8. a \in Elements(u, n + 1)
    BY <1>3, <2>4, <2>5
  <2> QED  BY <2>5, <2>6, <2>7, <2>8
<1>9. Elements(t, n) \cup {a} \cup T2 = O /\ (Elements(t, n) \cup {a}) \cap T2 = {}
  BY <1>1
<1> QED  BY <1>7, <1>8, <1>9 DEF FreeSound

\* kmem_cache_line_object makes a string of the objects of a block.
LEMMA StringLined ==
  ASSUME NEW c \in Cache, NEW p \in Page, Block(p, c) \subseteq Page
  PROVE  FreeSound(Objects(c), AddrOf(p), Lined(p, c), {}, ObjectSet({p}, c))
<1> DEFINE n == Objects(c)  z == Size(c)  b == AddrOf(p)
           t == [k \in 0 .. n - 1 |-> ObjectAt(p, k, c)]
<1>1. n \in Nat \ {0} /\ z \in Nat \ {0} /\ Turns(c) \in Nat /\ n <= Turns(c) + 1 /\ b \in Nat
  BY ObjectCount, Sizes, Times DEF Page, AddrOf
<1>2. \A k \in 0 .. n - 1 : ObjectAt(p, k, c) \in Addr
  BY ObjectInside
<1>3. ASSUME NEW i \in 0 .. n - 1, NEW j \in 0 .. n - 1, t[i] = t[j] PROVE i = j
  <2>1. ObjectAt(p, i, c) = ObjectAt(p, j, c)
    BY <1>3
  <2>2. ObjectAt(p, i, c) \in Span(ObjectAt(p, i, c), c)
    <3>1. ObjectAt(p, i, c) \in Int
      BY <1>2, Sizes, Times DEF Addr
    <3> QED  BY <3>1, <1>1 DEF Span
  <2> QED  BY <2>1, <2>2, ObjectsInARow
<1>4. ObjectAt(p, 0, c) = b
  BY <1>1 DEF ObjectAt
<1>5. ASSUME NEW k \in 0 .. n - 2 PROVE Lined(p, c)[t[k]] = t[k + 1]
  <2>1. k \in 0 .. n - 1 /\ k + 1 \in 0 .. n - 1 /\ k \in 0 .. Turns(c) - 1 /\ k \in Nat
    BY <1>1
  <2>2. (k + 1) * z = k * z + z
    <3>1. 1 * z = z
      BY <1>1
    <3> QED  BY <1>1, <2>1, <3>1, Times
  <2>3. ObjectAt(p, k + 1, c) = ObjectAt(p, k, c) + Size(c)
    <3> DEFINE kz == k * z
    <3>1. ObjectAt(p, k, c) = b + kz /\ ObjectAt(p, k + 1, c) = b + (k + 1) * z
      BY DEF ObjectAt
    <3>2. (k + 1) * z = kz + z /\ kz \in Nat
      BY <1>1, <2>1, <2>2, Times
    <3> HIDE DEF kz, z, b
    <3>3. b + (kz + z) = (b + kz) + z
      BY <1>1, <3>2
    <3> QED  BY <3>1, <3>2, <3>3 DEF z
  <2>4. Lined(p, c)[ObjectAt(p, k, c)] = ObjectAt(p, k, c) + Size(c)
    BY <1>2, <2>1 DEF Lined, ObjectAt
  <2> QED  BY <2>1, <2>3, <2>4
<1>6. StringIn(t, n, b, Lined(p, c))
  <2>1. t \in [0 .. n - 1 -> Addr]
    BY <1>2
  <2>2. t[0] = b
    BY <1>1, <1>4
  <2> HIDE DEF t, n, b
  <2> QED  BY <1>3, <1>5, <2>1, <2>2 DEF StringIn
<1>7. Elements(t, n) = ObjectSet({p}, c)
  BY DEF Elements, ObjectSet
<1> HIDE DEF t
<1> QED  BY <1>6, <1>7 DEF FreeSound

-----------------------------------------------------------------------------
(* The blocks of the caches                                                *)

\* The blocks of the first m caches, of which B holds the first pages, do not
\* overlap, and every page that is not in fr is in one of them.
BlocksApart(B, m, fr) ==
    /\ fr \subseteq Page
    /\ \A c \in 0 .. m - 1 : \A p \in B[c] : p \in Page /\ Block(p, c) \subseteq Page
    /\ \A c, d \in 0 .. m - 1 : \A p \in B[c], q \in B[d] :
          <<p, c>> # <<q, d>> => Block(p, c) \cap Block(q, d) = {}
    /\ \A x \in Page : x \notin fr <=> \E c \in 0 .. m - 1 : \E p \in B[c] : x \in Block(p, c)

\* The blocks of cache c that start at the pages in D are strung together from
\* hd to en.
ChainIn(m, b, c, D, hd, en, ch) ==
    /\ m \in Nat \ {0}
    /\ b \in [0 .. m - 1 -> D]
    /\ \A i, j \in 0 .. m - 1 : b[i] = b[j] => i = j
    /\ \A p \in D : \E k \in 0 .. m - 1 : b[k] = p
    /\ b[0] = hd
    /\ \A k \in 0 .. m - 2 : ch[BlockEnd(b[k], c)] = b[k + 1]
    /\ BlockEnd(b[m - 1], c) = en
    /\ ch[en] = NoPage
Chained(c, D, hd, en, ch) == \E m, b : ChainIn(m, b, c, D, hd, en, ch)

\* The first and the last page of a block belong to it.
LEMMA BlockEnds ==
  ASSUME NEW c \in Cache, NEW p \in Int
  PROVE  p \in Block(p, c) /\ BlockEnd(p, c) \in Block(p, c)
BY Sizes DEF Block, BlockEnd, Wide

\* An object lies in a block of its cache, and in no page that is free.
LEMMA ObjectPlace ==
  ASSUME NEW m \in 0 .. NCache, NEW B, NEW fr, BlocksApart(B, m, fr),
         NEW c \in 0 .. m - 1, NEW a \in ObjectSet(B[c], c)
  PROVE  /\ c \in Cache /\ a \in Addr /\ a \in Span(a, c) /\ Span(a, c) \subseteq Addr
         /\ \E p \in B[c] : \A x \in Span(a, c) : PageOf(x) \in Block(p, c)
         /\ \A x \in Span(a, c) : PageOf(x) \in Page \ fr
<1>1. c \in Cache
  BY SlabAssumption DEF Cache
<1>2. PICK p \in B[c], k \in 0 .. Objects(c) - 1 : a = ObjectAt(p, k, c)
  BY DEF ObjectSet
<1>3. p \in Page /\ Block(p, c) \subseteq Page
  BY DEF BlocksApart
<1>4. a \in Addr /\ Span(a, c) \subseteq Addr /\ \A x \in Span(a, c) : PageOf(x) \in Block(p, c)
  BY <1>1, <1>2, <1>3, ObjectInside
<1>5. a \in Span(a, c)
  <2>1. a \in Int
    BY <1>4, Sizes, Times DEF Addr
  <2> QED  BY <1>1, <2>1, Sizes DEF Span
<1>6. \A x \in Block(p, c) : x \in Page \ fr
  BY <1>3 DEF BlocksApart
<1> QED  BY <1>1, <1>4, <1>5, <1>6

\* No two objects overlap, of one cache or of two.
LEMMA ObjectsApart ==
  ASSUME NEW m \in 0 .. NCache, NEW B, NEW fr, BlocksApart(B, m, fr),
         NEW c \in 0 .. m - 1, NEW a \in ObjectSet(B[c], c),
         NEW d \in 0 .. m - 1, NEW b \in ObjectSet(B[d], d), <<a, c>> # <<b, d>>
  PROVE  Span(a, c) \cap Span(b, d) = {} /\ a # b
<1>1. c \in Cache /\ d \in Cache /\ a \in Span(a, c) /\ b \in Span(b, d)
  BY ObjectPlace
<1>2. PICK p \in B[c], k \in 0 .. Objects(c) - 1 : a = ObjectAt(p, k, c)
  BY DEF ObjectSet
<1>3. PICK q \in B[d], j \in 0 .. Objects(d) - 1 : b = ObjectAt(q, j, d)
  BY DEF ObjectSet
<1>4. /\ p \in Page /\ Block(p, c) \subseteq Page
      /\ q \in Page /\ Block(q, d) \subseteq Page
      /\ <<p, c>> # <<q, d>> => Block(p, c) \cap Block(q, d) = {}
  BY DEF BlocksApart
<1>5. CASE <<p, c>> = <<q, d>>
  <2>1. p = q /\ c = d /\ k # j
    BY <1>2, <1>3, <1>5
  <2>2. Span(a, c) \cap Span(b, d) = {}
    BY <1>1, <1>2, <1>3, <1>4, <2>1, ObjectsInARow
  <2> QED  BY <1>1, <2>2
<1>6. CASE <<p, c>> # <<q, d>>
  <2>1. /\ \A x \in Span(a, c) : PageOf(x) \in Block(p, c)
        /\ \A x \in Span(b, d) : PageOf(x) \in Block(q, d)
    BY <1>1, <1>2, <1>3, <1>4, ObjectInside
  <2> QED  BY <1>1, <1>4, <1>6, <2>1
<1> QED  BY <1>5, <1>6

\* Stringing the objects of a new block together writes to no object that is
\* there already.
LEMMA LinedElsewhere ==
  ASSUME NEW m \in 0 .. NCache, NEW B, NEW fr, BlocksApart(B, m, fr),
         NEW d \in 0 .. m - 1, NEW a \in ObjectSet(B[d], d),
         NEW c \in Cache, NEW p \in Page, Block(p, c) \subseteq fr
  PROVE  Lined(p, c)[a] = link[a]
<1>1. a \in Addr /\ PageOf(a) \in Page \ fr
  BY ObjectPlace
<1>2. ASSUME NEW k \in 0 .. Turns(c) - 1 PROVE a # AddrOf(p) + k * Size(c)
  <2>1. k \in 0 .. Objects(c) - 1 /\ Block(p, c) \subseteq Page
    BY ObjectCount DEF BlocksApart
  <2>2. /\ ObjectAt(p, k, c) \in Addr
        /\ \A x \in Span(ObjectAt(p, k, c), c) : PageOf(x) \in Block(p, c)
    BY <2>1, ObjectInside
  <2>3. ObjectAt(p, k, c) \in Span(ObjectAt(p, k, c), c)
    <3>1. ObjectAt(p, k, c) \in Int
      BY <2>2, Sizes, Times DEF Addr
    <3> QED  BY <3>1, Sizes DEF Span
  <2>4. PageOf(ObjectAt(p, k, c)) \in fr
    BY <2>2, <2>3
  <2> QED  BY <1>1, <2>4 DEF ObjectAt
<1> QED  BY <1>1, <1>2 DEF Lined

\* A block of free pages becomes one more block of a cache.
LEMMA BlockAdded ==
  ASSUME NEW m \in 0 .. NCache, NEW B, NEW fr, BlocksApart(B, m, fr),
         NEW c \in Cache, NEW p \in Page, Block(p, c) \subseteq fr,
         NEW m2 \in 0 .. NCache, NEW B2, m <= m2, c \in 0 .. m2 - 1,
         \A d \in 0 .. m2 - 1 : \A q \in B2[d] :
             (q = p /\ d = c) \/ (d \in 0 .. m - 1 /\ q \in B[d]),
         \A d \in 0 .. m - 1 : B[d] \subseteq B2[d],
         p \in B2[c]
  PROVE  BlocksApart(B2, m2, fr \ Block(p, c))
<1> DEFINE fr2 == fr \ Block(p, c)
<1>1. \A d \in 0 .. m - 1 : d \in 0 .. m2 - 1
  OBVIOUS
<1>2. fr \subseteq Page
  BY DEF BlocksApart
<1>3. ASSUME NEW d \in 0 .. m2 - 1, NEW q \in B2[d] PROVE q \in Page /\ Block(q, d) \subseteq Page
  BY <1>2 DEF BlocksApart
<1>4. ASSUME NEW d \in 0 .. m - 1, NEW q \in B[d] PROVE Block(q, d) \cap fr = {}
  BY <1>2 DEF BlocksApart
<1>5. ASSUME NEW d \in 0 .. m2 - 1, NEW q \in B2[d], NEW e \in 0 .. m2 - 1, NEW r \in B2[e],
             <<q, d>> # <<r, e>>
      PROVE  Block(q, d) \cap Block(r, e) = {}
  <2>1. CASE q = p /\ d = c
    BY <1>4, <1>5, <2>1
  <2>2. CASE r = p /\ e = c
    BY <1>4, <1>5, <2>2
  <2>3. CASE /\ d \in 0 .. m - 1 /\ q \in B[d]
             /\ e \in 0 .. m - 1 /\ r \in B[e]
    BY <1>5, <2>3 DEF BlocksApart
  <2> QED  BY <2>1, <2>2, <2>3
<1>6. ASSUME NEW x \in Page
      PROVE  x \notin fr2 <=> \E d \in 0 .. m2 - 1 : \E q \in B2[d] : x \in Block(q, d)
  <2>1. x \notin fr <=> \E d \in 0 .. m - 1 : \E q \in B[d] : x \in Block(q, d)
    BY DEF BlocksApart
  <2>2. CASE x \in Block(p, c)
    BY <2>2
  <2>3. CASE x \notin Block(p, c)
    <3>1. x \notin fr2 <=> x \notin fr
      BY <2>3
    <3>2. ASSUME NEW d \in 0 .. m2 - 1, NEW q \in B2[d], x \in Block(q, d)
          PROVE  d \in 0 .. m - 1 /\ q \in B[d]
      BY <2>3, <3>2
    <3>3. ASSUME NEW d \in 0 .. m - 1, NEW q \in B[d], x \in Block(q, d)
          PROVE  d \in 0 .. m2 - 1 /\ q \in B2[d]
      BY <1>1, <3>3
    <3> HIDE DEF fr2
    <3> QED  BY <2>1, <3>1, <3>2, <3>3
  <2> QED  BY <2>2, <2>3
<1> QED  BY <1>2, <1>3, <1>5, <1>6 DEF BlocksApart

\* A cache without a free object strings the objects of its new block together.
LEMMA StringGrown ==
  ASSUME NEW m \in 0 .. NCache, NEW B, NEW fr, BlocksApart(B, m, fr),
         NEW c \in 0 .. m - 1, NEW p \in Page, Block(p, c) \subseteq fr, NEW T, NEW f, NEW lk,
         FreeSound(0, f, lk, T, ObjectSet(B[c], c))
  PROVE  FreeSound(Objects(c), AddrOf(p), Lined(p, c), T, ObjectSet(B[c] \cup {p}, c))
<1>1. c \in Cache /\ Block(p, c) \subseteq Page
  BY SlabAssumption DEF Cache, BlocksApart
<1>2. T = ObjectSet(B[c], c)
  <2>1. PICK t : Elements(t, 0) \cup T = ObjectSet(B[c], c)
    BY DEF FreeSound
  <2>2. Elements(t, 0) = {}
    BY DEF Elements
  <2> QED  BY <2>1, <2>2
<1>3. PICK t : /\ StringIn(t, Objects(c), AddrOf(p), Lined(p, c))
               /\ Elements(t, Objects(c)) = ObjectSet({p}, c)
  BY <1>1, StringLined DEF FreeSound
<1>4. ASSUME NEW a \in ObjectSet({p}, c) PROVE a \notin T
  <2>1. PICK k \in 0 .. Objects(c) - 1 : a = ObjectAt(p, k, c)
    BY DEF ObjectSet
  <2>2. a \in Addr /\ \A x \in Span(a, c) : PageOf(x) \in Block(p, c)
    BY <1>1, <2>1, ObjectInside
  <2>3. a \in T => a \in Span(a, c) /\ \A x \in Span(a, c) : PageOf(x) \notin fr
    BY <1>2, ObjectPlace
  <2> QED  BY <2>2, <2>3
<1>5. ObjectSet(B[c] \cup {p}, c) = T \cup Elements(t, Objects(c))
  <2>1. ObjectSet(B[c] \cup {p}, c) = ObjectSet(B[c], c) \cup ObjectSet({p}, c)
    BY DEF ObjectSet
  <2> QED  BY <1>2, <1>3, <2>1
<1>6. Elements(t, Objects(c)) \cap T = {}
  BY <1>3, <1>4
<1> QED  BY <1>3, <1>5, <1>6 DEF FreeSound

-----------------------------------------------------------------------------
(* The strings of blocks                                                   *)

\* One block by itself
LEMMA ChainedFirst ==
  ASSUME NEW c \in Cache, NEW p, NEW ch, ch[BlockEnd(p, c)] = NoPage
  PROVE  Chained(c, {p}, p, BlockEnd(p, c), ch)
<1> DEFINE b == [k \in 0 .. 0 |-> p]
<1>1. b \in [0 .. 1 - 1 -> {p}] /\ b[0] = p /\ b[1 - 1] = p
  OBVIOUS
<1>2. /\ \A i, j \in 0 .. 1 - 1 : b[i] = b[j] => i = j
      /\ \A q \in {p} : \E k \in 0 .. 1 - 1 : b[k] = q
      /\ \A k \in 0 .. 1 - 2 : ch[BlockEnd(b[k], c)] = b[k + 1]
  OBVIOUS
<1> HIDE DEF b
<1>3. 1 \in Nat \ {0}
  OBVIOUS
<1>4. ChainIn(1, b, c, {p}, p, BlockEnd(p, c), ch)
  BY <1>1, <1>2, <1>3 DEF ChainIn
<1> QED  BY <1>4 DEF Chained

\* A write to the last page of no block of a cache leaves its string alone.
LEMMA ChainedKept ==
  ASSUME NEW c \in Cache, NEW D, NEW hd, NEW en, NEW ch, NEW ch2, Chained(c, D, hd, en, ch),
         \A p \in D : ch2[BlockEnd(p, c)] = ch[BlockEnd(p, c)]
  PROVE  Chained(c, D, hd, en, ch2)
<1>0. PICK m, b : ChainIn(m, b, c, D, hd, en, ch)
  BY DEF Chained
<1>1. /\ m \in Nat \ {0}
      /\ b \in [0 .. m - 1 -> D]
      /\ \A i, j \in 0 .. m - 1 : b[i] = b[j] => i = j
      /\ \A q \in D : \E k \in 0 .. m - 1 : b[k] = q
      /\ b[0] = hd
      /\ \A k \in 0 .. m - 2 : ch[BlockEnd(b[k], c)] = b[k + 1]
      /\ BlockEnd(b[m - 1], c) = en
      /\ ch[en] = NoPage
  BY <1>0 DEF ChainIn
<1>2. \A k \in 0 .. m - 2 : k \in 0 .. m - 1
  BY <1>1
<1>3. m - 1 \in 0 .. m - 1
  BY <1>1
<1>4. \A k \in 0 .. m - 2 : ch2[BlockEnd(b[k], c)] = b[k + 1]
  BY <1>1, <1>2
<1>5. ch2[en] = NoPage
  BY <1>1, <1>3
<1>6. ChainIn(m, b, c, D, hd, en, ch2)
  BY <1>1, <1>4, <1>5 DEF ChainIn
<1> QED  BY <1>6 DEF Chained

\* end_page is the last page of a block of the cache.
LEMMA ChainedEnd ==
  ASSUME NEW c, NEW D, NEW hd, NEW en, NEW ch, Chained(c, D, hd, en, ch)
  PROVE  \E p \in D : en = BlockEnd(p, c)
<1>1. PICK m, b : ChainIn(m, b, c, D, hd, en, ch)
  BY DEF Chained
<1>2. m - 1 \in 0 .. m - 1 /\ b \in [0 .. m - 1 -> D] /\ BlockEnd(b[m - 1], c) = en
  BY <1>1 DEF ChainIn
<1> QED  BY <1>2

\* A block is strung behind the last one.
LEMMA ChainedGrown ==
  ASSUME NEW c \in Cache, NEW D \in SUBSET Int, NEW hd, NEW en, NEW ch, NEW ch2, Chained(c, D, hd, en, ch),
         NEW p, p \notin D,
         en # BlockEnd(p, c),
         ch2[en] = p, ch2[BlockEnd(p, c)] = NoPage,
         \A q \in D : BlockEnd(q, c) # en => ch2[BlockEnd(q, c)] = ch[BlockEnd(q, c)]
  PROVE  Chained(c, D \cup {p}, hd, BlockEnd(p, c), ch2)
<1>0. PICK m, b : ChainIn(m, b, c, D, hd, en, ch)
  BY DEF Chained
<1>1. /\ m \in Nat \ {0}
      /\ b \in [0 .. m - 1 -> D]
      /\ \A i, j \in 0 .. m - 1 : b[i] = b[j] => i = j
      /\ \A q \in D : \E k \in 0 .. m - 1 : b[k] = q
      /\ b[0] = hd
      /\ \A k \in 0 .. m - 2 : ch[BlockEnd(b[k], c)] = b[k + 1]
      /\ BlockEnd(b[m - 1], c) = en
      /\ ch[en] = NoPage
  BY <1>0 DEF ChainIn
<1> USE <1>1
<1> DEFINE d == [k \in 0 .. m |-> IF k = m THEN p ELSE b[k]]
<1>2. /\ d \in [0 .. m -> D \cup {p}]
      /\ d[m] = p
      /\ \A k \in 0 .. m - 1 : d[k] = b[k] /\ d[k] \in D
  <2>1. \A k \in 0 .. m : k # m => k \in 0 .. m - 1
    OBVIOUS
  <2>2. \A k \in 0 .. m - 1 : k \in 0 .. m /\ k # m
    OBVIOUS
  <2>3. m \in 0 .. m
    OBVIOUS
  <2> QED  BY <2>1, <2>2, <2>3
<1> HIDE DEF d
<1>3. \A k \in 0 .. m : k = m \/ k \in 0 .. m - 1
  OBVIOUS
<1>4. \A i, j \in 0 .. m : d[i] = d[j] => i = j
  BY <1>1, <1>2, <1>3
<1>5. \A q \in D \cup {p} : \E k \in 0 .. m : d[k] = q
  <2>1. \A k \in 0 .. m - 1 : k \in 0 .. m
    OBVIOUS
  <2>2. m \in 0 .. m
    OBVIOUS
  <2> QED  BY <1>1, <1>2, <2>1, <2>2
<1>6. ASSUME NEW k \in 0 .. m - 1 PROVE ch2[BlockEnd(d[k], c)] = d[k + 1]
  <2>1. CASE k = m - 1
    <3>1. k + 1 = m
      BY <2>1
    <3> QED  BY <1>1, <1>2, <2>1, <3>1
  <2>2. CASE k # m - 1
    <3>1. k \in 0 .. m - 2 /\ k + 1 \in 0 .. m - 1 /\ m - 1 \in 0 .. m - 1
      BY <2>2
    <3>2. ch[BlockEnd(b[k], c)] = b[k + 1]
      BY <1>1, <3>1
    <3>3. b[k] # b[m - 1] /\ b[k] \in Int /\ b[m - 1] \in Int
      BY <1>1, <2>2, <3>1
    <3>4. BlockEnd(b[k], c) # BlockEnd(b[m - 1], c)
      BY <3>3, Sizes DEF BlockEnd, Wide
    <3> QED  BY <1>1, <1>2, <3>1, <3>2, <3>4
  <2> QED  BY <2>1, <2>2
<1>7. d[0] = hd
  <2>1. 0 \in 0 .. m - 1
    OBVIOUS
  <2> QED  BY <1>1, <1>2, <2>1
<1>8. m + 1 \in Nat \ {0} /\ (m + 1) - 1 = m /\ (m + 1) - 2 = m - 1
  OBVIOUS
<1>9. ChainIn(m + 1, d, c, D \cup {p}, hd, BlockEnd(p, c), ch2)
  BY <1>2, <1>4, <1>5, <1>6, <1>7, <1>8 DEF ChainIn
<1> QED  BY <1>9 DEF Chained

-----------------------------------------------------------------------------
(* The invariant                                                           *)

Words == [at : Addr, want : Request]

SlabTypes ==
    /\ free \subseteq Page
    /\ made \in 0 .. NCache
    /\ ready \in BOOLEAN /\ wild \in BOOLEAN
    /\ nr \in [Cache -> Nat]
    /\ nf \in [Cache -> Int]
    /\ head \in [Cache -> Int]
    /\ end \in [Cache -> Int]
    /\ chain \in [Page -> Int]
    /\ cachep \in [Page -> Int]
    /\ link \in [Addr -> Int]
    /\ held \in [Handle -> Words \cup {None}]

\* What callers have was given to each of them by a cache that is made, and its
\* page names that cache.
HeldSound(hd, m, cp) ==
    /\ \A h \in Handle : hd[h] # None =>
          /\ Index(hd[h].want) \in 0 .. m - 1
          /\ cp[PageOf(hd[h].at)] = Index(hd[h].want)
    /\ \A g, h \in Handle : hd[g] # None /\ hd[h] # None /\ hd[g].at = hd[h].at => g = h

\* Where the objects are that callers have of cache c
TakenAt(c, hd) == {hd[h].at : h \in {g \in Handle : hd[g] # None /\ Index(hd[g].want) = c}}

\* The caches are sound with B as the first pages of their blocks.
CachesSound(B) ==
    /\ BlocksApart(B, made, free)
    /\ \A c \in 0 .. made - 1 :
          /\ FreeSound(nr[c], nf[c], link, TakenAt(c, held), ObjectSet(B[c], c))
          /\ Chained(c, B[c], head[c], end[c], chain)

SlabInv ==
    /\ SlabTypes
    /\ HeldSound(held, made, cachep)
    /\ made = NCache => ~wild
    /\ ~ready => ~wild /\ made # NCache
    /\ \E B : B \in [Cache -> SUBSET Page] /\ CachesSound(B)

\* What callers have of a cache are objects of it.
LEMMA TakenAreObjects ==
  ASSUME NEW B, CachesSound(B), HeldSound(held, made, cachep),
         NEW g \in Handle, held[g] # None
  PROVE  LET d == Index(held[g].want)
         IN  d \in 0 .. made - 1 /\ held[g].at \in ObjectSet(B[d], d) /\ held[g].at \in TakenAt(d, held)
<1> DEFINE d == Index(held[g].want)
<1>1. d \in 0 .. made - 1
  BY DEF HeldSound
<1>2. held[g].at \in TakenAt(d, held)
  BY DEF TakenAt
<1>3. FreeSound(nr[d], nf[d], link, TakenAt(d, held), ObjectSet(B[d], d))
  BY <1>1 DEF CachesSound
<1>4. TakenAt(d, held) \subseteq ObjectSet(B[d], d)
  BY <1>3 DEF FreeSound
<1> QED  BY <1>1, <1>2, <1>4

\* A request is for less than an object of its cache.
LEMMA RequestFits ==
  ASSUME NEW n \in Request, Index(n) \in Cache, NEW a \in Int
  PROVE  a .. a + n - 1 \subseteq Span(a, Index(n))
<1> DEFINE c == Index(n)
<1>1. n \in Nat /\ Unit \in Nat \ {0} /\ c \in Nat
  BY SlabAssumption DEF Cache
<1>2. c = n \div Unit
  BY DEF Index
<1>3. n < c * Unit + Unit
  BY <1>1, <1>2, Divided
<1>4. Size(c) = c * Unit + Unit /\ c * Unit \in Nat
  <2>1. (c + 1) * Unit = c * Unit + 1 * Unit /\ 1 * Unit = Unit
    BY <1>1, Times
  <2> QED  BY <1>1, <2>1, Times DEF Size
<1>5. n < Size(c) /\ Size(c) \in Nat
  BY <1>1, <1>3, <1>4
<1> HIDE DEF c
<1> QED  BY <1>1, <1>5 DEF Span, c

\* At first no cache is made and nobody has anything.
LEMMA SlabInit == Init => SlabInv
<1> SUFFICES ASSUME Init PROVE SlabInv
  OBVIOUS
<1>1. NCache \in Nat \ {0}
  BY SlabAssumption
<1>2. SlabTypes
  <2>1. Junk \in Int /\ NoPage \in Int
    BY DEF Junk, NoPage
  <2>2. free \subseteq Page /\ made \in 0 .. NCache
    BY <1>1 DEF Init
  <2>6. ready \in BOOLEAN /\ wild \in BOOLEAN
    BY DEF Init
  <2>3. nr \in [Cache -> Nat] /\ nf \in [Cache -> Int] /\ head \in [Cache -> Int] /\ end \in [Cache -> Int]
    BY <2>1 DEF Init
  <2>4. chain \in [Page -> Int] /\ cachep \in [Page -> Int] /\ link \in [Addr -> Int]
    BY <2>1 DEF Init
  <2>5. held \in [Handle -> Words \cup {None}]
    BY DEF Init
  <2> QED  BY <2>2, <2>3, <2>4, <2>5, <2>6 DEF SlabTypes
<1>3. HeldSound(held, made, cachep)
  BY DEF Init, HeldSound
<1> DEFINE B == [c \in Cache |-> {}]
<1>4. B \in [Cache -> SUBSET Page]
  OBVIOUS
<1>5. 0 .. made - 1 = {}
  BY DEF Init
<1>6. CachesSound(B)
  <2> HIDE DEF B
  <2> QED  BY <1>5 DEF CachesSound, BlocksApart, Init
<1> HIDE DEF B
<1> QED  BY <1>1, <1>2, <1>3, <1>4, <1>6 DEF SlabInv, Init

\* kmem_cache_alloc takes the first of the free objects: the strings stay what
\* they are, whatever the caller writes, and the caller is the only one who has
\* the memory.
LEMMA TakeKeeps ==
  ASSUME SlabTypes, HeldSound(held, made, cachep),
         NEW B, NEW fr, BlocksApart(B, made, fr),
         NEW lk \in [Addr -> Int], NEW h \in Handle, NEW n \in Request, held[h] = None,
         Index(n) \in 0 .. made - 1, NEW k \in Nat \ {0}, NEW a, Take(h, n, a, k, lk),
         FreeSound(k, a, lk, TakenAt(Index(n), held), ObjectSet(B[Index(n)], Index(n))),
         \A d \in 0 .. made - 1 : d # Index(n) =>
             FreeSound(nr[d], nf[d], lk, TakenAt(d, held), ObjectSet(B[d], d))
  PROVE  /\ \A d \in 0 .. made - 1 :
                FreeSound(nr'[d], nf'[d], link', TakenAt(d, held'), ObjectSet(B[d], d))
         /\ HeldSound(held', made, cachep')
         /\ nr' \in [Cache -> Nat] /\ nf' \in [Cache -> Int] /\ link' \in [Addr -> Int]
         /\ cachep' \in [Page -> Int] /\ held' \in [Handle -> Words \cup {None}]
         /\ Heap!HeapAlloc(h, a, n)
<1> DEFINE c == Index(n)  O == ObjectSet(B[c], c)  w == [at |-> a, want |-> n]
<1>0. made \in 0 .. NCache /\ c \in Cache /\ NCache \in Nat
  BY SlabAssumption DEF SlabTypes, Cache
<1>1. a \in O /\ a \in Addr /\ a \notin TakenAt(c, held)
  BY StringFront
<1>2. /\ nr' = [nr EXCEPT ![c] = k - 1]
      /\ nf' = [nf EXCEPT ![c] = lk[a]]
      /\ cachep' = [cachep EXCEPT ![PageOf(a)] = c]
      /\ held' = [held EXCEPT ![h] = w]
      /\ link' = [b \in Addr |-> IF b \in a .. a + n - 1 THEN Junk ELSE lk[b]]
  BY DEF Take
<1>3. w \in Words /\ w # None /\ w.at = a /\ w.want = n
  <2>1. w \in Words
    BY <1>1 DEF Words
  <2>2. w \in [at : Int, want : Int]
    BY <1>1, SlabAssumption, Sizes, Times DEF Addr
  <2> QED  BY <2>1, <2>2, SlabAssumption
<1> HIDE DEF w
<1>4. /\ held'[h] = w
      /\ \A g \in Handle : g # h => held'[g] = held[g]
      /\ held' \in [Handle -> Words \cup {None}]
  BY <1>2, <1>3 DEF SlabTypes
<1>5. a \in Span(a, c) /\ Span(a, c) \subseteq Addr /\ PageOf(a) \in Page
        /\ \E p \in B[c] : PageOf(a) \in Block(p, c)
  <2>1. /\ a \in Span(a, c) /\ Span(a, c) \subseteq Addr
        /\ \E p \in B[c] : \A x \in Span(a, c) : PageOf(x) \in Block(p, c)
        /\ \A x \in Span(a, c) : PageOf(x) \in Page
    BY <1>0, <1>1, ObjectPlace
  <2> QED  BY <2>1
<1>6. a .. a + n - 1 \subseteq Span(a, c)
  <2>1. a \in Int
    BY <1>1, <1>0, Sizes, Times DEF Addr
  <2> QED  BY <1>0, <2>1, RequestFits
<1>7. ASSUME NEW d \in 0 .. made - 1, NEW b \in ObjectSet(B[d], d), <<b, d>> # <<a, c>>
      PROVE  link'[b] = lk[b]
  <2>1. Span(a, c) \cap Span(b, d) = {} /\ b \in Span(b, d) /\ b \in Addr
    BY <1>0, <1>1, <1>7, ObjectsApart, ObjectPlace
  <2> QED  BY <1>2, <1>6, <2>1
<1>8. TakenAt(c, held') = TakenAt(c, held) \cup {a}
  BY <1>3, <1>4 DEF TakenAt
<1>9. ASSUME NEW d \in 0 .. made - 1
      PROVE  FreeSound(nr'[d], nf'[d], link', TakenAt(d, held'), ObjectSet(B[d], d))
  <2>1. CASE d = c
    <3>1. \A b \in O \ {a} : link'[b] = lk[b]
      BY <1>7
    <3>2. FreeSound(k - 1, lk[a], link', TakenAt(c, held) \cup {a}, O)
      <4>1. FreeSound(k, a, lk, TakenAt(c, held), O)
        OBVIOUS
      <4> HIDE DEF O, c
      <4> QED  BY <3>1, <4>1, StringPop
    <3>3. nr'[c] = k - 1 /\ nf'[c] = lk[a]
      BY <1>0, <1>2 DEF SlabTypes
    <3> QED  BY <2>1, <3>2, <3>3, <1>8
  <2>2. CASE d # c
    <3>1. TakenAt(d, held') = TakenAt(d, held)
      BY <1>3, <1>4, <2>2 DEF TakenAt
    <3>2. nr'[d] = nr[d] /\ nf'[d] = nf[d] /\ nr[d] \in Nat
      BY <1>0, <1>2, <2>2 DEF SlabTypes, Cache
    <3>3. \A b \in ObjectSet(B[d], d) : link'[b] = lk[b]
      BY <1>7, <2>2
    <3>4. FreeSound(nr[d], nf[d], lk, TakenAt(d, held), ObjectSet(B[d], d))
      BY <2>2
    <3> QED  BY <3>1, <3>2, <3>3, <3>4, StringKept
  <2> QED  BY <2>1, <2>2
<1>10. ASSUME NEW g \in Handle, held[g] # None
       PROVE  LET d == Index(held[g].want)
              IN  /\ d \in 0 .. made - 1 /\ held[g].at \in ObjectSet(B[d], d)
                  /\ held[g].at # a /\ Span(held[g].at, d) \cap Span(a, c) = {}
  <2> DEFINE d == Index(held[g].want)
  <2>1. d \in 0 .. made - 1
    BY <1>10 DEF HeldSound
  <2>2. held[g].at \in TakenAt(d, held)
    BY <1>10 DEF TakenAt
  <2>3. TakenAt(d, held) \subseteq ObjectSet(B[d], d)
    <3>1. CASE d = c
      BY <3>1 DEF FreeSound
    <3>2. CASE d # c
      BY <2>1, <3>2 DEF FreeSound
    <3> QED  BY <3>1, <3>2
  <2>4. <<held[g].at, d>> # <<a, c>>
    BY <1>1, <2>2
  <2> HIDE DEF d
  <2>5. Span(held[g].at, d) \cap Span(a, c) = {} /\ held[g].at # a
    BY <1>0, <1>1, <2>1, <2>2, <2>3, <2>4, ObjectsApart
  <2> QED  BY <2>1, <2>2, <2>3, <2>5 DEF d
<1>11. HeldSound(held', made, cachep')
  <2>1. ASSUME NEW g \in Handle, held'[g] # None
        PROVE  /\ Index(held'[g].want) \in 0 .. made - 1
               /\ cachep'[PageOf(held'[g].at)] = Index(held'[g].want)
    <3>1. CASE g = h
      BY <1>2, <1>3, <1>4, <1>5, <3>1 DEF SlabTypes
    <3>2. CASE g # h
      <4> DEFINE d == Index(held[g].want)
      <4>1. held'[g] = held[g] /\ held[g] # None
        BY <1>4, <2>1, <3>2
      <4>2. d \in 0 .. made - 1 /\ cachep[PageOf(held[g].at)] = d /\ held[g].at \in ObjectSet(B[d], d)
        BY <1>10, <4>1 DEF HeldSound
      <4>3. /\ PageOf(held[g].at) \in Page
            /\ \E q \in B[d] : PageOf(held[g].at) \in Block(q, d)
        <5> HIDE DEF d
        <5>1. /\ held[g].at \in Span(held[g].at, d)
              /\ \E q \in B[d] : \A x \in Span(held[g].at, d) : PageOf(x) \in Block(q, d)
              /\ \A x \in Span(held[g].at, d) : PageOf(x) \in Page
          BY <1>0, <4>2, ObjectPlace
        <5> QED  BY <5>1
      <4>4. PageOf(held[g].at) = PageOf(a) => d = c
        BY <1>5, <4>2, <4>3 DEF BlocksApart
      <4>5. cachep'[PageOf(held[g].at)] = d
        BY <1>2, <4>2, <4>3, <4>4 DEF SlabTypes
      <4> QED  BY <4>1, <4>2, <4>5
    <3> QED  BY <3>1, <3>2
  <2>2. ASSUME NEW g \in Handle, NEW i \in Handle, held'[g] # None, held'[i] # None, held'[g].at = held'[i].at
        PROVE  g = i
    <3>1. \A j \in Handle \ {h} : held'[j] # None => held'[j].at # a
      BY <1>4, <1>10
    <3>2. held'[h].at = a
      BY <1>3, <1>4
    <3> QED  BY <1>4, <2>2, <3>1, <3>2 DEF HeldSound
  <2> QED  BY <2>1, <2>2 DEF HeldSound
<1>12. Heap!HeapAlloc(h, a, n)
  <2>1. a .. a + n - 1 \subseteq Addr
    BY <1>5, <1>6
  <2>2. ASSUME NEW g \in Handle
        PROVE  Heap!Mine(g) \cap Heap!Bytes(a, n) = {} /\ (held[g] # None => held[g].at # a)
    <3>1. CASE held[g] = None
      BY <3>1 DEF Heap!Mine
    <3>2. CASE held[g] # None
      <4> DEFINE d == Index(held[g].want)
      <4>1. held[g].want \in Request /\ held[g].at \in Int
        BY <3>2, Sizes, Times DEF SlabTypes, Words, Addr
      <4>2. d \in Cache
        BY <1>0, <1>10, <3>2 DEF Cache
      <4>3. held[g].at .. held[g].at + held[g].want - 1 \subseteq Span(held[g].at, d)
        BY <4>1, <4>2, RequestFits
      <4> HIDE DEF d
      <4>4. Span(held[g].at, d) \cap Span(a, c) = {} /\ held[g].at # a
        BY <1>10, <3>2 DEF d
      <4> QED  BY <1>6, <3>2, <4>3, <4>4 DEF Heap!Mine, Heap!Bytes
    <3> QED  BY <3>1, <3>2
  <2> QED  BY <1>2, <2>1, <2>2 DEF Heap!HeapAlloc, Heap!Bytes, w
<1>13. nr' \in [Cache -> Nat] /\ nf' \in [Cache -> Int] /\ link' \in [Addr -> Int] /\ cachep' \in [Page -> Int]
  <2>1. lk[a] \in Int /\ c \in Int /\ k - 1 \in Nat /\ Junk \in Int
    BY <1>0, <1>1 DEF Cache, Junk
  <2> HIDE DEF c
  <2> QED  BY <1>2, <2>1 DEF SlabTypes
<1> QED  BY <1>4, <1>9, <1>11, <1>12, <1>13

-----------------------------------------------------------------------------
(* The steps                                                               *)

HeapStep == [Heap!HeapNext]_held

\* kmalloc_init makes one more cache.
LEMMA CreateKeeps ==
  ASSUME SlabInv, NEW c \in Cache, Create(c)
  PROVE  SlabInv' /\ HeapStep
<1>1. PICK p \in Page :
        /\ Block(p, c) \subseteq free
        /\ free' = free \ Block(p, c)
        /\ link' = Lined(p, c)
        /\ nf' = [nf EXCEPT ![c] = AddrOf(p)]
        /\ nr' = [nr EXCEPT ![c] = Objects(c)]
        /\ head' = [head EXCEPT ![c] = p]
        /\ end' = [end EXCEPT ![c] = BlockEnd(p, c)]
        /\ chain' = [chain EXCEPT ![BlockEnd(p, c)] = NoPage]
  BY DEF Create
<1>2. ~ready /\ made = c /\ made' = c + 1 /\ ready' = (c = NCache - 1) /\ UNCHANGED <<cachep, held, wild>>
  BY DEF Create
<1>3. SlabTypes /\ HeldSound(held, made, cachep) /\ ~wild
  BY <1>2 DEF SlabInv
<1>4. PICK B : B \in [Cache -> SUBSET Page] /\ CachesSound(B)
  BY DEF SlabInv
<1>5. /\ NCache \in Nat /\ c \in Nat /\ c < NCache /\ made \in 0 .. NCache
      /\ c + 1 \in 0 .. NCache /\ c \in 0 .. (c + 1) - 1
      /\ \A d \in 0 .. (c + 1) - 1 : d # c => d \in 0 .. c - 1
      /\ \A d \in 0 .. c - 1 : d \in Cache /\ d # c
  <2>1. NCache \in Nat /\ c \in 0 .. NCache - 1 /\ made \in 0 .. NCache
    BY <1>3, SlabAssumption DEF Cache, SlabTypes
  <2> QED  BY <2>1 DEF Cache
<1>6. p \in Int /\ BlockEnd(p, c) \in Page /\ AddrOf(p) \in Int
  <2>1. p \in Int /\ AddrOf(p) \in Int
    BY Sizes, Times DEF Page, AddrOf
  <2> QED  BY <1>1, <1>3, <2>1, BlockEnds DEF SlabTypes
<1> DEFINE B2 == [B EXCEPT ![c] = {p}]
<1>7. B2 \in [Cache -> SUBSET Page] /\ B2[c] = {p} /\ \A d \in Cache : d # c => B2[d] = B[d]
  BY <1>4
<1> HIDE DEF B2
<1>8. BlocksApart(B, c, free)
  BY <1>2, <1>4 DEF CachesSound
<1>9. BlocksApart(B2, made', free')
  <2>1. \A d \in 0 .. (c + 1) - 1 : \A q \in B2[d] :
             (q = p /\ d = c) \/ (d \in 0 .. c - 1 /\ q \in B[d])
    BY <1>5, <1>7
  <2>2. \A d \in 0 .. c - 1 : B[d] \subseteq B2[d]
    BY <1>5, <1>7
  <2>3. c \in 0 .. NCache /\ c <= c + 1
    BY <1>5
  <2>4. BlocksApart(B2, c + 1, free \ Block(p, c))
    BY <1>1, <1>5, <1>7, <1>8, <2>1, <2>2, <2>3, BlockAdded
  <2> QED  BY <1>1, <1>2, <2>4
<1>10. \A d \in 0 .. c - 1 : \A a \in ObjectSet(B[d], d) : link'[a] = link[a]
  <2>1. c \in 0 .. NCache
    BY <1>5
  <2> QED  BY <1>1, <1>8, <2>1, LinedElsewhere
<1>11. ASSUME NEW d \in 0 .. (c + 1) - 1
       PROVE  /\ FreeSound(nr'[d], nf'[d], link', TakenAt(d, held'), ObjectSet(B2[d], d))
              /\ Chained(d, B2[d], head'[d], end'[d], chain')
  <2>1. CASE d = c
    <3>1. TakenAt(c, held') = {}
      BY <1>2, <1>3 DEF TakenAt, HeldSound
    <3>2. Block(p, c) \subseteq Page
      BY <1>1, <1>3 DEF SlabTypes
    <3>3. nr'[c] = Objects(c) /\ nf'[c] = AddrOf(p) /\ head'[c] = p /\ end'[c] = BlockEnd(p, c)
            /\ chain'[BlockEnd(p, c)] = NoPage
      BY <1>1, <1>3, <1>6 DEF SlabTypes
    <3>4. FreeSound(Objects(c), AddrOf(p), link', {}, ObjectSet({p}, c))
      BY <1>1, <3>2, StringLined
    <3>5. Chained(c, {p}, p, BlockEnd(p, c), chain')
      BY <3>3, ChainedFirst
    <3> QED  BY <1>7, <2>1, <3>1, <3>3, <3>4, <3>5
  <2>2. CASE d # c
    <3>1. d \in 0 .. c - 1 /\ d \in Cache /\ B2[d] = B[d]
      BY <1>5, <1>7, <2>2
    <3>2. /\ FreeSound(nr[d], nf[d], link, TakenAt(d, held), ObjectSet(B[d], d))
          /\ Chained(d, B[d], head[d], end[d], chain)
      BY <1>2, <1>4, <3>1 DEF CachesSound
    <3>3. nr'[d] = nr[d] /\ nf'[d] = nf[d] /\ head'[d] = head[d] /\ end'[d] = end[d] /\ held' = held
            /\ nr[d] \in Nat
      BY <1>1, <1>2, <1>3, <2>2, <3>1 DEF SlabTypes
    <3>4. FreeSound(nr[d], nf[d], link', TakenAt(d, held), ObjectSet(B[d], d))
      BY <1>10, <3>1, <3>2, <3>3, StringKept
    <3>5. ASSUME NEW q \in B[d] PROVE chain'[BlockEnd(q, d)] = chain[BlockEnd(q, d)]
      <4>1. q \in Page /\ Block(q, d) \cap free = {} /\ Block(q, d) \subseteq Page
        BY <1>8, <3>1 DEF BlocksApart
      <4>2. BlockEnd(q, d) \in Block(q, d) /\ BlockEnd(p, c) \in free
        <5>1. q \in Int
          BY <4>1, Sizes DEF Page
        <5> QED  BY <1>1, <1>6, <3>1, <5>1, BlockEnds
      <4> QED  BY <1>1, <1>3, <4>1, <4>2 DEF SlabTypes
    <3>6. Chained(d, B[d], head[d], end[d], chain')
      BY <3>1, <3>2, <3>5, ChainedKept
    <3> QED  BY <3>1, <3>3, <3>4, <3>6
  <2> QED  BY <2>1, <2>2
<1>12. CachesSound(B2)'
  BY <1>2, <1>9, <1>11 DEF CachesSound
<1>13. HeldSound(held', made', cachep')
  <2>1. \A i \in 0 .. c - 1 : i \in 0 .. (c + 1) - 1
    BY <1>5
  <2> QED  BY <1>2, <1>3, <2>1 DEF HeldSound
<1>14. SlabTypes'
  <2>1. Objects(c) \in Nat /\ NoPage \in Int
    BY ObjectCount DEF NoPage
  <2>2. link' \in [Addr -> Int]
    <3>1. Size(c) \in Int /\ \A a \in Addr : a \in Int
      BY Sizes, Times DEF Addr
    <3> QED  BY <1>1, <1>3, <3>1 DEF Lined, SlabTypes
  <2>3. free' \subseteq Page /\ made' \in 0 .. NCache
    BY <1>1, <1>2, <1>3, <1>5 DEF SlabTypes
  <2>4. ready' \in BOOLEAN /\ wild' \in BOOLEAN
    BY <1>2, <1>3 DEF SlabTypes
  <2>5. nr' \in [Cache -> Nat] /\ nf' \in [Cache -> Int] /\ head' \in [Cache -> Int] /\ end' \in [Cache -> Int]
    BY <1>1, <1>3, <1>6, <2>1, Sizes DEF SlabTypes, Page
  <2>6. chain' \in [Page -> Int]
    BY <1>1, <1>3, <2>1 DEF SlabTypes
  <2>7. cachep' \in [Page -> Int] /\ held' \in [Handle -> Words \cup {None}]
    BY <1>2, <1>3 DEF SlabTypes
  <2> QED  BY <2>2, <2>3, <2>4, <2>5, <2>6, <2>7 DEF SlabTypes
<1>15. ~wild' /\ (~ready' => made' # NCache)
  <2>1. ~ready' => c # NCache - 1
    BY <1>2, Zenon
  <2>2. c # NCache - 1 => made' # NCache
    BY <1>2, <1>5
  <2>3. ~wild'
    BY <1>2, <1>3, Zenon
  <2> QED  BY <2>1, <2>2, <2>3
<1>16. HeapStep
  BY <1>2 DEF HeapStep
<1> QED  BY <1>7, <1>12, <1>13, <1>14, <1>15, <1>16 DEF SlabInv

\* kmalloc from a cache that has a free object
LEMMA KmallocKeeps ==
  ASSUME SlabInv, NEW h \in Handle, NEW n \in Request, Kmalloc(h, n)
  PROVE  SlabInv' /\ HeapStep
<1> DEFINE c == Index(n)  a == nf[c]
<1>1. SlabTypes /\ HeldSound(held, made, cachep)
  BY DEF SlabInv
<1>2. PICK B : B \in [Cache -> SUBSET Page] /\ CachesSound(B)
  BY DEF SlabInv
<1>3. ready /\ ~wild /\ held[h] = None /\ c \in 0 .. made - 1 /\ nr[c] \in Nat \ {0}
  BY <1>1, SlabAssumption DEF Kmalloc, Asks, SlabTypes, Cache
<1>4. FreeSound(nr[c], a, link, TakenAt(c, held), ObjectSet(B[c], c))
  BY <1>2, <1>3 DEF CachesSound
<1>5. a \in Addr
  <2> HIDE DEF a
  <2> QED  BY <1>3, <1>4, StringFront
<1>6. Take(h, n, a, nr[c], link) /\ UNCHANGED <<wild, free, made, ready, head, end, chain>>
  BY <1>5 DEF Kmalloc
<1>7. BlocksApart(B, made, free) /\ link \in [Addr -> Int]
  BY <1>1, <1>2 DEF CachesSound, SlabTypes
<1>8. \A d \in 0 .. made - 1 : d # c =>
          FreeSound(nr[d], nf[d], link, TakenAt(d, held), ObjectSet(B[d], d))
  BY <1>2 DEF CachesSound
<1> HIDE DEF a
<1>9. /\ \A d \in 0 .. made - 1 :
               FreeSound(nr'[d], nf'[d], link', TakenAt(d, held'), ObjectSet(B[d], d))
      /\ HeldSound(held', made, cachep')
      /\ nr' \in [Cache -> Nat] /\ nf' \in [Cache -> Int] /\ link' \in [Addr -> Int]
      /\ cachep' \in [Page -> Int] /\ held' \in [Handle -> Words \cup {None}]
      /\ Heap!HeapAlloc(h, a, n)
  BY <1>1, <1>3, <1>4, <1>6, <1>7, <1>8, TakeKeeps
<1>10. SlabTypes'
  BY <1>1, <1>6, <1>9 DEF SlabTypes
<1>11. CachesSound(B)'
  BY <1>2, <1>6, <1>9 DEF CachesSound
<1>12. HeapStep
  BY <1>5, <1>9 DEF HeapStep, Heap!HeapNext
<1>13. HeldSound(held', made', cachep')
  BY <1>6, <1>9
<1>14. ~wild' /\ ready'
  BY <1>3, <1>6
<1> QED  BY <1>2, <1>10, <1>11, <1>12, <1>13, <1>14 DEF SlabInv

\* kmalloc from a cache that takes another block first
LEMMA KmallocGrowsKeeps ==
  ASSUME SlabInv, NEW h \in Handle, NEW n \in Request, KmallocGrows(h, n)
  PROVE  SlabInv' /\ HeapStep
<1> DEFINE c == Index(n)
<1>1. SlabTypes /\ HeldSound(held, made, cachep)
  BY DEF SlabInv
<1>2. PICK B : B \in [Cache -> SUBSET Page] /\ CachesSound(B)
  BY DEF SlabInv
<1>3. ready /\ ~wild /\ held[h] = None /\ c \in 0 .. made - 1 /\ c \in Cache /\ nr[c] = 0 /\ made \in 0 .. NCache
  BY <1>1, SlabAssumption DEF KmallocGrows, Asks, SlabTypes, Cache
<1>4. PICK p \in Page :
        /\ Block(p, c) \subseteq free
        /\ free' = free \ Block(p, c)
        /\ chain' = [chain EXCEPT ![end[c]] = p, ![BlockEnd(p, c)] = NoPage]
        /\ end' = [end EXCEPT ![c] = BlockEnd(p, c)]
        /\ Take(h, n, AddrOf(p), nr[c] + Objects(c), Lined(p, c))
  BY DEF KmallocGrows
<1>5. UNCHANGED <<made, ready, head, wild>>
  BY DEF KmallocGrows
<1>6. p \in Int /\ BlockEnd(p, c) \in free /\ BlockEnd(p, c) \in Page /\ p \in free
  <2>1. p \in Int
    BY Sizes, <1>3 DEF Page
  <2> QED  BY <1>1, <1>3, <1>4, <2>1, BlockEnds DEF SlabTypes
<1>7. BlocksApart(B, made, free)
  BY <1>2 DEF CachesSound
<1> DEFINE B2 == [B EXCEPT ![c] = B[c] \cup {p}]
<1>8. /\ B2 \in [Cache -> SUBSET Page] /\ B2[c] = B[c] \cup {p}
      /\ \A d \in Cache : d # c => B2[d] = B[d]
      /\ \A d \in 0 .. made - 1 : d \in Cache
  BY <1>2, <1>3, SlabAssumption DEF Cache
<1> HIDE DEF B2, c
<1>9. BlocksApart(B2, made, free')
  <2>1. \A d \in 0 .. made - 1 : \A q \in B2[d] :
             (q = p /\ d = c) \/ (d \in 0 .. made - 1 /\ q \in B[d])
    BY <1>8
  <2>2. \A d \in 0 .. made - 1 : B[d] \subseteq B2[d]
    BY <1>8
  <2>3. made <= made /\ p \in B2[c]
    BY <1>3, <1>8
  <2>4. BlocksApart(B2, made, free \ Block(p, c))
    BY <1>3, <1>4, <1>7, <2>1, <2>2, <2>3, BlockAdded
  <2> QED  BY <1>4, <2>4
<1>10. \A d \in 0 .. made - 1 :
          /\ FreeSound(nr[d], nf[d], link, TakenAt(d, held), ObjectSet(B[d], d))
          /\ Chained(d, B[d], head[d], end[d], chain)
  BY <1>2 DEF CachesSound
<1>11. FreeSound(Objects(c), AddrOf(p), Lined(p, c), TakenAt(c, held), ObjectSet(B2[c], c))
  BY <1>3, <1>4, <1>7, <1>8, <1>10, StringGrown
<1>12. ASSUME NEW d \in 0 .. made - 1, d # c
       PROVE  FreeSound(nr[d], nf[d], Lined(p, c), TakenAt(d, held), ObjectSet(B2[d], d))
  <2>1. \A a \in ObjectSet(B[d], d) : Lined(p, c)[a] = link[a]
    BY <1>3, <1>4, <1>7, LinedElsewhere
  <2>2. nr[d] \in Nat /\ B2[d] = B[d]
    BY <1>1, <1>8, <1>12 DEF SlabTypes
  <2> QED  BY <1>10, <2>1, <2>2, StringKept
<1>13. Lined(p, c) \in [Addr -> Int]
  <2>1. Size(c) \in Int /\ \A a \in Addr : a \in Int
    BY <1>3, Sizes, Times DEF Addr
  <2> QED  BY <1>1, <2>1 DEF Lined, SlabTypes
<1>14. nr[c] + Objects(c) = Objects(c) /\ Objects(c) \in Nat \ {0}
  BY <1>3, ObjectCount
<1>15. /\ \A d \in 0 .. made - 1 :
               FreeSound(nr'[d], nf'[d], link', TakenAt(d, held'), ObjectSet(B2[d], d))
       /\ HeldSound(held', made, cachep')
       /\ nr' \in [Cache -> Nat] /\ nf' \in [Cache -> Int] /\ link' \in [Addr -> Int]
       /\ cachep' \in [Page -> Int] /\ held' \in [Handle -> Words \cup {None}]
       /\ Heap!HeapAlloc(h, AddrOf(p), n)
  <2>1. Take(h, n, AddrOf(p), Objects(c), Lined(p, c))
    BY <1>4, <1>14
  <2> QED  BY <1>1, <1>3, <1>9, <1>11, <1>12, <1>13, <1>14, <2>1, TakeKeeps DEF c
<1>16. AddrOf(p) \in Addr
  <2> DEFINE a == AddrOf(p)
  <2> HIDE DEF a
  <2>1. FreeSound(Objects(c), a, Lined(p, c), TakenAt(c, held), ObjectSet(B2[c], c))
    BY <1>11 DEF a
  <2>2. a \in Addr
    BY <1>14, <2>1, StringFront
  <2> QED  BY <2>2 DEF a
<1>17. end[c] \in Page \ free /\ \E r \in B[c] : end[c] = BlockEnd(r, c)
  <2>1. PICK r \in B[c] : end[c] = BlockEnd(r, c)
    BY <1>3, <1>10, ChainedEnd
  <2>2. r \in Page /\ Block(r, c) \subseteq Page
    BY <1>3, <1>7, <2>1 DEF BlocksApart
  <2>3. end[c] \in Block(r, c)
    <3>1. r \in Int
      BY <1>3, <2>2, Sizes DEF Page
    <3> QED  BY <1>3, <2>1, <3>1, BlockEnds
  <2> QED  BY <1>3, <1>7, <2>1, <2>2, <2>3 DEF BlocksApart
<1>18. /\ chain'[end[c]] = p /\ chain'[BlockEnd(p, c)] = NoPage
       /\ \A x \in Page : x # end[c] /\ x # BlockEnd(p, c) => chain'[x] = chain[x]
       /\ chain' \in [Page -> Int]
  BY <1>1, <1>4, <1>6, <1>17 DEF SlabTypes, NoPage
<1>19. ASSUME NEW d \in 0 .. made - 1, NEW q \in B[d]
       PROVE  /\ BlockEnd(q, d) \in Page \ free
              /\ d # c \/ BlockEnd(q, d) # end[c] => chain'[BlockEnd(q, d)] = chain[BlockEnd(q, d)]
  <2>1. q \in Page /\ Block(q, d) \subseteq Page /\ Block(q, d) \cap free = {}
    BY <1>7 DEF BlocksApart
  <2>2. BlockEnd(q, d) \in Block(q, d)
    <3>1. q \in Int /\ d \in Cache
      BY <1>3, <1>8, <2>1, Sizes DEF Page
    <3> QED  BY <3>1, BlockEnds
  <2>3. d # c => BlockEnd(q, d) # end[c]
    <3>1. PICK r \in B[c] : end[c] = BlockEnd(r, c)
      BY <1>17
    <3>2. BlockEnd(r, c) \in Block(r, c)
      <4>1. r \in Int
        BY <1>3, <1>7, Sizes DEF Page, BlocksApart
      <4> QED  BY <1>3, <4>1, BlockEnds
    <3>3. d # c => Block(q, d) \cap Block(r, c) = {}
      BY <1>3, <1>7 DEF BlocksApart
    <3> QED  BY <2>2, <3>1, <3>2, <3>3
  <2> QED  BY <1>6, <1>18, <2>1, <2>2, <2>3
<1>20. ASSUME NEW d \in 0 .. made - 1 PROVE Chained(d, B2[d], head'[d], end'[d], chain')
  <2>1. CASE d = c
    <3>1. B[c] \in SUBSET Int
      BY <1>2, <1>3, Sizes DEF Page
    <3>2. p \notin B[c]
      <4>1. p \in B[c] => p \in Block(p, c)
        BY <1>3, <1>6, BlockEnds
      <4> QED  BY <1>3, <1>4, <1>6, <1>7, <4>1 DEF BlocksApart
    <3>3. Chained(c, B[c] \cup {p}, head[c], BlockEnd(p, c), chain')
      <4>1. Chained(c, B[c], head[c], end[c], chain)
        BY <1>3, <1>10
      <4>2. \A q \in B[c] : BlockEnd(q, c) # end[c] => chain'[BlockEnd(q, c)] = chain[BlockEnd(q, c)]
        BY <1>3, <1>19
      <4>3. end[c] # BlockEnd(p, c) /\ chain'[end[c]] = p /\ chain'[BlockEnd(p, c)] = NoPage
        BY <1>6, <1>17, <1>18
      <4> QED  BY <1>3, <3>1, <3>2, <4>1, <4>2, <4>3, ChainedGrown
    <3>4. end'[c] = BlockEnd(p, c) /\ head' = head
      BY <1>1, <1>3, <1>4, <1>5 DEF SlabTypes
    <3> QED  BY <1>8, <2>1, <3>3, <3>4
  <2>2. CASE d # c
    <3>1. \A q \in B[d] : chain'[BlockEnd(q, d)] = chain[BlockEnd(q, d)]
      BY <1>19, <2>2
    <3>2. Chained(d, B[d], head[d], end[d], chain')
      BY <1>8, <1>10, <3>1, ChainedKept
    <3>3. end'[d] = end[d] /\ head' = head /\ B2[d] = B[d]
      BY <1>1, <1>4, <1>5, <1>8, <2>2 DEF SlabTypes
    <3> QED  BY <3>2, <3>3
  <2> QED  BY <2>1, <2>2
<1>21. CachesSound(B2)'
  BY <1>5, <1>9, <1>15, <1>20 DEF CachesSound
<1>22. SlabTypes'
  <2>1. free' \subseteq Page /\ end' \in [Cache -> Int]
    <3>1. BlockEnd(p, c) \in Int
      BY <1>3, <1>6, Sizes DEF Page
    <3> QED  BY <1>1, <1>4, <3>1 DEF SlabTypes
  <2> QED  BY <1>1, <1>5, <1>15, <1>18, <2>1 DEF SlabTypes
<1>23. HeapStep
  BY <1>15, <1>16 DEF HeapStep, Heap!HeapNext
<1>24. HeldSound(held', made', cachep')
  BY <1>5, <1>15
<1>25. ~wild' /\ ready'
  BY <1>3, <1>5
<1> QED  BY <1>8, <1>21, <1>22, <1>23, <1>24, <1>25 DEF SlabInv

\* kfree puts the object at the front of the string of the cache it came from.
LEMMA KfreeKeeps ==
  ASSUME SlabInv, NEW h \in Handle, Kfree(h)
  PROVE  SlabInv' /\ HeapStep
<1> DEFINE a == held[h].at  c == cachep[PageOf(a)]
<1>1. SlabTypes /\ HeldSound(held, made, cachep)
  BY DEF SlabInv
<1>2. PICK B : B \in [Cache -> SUBSET Page] /\ CachesSound(B)
  BY DEF SlabInv
<1>3. ~wild /\ held[h] # None /\ held' = [held EXCEPT ![h] = None]
  BY DEF Kfree
<1>4. c = Index(held[h].want) /\ c \in 0 .. made - 1 /\ a \in ObjectSet(B[c], c) /\ a \in TakenAt(c, held)
  BY <1>1, <1>2, <1>3, TakenAreObjects DEF HeldSound
<1>5. c \in Cache /\ made \in 0 .. NCache /\ \A d \in 0 .. made - 1 : d \in Cache
  BY <1>1, <1>4, SlabAssumption DEF SlabTypes, Cache
<1>6. /\ link' = [link EXCEPT ![a] = nf[c]]
      /\ nf' = [nf EXCEPT ![c] = a]
      /\ nr' = [nr EXCEPT ![c] = @ + 1]
      /\ UNCHANGED <<wild, free, made, ready, head, end, chain, cachep>>
  BY <1>5 DEF Kfree
<1> HIDE DEF c, a
<1>7. BlocksApart(B, made, free)
  BY <1>2 DEF CachesSound
<1>8. a \in Addr
  BY <1>4, <1>5, <1>7, ObjectPlace
<1>9. \A g \in Handle : held'[g] = IF g = h THEN None ELSE held[g]
  BY <1>1, <1>3 DEF SlabTypes
<1>10. ASSUME NEW d \in 0 .. made - 1
       PROVE  FreeSound(nr'[d], nf'[d], link', TakenAt(d, held'), ObjectSet(B[d], d))
  <2>1. FreeSound(nr[d], nf[d], link, TakenAt(d, held), ObjectSet(B[d], d)) /\ nr[d] \in Nat
    BY <1>1, <1>2, <1>5 DEF CachesSound, SlabTypes
  <2>2. CASE d = c
    <3>1. TakenAt(c, held') = TakenAt(c, held) \ {a}
      <4>1. \A g \in Handle : g # h /\ held[g] # None => held[g].at # a
        BY <1>1, <1>3 DEF HeldSound, a
      <4> QED  BY <1>4, <1>9, <4>1 DEF TakenAt, a
    <3>2. link'[a] = nf[c] /\ \A b \in ObjectSet(B[c], c) \ {a} : link'[b] = link[b]
      <4>1. \A b \in ObjectSet(B[c], c) : b \in Addr
        BY <1>4, <1>5, <1>7, ObjectPlace
      <4> QED  BY <1>1, <1>6, <1>8, <4>1 DEF SlabTypes
    <3>3. FreeSound(nr[c] + 1, a, link', TakenAt(c, held'), ObjectSet(B[c], c))
      BY <1>4, <1>8, <2>1, <2>2, <3>1, <3>2, StringPush
    <3>4. nr'[c] = nr[c] + 1 /\ nf'[c] = a
      BY <1>1, <1>5, <1>6 DEF SlabTypes
    <3> QED  BY <2>2, <3>3, <3>4
  <2>3. CASE d # c
    <3>1. TakenAt(d, held') = TakenAt(d, held)
      BY <1>4, <1>9, <2>3 DEF TakenAt
    <3>2. ASSUME NEW b \in ObjectSet(B[d], d) PROVE link'[b] = link[b]
      <4>1. b # a /\ b \in Addr
        BY <1>4, <1>5, <1>7, <2>3, ObjectsApart, ObjectPlace
      <4> QED  BY <1>1, <1>6, <4>1 DEF SlabTypes
    <3>3. nr'[d] = nr[d] /\ nf'[d] = nf[d]
      BY <1>1, <1>5, <1>6, <2>3 DEF SlabTypes
    <3> QED  BY <2>1, <3>1, <3>2, <3>3, StringKept
  <2> QED  BY <2>2, <2>3
<1>11. CachesSound(B)'
  BY <1>2, <1>6, <1>10 DEF CachesSound
<1>12. HeldSound(held', made', cachep')
  BY <1>1, <1>6, <1>9 DEF HeldSound
<1>13. SlabTypes'
  <2>1. nr' \in [Cache -> Nat] /\ nf' \in [Cache -> Int] /\ link' \in [Addr -> Int]
    <3>1. a \in Int
      BY <1>5, <1>8, Sizes, Times DEF Addr
    <3>2. nf[c] \in Int /\ nr[c] + 1 \in Nat
      BY <1>1, <1>5 DEF SlabTypes
    <3> QED  BY <1>1, <1>6, <3>1, <3>2 DEF SlabTypes
  <2>2. held' \in [Handle -> Words \cup {None}]
    BY <1>1, <1>3 DEF SlabTypes
  <2> QED  BY <1>1, <1>6, <2>1, <2>2 DEF SlabTypes
<1>14. HeapStep
  BY <1>3 DEF HeapStep, Heap!HeapNext, Heap!HeapFree
<1>15. UNCHANGED <<wild, ready, made>>
  BY <1>6
<1> QED  BY <1>2, <1>11, <1>12, <1>13, <1>14, <1>15 DEF SlabInv

\* Every step keeps the invariant and is one of KHeap's, or leaves what callers
\* have alone.
LEMMA SlabStep == SlabInv /\ [Next]_vars => SlabInv' /\ HeapStep
<1> SUFFICES ASSUME SlabInv, [Next]_vars PROVE SlabInv' /\ HeapStep
  OBVIOUS
<1>1. CASE \E c \in Cache : Create(c)
  BY <1>1, CreateKeeps
<1>2. ASSUME CreateFails \/ (\E h \in Handle, n \in Request : KmallocUnmade(h, n)) \/ Wild \/ UNCHANGED vars
      PROVE  SlabInv' /\ HeapStep
  <2>1. UNCHANGED <<free, made, caches, chain, cachep, link, held>>
    BY <1>2 DEF CreateFails, KmallocUnmade, Wild, vars, caches
  <2>2. SlabTypes'
    <3>1. ready' \in BOOLEAN /\ wild' \in BOOLEAN
      BY <1>2 DEF SlabInv, SlabTypes, CreateFails, KmallocUnmade, Wild, vars
    <3> QED  BY <2>1, <3>1 DEF SlabInv, SlabTypes, caches
  <2>3. HeldSound(held, made, cachep)'
    BY <2>1 DEF SlabInv, HeldSound
  <2>4. (\E B : B \in [Cache -> SUBSET Page] /\ CachesSound(B))'
    <3>1. PICK B : B \in [Cache -> SUBSET Page] /\ CachesSound(B)
      BY DEF SlabInv
    <3>2. CachesSound(B)'
      BY <2>1, <3>1 DEF CachesSound, caches
    <3> QED  BY <3>1, <3>2
  <2>5. (made = NCache => ~wild)' /\ (~ready => ~wild /\ made # NCache)'
    <3>1. CASE CreateFails
      BY <3>1 DEF CreateFails, SlabInv
    <3>2. CASE \E h \in Handle, n \in Request : KmallocUnmade(h, n)
      <4>1. PICK h \in Handle, n \in Request : KmallocUnmade(h, n)
        BY <3>2
      <4>2. made # NCache
        BY <4>1, SlabAssumption DEF KmallocUnmade, Asks, Cache
      <4>3. ready' /\ made' = made
        BY <4>1 DEF KmallocUnmade, Asks
      <4> QED  BY <4>2, <4>3
    <3>3. CASE Wild \/ UNCHANGED vars
      BY <3>3 DEF Wild, vars, SlabInv
    <3> QED  BY <1>2, <3>1, <3>2, <3>3
  <2>6. HeapStep
    BY <2>1 DEF HeapStep
  <2> QED  BY <2>2, <2>3, <2>4, <2>5, <2>6 DEF SlabInv
<1>3. CASE \E h \in Handle, n \in Request : Kmalloc(h, n)
  BY <1>3, KmallocKeeps
<1>4. CASE \E h \in Handle, n \in Request : KmallocGrows(h, n)
  BY <1>4, KmallocGrowsKeeps
<1>5. CASE \E h \in Handle : Kfree(h)
  BY <1>5, KfreeKeeps
<1> QED  BY <1>1, <1>2, <1>3, <1>4, <1>5 DEF Next

-----------------------------------------------------------------------------
(* What the invariant says of the walks                                    *)

\* The walk along the free objects passes the objects of the string.
LEMMA FreeObjectsWalked ==
  ASSUME NEW c, NEW t, nr[c] \in Nat, StringIn(t, nr[c], nf[c], link)
  PROVE  FreeObjects(c) = Elements(t, nr[c])
<1> DEFINE n == nr[c]
           After(x) == IF x \in Addr THEN link[x] ELSE Junk
           at == FreeObject(c)
           g == [k \in 0 .. n |-> IF k < n THEN t[k] ELSE IF k = 0 THEN nf[c] ELSE After(t[k - 1])]
<1>1. /\ n \in Nat /\ t \in [0 .. n - 1 -> Addr]
      /\ n > 0 => t[0] = nf[c]
      /\ \A k \in 0 .. n - 2 : link[t[k]] = t[k + 1]
  BY DEF StringIn
<1>2. g = [k \in 0 .. n |-> IF k = 0 THEN nf[c] ELSE After(g[k - 1])]
  <2>1. ASSUME NEW k \in 0 .. n PROVE g[k] = IF k = 0 THEN nf[c] ELSE After(g[k - 1])
    <3>1. CASE k = 0
      BY <1>1, <3>1
    <3>2. CASE k # 0 /\ k < n
      <4>1. k - 1 \in 0 .. n - 2 /\ k - 1 \in 0 .. n /\ k - 1 < n /\ (k - 1) + 1 = k /\ k - 1 \in 0 .. n - 1
        BY <1>1, <3>2
      <4>2. g[k] = t[k] /\ g[k - 1] = t[k - 1] /\ t[k - 1] \in Addr
        BY <1>1, <3>2, <4>1
      <4>3. link[t[k - 1]] = t[k]
        BY <1>1, <4>1
      <4> HIDE DEF g
      <4> QED  BY <3>2, <4>2, <4>3
    <3>3. CASE k # 0 /\ ~(k < n)
      <4>1. k - 1 \in 0 .. n /\ k - 1 < n
        BY <1>1, <3>3
      <4>2. g[k] = After(t[k - 1]) /\ g[k - 1] = t[k - 1]
        BY <3>3, <4>1
      <4> HIDE DEF g
      <4> QED  BY <3>3, <4>2
    <3> QED  BY <3>1, <3>2, <3>3
  <2>2. g = [k \in 0 .. n |-> g[k]]
    OBVIOUS
  <2> HIDE DEF g
  <2> QED  BY <2>1, <2>2
<1>3. at = [k \in 0 .. n |-> IF k = 0 THEN nf[c] ELSE After(at[k - 1])]
  <2>1. at = CHOOSE f : f = [k \in 0 .. n |-> IF k = 0 THEN nf[c] ELSE After(f[k - 1])]
    BY DEF FreeObject
  <2>2. \E f : f = [k \in 0 .. n |-> IF k = 0 THEN nf[c] ELSE After(f[k - 1])]
    BY <1>2
  <2> HIDE DEF at
  <2> QED  BY <2>1, <2>2
<1> HIDE DEF at, g, After
<1>4. at[0] = nf[c] /\ \A k \in 1 .. n : at[k] = After(at[k - 1])
  BY <1>1, <1>3
<1>5. ASSUME NEW k \in 0 .. n - 1 PROVE at[k] = t[k]
  <2> DEFINE S == {j \in Nat : j < n /\ at[j] # t[j]}
  <2> SUFFICES ASSUME S # {} PROVE FALSE
    BY <1>1
  <2>1. PICK j \in S : \A i \in S : j <= i
    BY Smallest
  <2>2. j # 0
    BY <1>1, <1>4, <2>1
  <2>3. j - 1 \in Nat /\ j - 1 < n /\ j - 1 \in 0 .. n - 2 /\ j \in 1 .. n /\ (j - 1) + 1 = j /\ j - 1 \in 0 .. n - 1
    BY <1>1, <2>1, <2>2
  <2>4. at[j - 1] = t[j - 1]
    BY <2>1, <2>3
  <2>5. at[j] = link[t[j - 1]]
    BY <1>1, <1>4, <2>3, <2>4 DEF After
  <2> QED  BY <1>1, <2>1, <2>3, <2>5
<1>6. FreeObjects(c) = {at[k] : k \in 0 .. n - 1}
  BY DEF FreeObjects, at
<1> QED  BY <1>5, <1>6 DEF Elements

\* The walk along the blocks passes the first pages of the string.
LEMMA BlocksWalked ==
  ASSUME NEW c \in Cache, NEW D, NEW m, NEW b, ChainIn(m, b, c, D, head[c], end[c], chain),
         D \subseteq Page, \A p \in D : BlockEnd(p, c) \in Page
  PROVE  BlocksOf(c) = D
<1> DEFINE After(x) == IF x \in Page /\ BlockEnd(x, c) \in Page THEN chain[BlockEnd(x, c)] ELSE NoPage
           at == FirstPages(c)
           g == [k \in 0 .. NPages |-> IF k < m THEN b[k] ELSE NoPage]
<1>1. /\ m \in Nat \ {0}
      /\ b \in [0 .. m - 1 -> D]
      /\ \A i, j \in 0 .. m - 1 : b[i] = b[j] => i = j
      /\ \A p \in D : \E k \in 0 .. m - 1 : b[k] = p
      /\ b[0] = head[c]
      /\ \A k \in 0 .. m - 2 : chain[BlockEnd(b[k], c)] = b[k + 1]
      /\ BlockEnd(b[m - 1], c) = end[c]
      /\ chain[end[c]] = NoPage
  BY DEF ChainIn
<1>2. NPages \in Nat /\ NoPage \notin Page
  BY Sizes DEF NoPage, Page
<1>3. m <= NPages
  <2>1. b \in Injection(0 .. m - 1, Page)
    BY <1>1 DEF Injection, IsInjective
  <2>2. IsFiniteSet(Page) /\ Cardinality(Page) = NPages
    <3>1. 0 \in Int /\ NPages - 1 \in Int
      BY <1>2
    <3> QED  BY <1>2, <3>1, FS_Interval DEF Page
  <2>3. Cardinality(0 .. m - 1) = m
    <3>1. 0 \in Int /\ m - 1 \in Int /\ ~(0 > m - 1) /\ (m - 1) - 0 + 1 = m
      BY <1>1
    <3> QED  BY <3>1, FS_Interval
  <2> QED  BY <2>1, <2>2, <2>3, FS_Injection
<1>4. \A k \in 0 .. m - 1 : b[k] \in D /\ After(b[k]) = chain[BlockEnd(b[k], c)]
  BY <1>1
<1>5. After(NoPage) = NoPage
  BY <1>2
<1> HIDE DEF After
<1>6. g = [k \in 0 .. NPages |-> IF k = 0 THEN head[c] ELSE After(g[k - 1])]
  <2>1. ASSUME NEW k \in 0 .. NPages PROVE g[k] = IF k = 0 THEN head[c] ELSE After(g[k - 1])
    <3>1. CASE k = 0
      BY <1>1, <3>1
    <3>2. CASE k # 0 /\ k < m
      <4>1. k - 1 \in 0 .. m - 2 /\ k - 1 \in 0 .. NPages /\ k - 1 < m /\ (k - 1) + 1 = k /\ k - 1 \in 0 .. m - 1
        BY <1>1, <1>2, <3>2
      <4>2. g[k] = b[k] /\ g[k - 1] = b[k - 1]
        BY <3>2, <4>1
      <4>3. After(b[k - 1]) = b[k]
        BY <1>1, <1>4, <4>1
      <4> HIDE DEF g
      <4> QED  BY <3>2, <4>2, <4>3
    <3>3. CASE k = m
      <4>1. k - 1 \in 0 .. NPages /\ k - 1 < m /\ k - 1 = m - 1 /\ m - 1 \in 0 .. m - 1 /\ k # 0
        BY <1>1, <1>2, <3>3
      <4>2. g[k] = NoPage /\ g[k - 1] = b[m - 1]
        BY <3>3, <4>1, <1>1
      <4>3. After(b[m - 1]) = NoPage
        BY <1>1, <1>4, <4>1
      <4> HIDE DEF g
      <4> QED  BY <4>1, <4>2, <4>3
    <3>4. CASE k > m
      <4>1. k - 1 \in 0 .. NPages /\ ~(k - 1 < m) /\ ~(k < m) /\ k # 0
        BY <1>1, <1>2, <3>4
      <4>2. g[k] = NoPage /\ g[k - 1] = NoPage
        BY <4>1
      <4> HIDE DEF g
      <4> QED  BY <1>5, <4>1, <4>2
    <3>5. k = 0 \/ (k # 0 /\ k < m) \/ k = m \/ k > m
      BY <1>1
    <3> HIDE DEF g
    <3> QED  BY <3>1, <3>2, <3>3, <3>4, <3>5
  <2>2. g = [k \in 0 .. NPages |-> g[k]]
    OBVIOUS
  <2> HIDE DEF g
  <2> QED  BY <2>1, <2>2
<1>7. at = [k \in 0 .. NPages |-> IF k = 0 THEN head[c] ELSE After(at[k - 1])]
  <2>1. at = CHOOSE f : f = [k \in 0 .. NPages |-> IF k = 0 THEN head[c] ELSE After(f[k - 1])]
    BY DEF FirstPages, After
  <2>2. \E f : f = [k \in 0 .. NPages |-> IF k = 0 THEN head[c] ELSE After(f[k - 1])]
    BY <1>6
  <2> HIDE DEF at
  <2> QED  BY <2>1, <2>2
<1>8. BlocksOf(c) = {at[k] : k \in 0 .. NPages} \ {NoPage}
  BY DEF BlocksOf, at
<1>9. /\ g[0] = head[c] /\ at[0] = head[c]
      /\ \A k \in 1 .. NPages : g[k] = After(g[k - 1]) /\ at[k] = After(at[k - 1])
  <2> HIDE DEF g, at
  <2> QED  BY <1>2, <1>6, <1>7
<1>10. \A k \in 0 .. NPages : g[k] = IF k < m THEN b[k] ELSE NoPage
  OBVIOUS
<1> HIDE DEF at, g
<1>11. ASSUME NEW k \in 0 .. NPages PROVE at[k] = g[k]
  <2> DEFINE S == {j \in Nat : j <= NPages /\ at[j] # g[j]}
  <2> SUFFICES ASSUME S # {} PROVE FALSE
    BY <1>2
  <2>1. PICK j \in S : \A i \in S : j <= i
    BY Smallest
  <2>2. j # 0
    BY <1>9, <2>1
  <2>3. j - 1 \in Nat /\ j - 1 <= NPages /\ j \in 1 .. NPages /\ j - 1 < j
    BY <1>2, <2>1, <2>2
  <2>4. at[j - 1] = g[j - 1]
    BY <2>1, <2>3
  <2> QED  BY <1>9, <2>1, <2>3, <2>4
<1>12. ASSUME NEW p \in D PROVE p \in BlocksOf(c)
  <2>1. PICK k \in 0 .. m - 1 : b[k] = p
    BY <1>1
  <2>2. k \in 0 .. NPages /\ k < m /\ at[k] = p /\ p # NoPage
    BY <1>1, <1>2, <1>3, <1>10, <1>11, <2>1
  <2> QED  BY <1>8, <2>2
<1>13. ASSUME NEW k \in 0 .. NPages, at[k] # NoPage PROVE at[k] \in D
  <2>1. k < m /\ at[k] = b[k]
    BY <1>10, <1>11, <1>13
  <2>2. k \in 0 .. m - 1
    BY <1>1, <2>1
  <2> QED  BY <1>1, <2>1, <2>2
<1> QED  BY <1>8, <1>12, <1>13

-----------------------------------------------------------------------------
(* Theorems                                                                *)

\* In every state the invariant holds.
LEMMA SlabSound == Spec => []SlabInv
<1>1. SlabInv /\ [Next]_vars => SlabInv'
  BY SlabStep
<1> QED  BY SlabInit, <1>1, PTL DEF Spec

\* The cache a page names is the one its objects came from, for every number of
\* caches, pages and handles, so that kfree gives an object back to its own cache
\* (mem.c:330, 366).
THEOREM KfreeFindsItsCache == Spec => []KfreeFindsCache
<1>1. SlabInv => KfreeFindsCache
  BY DEF SlabInv, HeldSound, KfreeFindsCache
<1> QED  BY SlabSound, <1>1, PTL

\* Every object of a cache is on its string once or with one caller, and once all
\* caches are made no pointer that nobody has set is followed (mem.c:248-331).
THEOREM ObjectsAlwaysAccounted == Spec => []ObjectsAccounted
<1>1. SlabInv => ObjectsAccounted
  <2> SUFFICES ASSUME SlabInv PROVE ObjectsAccounted
    OBVIOUS
  <2>1. SlabTypes /\ HeldSound(held, made, cachep) /\ (made = NCache => ~wild)
    BY DEF SlabInv
  <2>2. PICK B : B \in [Cache -> SUBSET Page] /\ CachesSound(B)
    BY DEF SlabInv
  <2>3. ASSUME NEW c \in 0 .. made - 1
        PROVE  /\ Cardinality(FreeObjects(c)) = nr[c]
               /\ FreeObjects(c) \cap {held[h].at : h \in Taken(c)} = {}
               /\ FreeObjects(c) \cup {held[h].at : h \in Taken(c)} = ObjectsOf(c)
               /\ \A g, h \in Taken(c) : held[g].at = held[h].at => g = h
    <3>1. c \in Cache /\ nr[c] \in Nat
      <4>1. c \in Cache
        BY <2>1, SlabAssumption DEF SlabTypes, Cache
      <4> QED  BY <2>1, <4>1 DEF SlabTypes
    <3>2. PICK t : /\ StringIn(t, nr[c], nf[c], link)
                   /\ Elements(t, nr[c]) \cap TakenAt(c, held) = {}
                   /\ Elements(t, nr[c]) \cup TakenAt(c, held) = ObjectSet(B[c], c)
      BY <2>2 DEF CachesSound, FreeSound
    <3>3. FreeObjects(c) = Elements(t, nr[c])
      BY <3>1, <3>2, FreeObjectsWalked
    <3>4. {held[h].at : h \in Taken(c)} = TakenAt(c, held)
      BY DEF Taken, TakenAt
    <3>5. BlocksOf(c) = B[c]
      <4>1. PICK m, b : ChainIn(m, b, c, B[c], head[c], end[c], chain)
        BY <2>2 DEF CachesSound, Chained
      <4>2. ASSUME NEW p \in B[c] PROVE p \in Page /\ BlockEnd(p, c) \in Page
        <5>1. p \in Page /\ Block(p, c) \subseteq Page
          BY <2>2 DEF CachesSound, BlocksApart
        <5>2. p \in Int
          BY <3>1, <5>1, Sizes DEF Page
        <5> QED  BY <3>1, <5>1, <5>2, BlockEnds
      <4> QED  BY <3>1, <4>1, <4>2, BlocksWalked
    <3>6. ObjectsOf(c) = ObjectSet(B[c], c)
      BY <3>5 DEF ObjectsOf, ObjectSet, ObjectAt
    <3>7. Cardinality(Elements(t, nr[c])) = nr[c]
      <4> DEFINE n == nr[c]
      <4>1. t \in [0 .. n - 1 -> Addr] /\ \A i, j \in 0 .. n - 1 : t[i] = t[j] => i = j
        BY <3>2 DEF StringIn
      <4>2. IsFiniteSet(0 .. n - 1) /\ Cardinality(0 .. n - 1) = n
        <5>1. 0 \in Int /\ n - 1 \in Int /\ (IF 0 > n - 1 THEN 0 ELSE (n - 1) - 0 + 1) = n
          BY <3>1
        <5> QED  BY <5>1, FS_Interval
      <4> HIDE DEF n
      <4>3. t \in Bijection(0 .. n - 1, Elements(t, n))
        BY <4>1 DEF Bijection, Injection, Surjection, IsInjective, Elements
      <4> QED  BY <4>2, <4>3, FS_Bijection DEF ExistsBijection, n
    <3>8. \A g, h \in Taken(c) : held[g].at = held[h].at => g = h
      BY <2>1 DEF HeldSound, Taken
    <3> QED  BY <3>2, <3>3, <3>4, <3>6, <3>7, <3>8
  <2> QED  BY <2>1, <2>3 DEF ObjectsAccounted
<1> QED  BY SlabSound, <1>1, PTL

\* The string of blocks of every cache holds each page the cache has taken, once,
\* and ends at end_page with a NULL link (mem.c:274-281, 311-324).
THEOREM BlocksAlwaysStrung == Spec => []BlocksStrung
<1>1. SlabInv => BlocksStrung
  <2> SUFFICES ASSUME SlabInv PROVE BlocksStrung
    OBVIOUS
  <2>1. PICK B : B \in [Cache -> SUBSET Page] /\ CachesSound(B)
    BY DEF SlabInv
  <2>2. ASSUME NEW c \in 0 .. made - 1
        PROVE  /\ BlocksOf(c) = B[c]
               /\ \E p \in B[c] : BlockEnd(p, c) = end[c] /\ chain[end[c]] = NoPage
    <3>1. c \in Cache
      BY SlabAssumption DEF SlabInv, SlabTypes, Cache
    <3>2. PICK m, b : ChainIn(m, b, c, B[c], head[c], end[c], chain)
      BY <2>1 DEF CachesSound, Chained
    <3>3. ASSUME NEW p \in B[c] PROVE p \in Page /\ BlockEnd(p, c) \in Page
      <4>1. p \in Page /\ Block(p, c) \subseteq Page
        BY <2>1 DEF CachesSound, BlocksApart
      <4>2. p \in Int
        BY <3>1, <4>1, Sizes DEF Page
      <4> QED  BY <3>1, <4>1, <4>2, BlockEnds
    <3>4. BlocksOf(c) = B[c]
      BY <3>1, <3>2, <3>3, BlocksWalked
    <3>5. m - 1 \in 0 .. m - 1 /\ b \in [0 .. m - 1 -> B[c]] /\ BlockEnd(b[m - 1], c) = end[c] /\ chain[end[c]] = NoPage
      BY <3>2 DEF ChainIn
    <3> QED  BY <3>4, <3>5
  <2>3. BlocksApart(B, made, free)
    BY <2>1 DEF CachesSound
  <2>4. \A c, d \in 0 .. made - 1 : \A p \in BlocksOf(c), q \in BlocksOf(d) :
          <<p, c>> # <<q, d>> => Block(p, c) \cap Block(q, d) = {}
    BY <2>2, <2>3 DEF BlocksApart
  <2>5. Page \ free = UNION {UNION {Block(p, c) : p \in BlocksOf(c)} : c \in 0 .. made - 1}
    <3> DEFINE U == UNION {UNION {Block(p, c) : p \in BlocksOf(c)} : c \in 0 .. made - 1}
    <3>1. \A x : x \in U <=> \E c \in 0 .. made - 1 : \E p \in B[c] : x \in Block(p, c)
      <4>1. \A x : x \in U <=> \E c \in 0 .. made - 1 : x \in UNION {Block(p, c) : p \in BlocksOf(c)}
        OBVIOUS
      <4>2. \A c \in 0 .. made - 1 : \A x : x \in UNION {Block(p, c) : p \in BlocksOf(c)} <=> \E p \in B[c] : x \in Block(p, c)
        BY <2>2
      <4> HIDE DEF U
      <4> QED  BY <4>1, <4>2
    <3> HIDE DEF U
    <3>2. \A c \in 0 .. made - 1 : \A p \in B[c] : Block(p, c) \subseteq Page
      BY <2>3 DEF BlocksApart
    <3>3. \A x \in Page : x \notin free <=> x \in U
      BY <2>3, <3>1 DEF BlocksApart
    <3>4. \A x \in U : x \in Page
      BY <3>1, <3>2
    <3>5. Page \ free = U
      BY <3>3, <3>4
    <3> QED  BY <3>5 DEF U
  <2> QED  BY <2>2, <2>4, <2>5 DEF BlocksStrung
<1> QED  BY SlabSound, <1>1, PTL

\* kmalloc and kfree implement KHeap: the memory a caller is given is its own
\* until it frees it, whatever the sizes, the callers and the order of calls
\* (mem.c:300-369).
THEOREM SlabIsHeap == Spec => HeapImplemented
<1>1. Init => Heap!HeapInit
  BY DEF Init, Heap!HeapInit
<1>2. SlabInv /\ [Next]_vars => [Heap!HeapNext]_held
  BY SlabStep DEF HeapStep
<1> QED  BY <1>1, <1>2, SlabSound, PTL DEF Spec, HeapImplemented, Heap!HeapSpec
=============================================================================
