--------------------------- MODULE Ext2DataProofs ---------------------------
(***************************************************************************)
(* Proofs about the bytes do_rdwt of fs/simple_ext2.c moves, for any       *)
(* number of files and descriptors and any sizes of sectors and files: a   *)
(* write within the sectors of its file lands where it should and nowhere  *)
(* else (WritesLand), a file is as long as what was written to it          *)
(* (SizeTrue), and a read returns the beginning of that (ReadBack).        *)
(*                                                                         *)
(* The properties speak of the moments between the calls.  The invariant   *)
(* DataInv says what is true after each turn of the loop: the position,    *)
(* which do_rdwt takes apart once into a sector and an offset and then     *)
(* moves on in both forms, is the same in both as long as bytes are left   *)
(* (Aligned), the bytes that are left are the only ones not yet on the     *)
(* card (Due), and the turn after the last byte, which reads and writes    *)
(* back one sector more, has none.  That two files never meet in a sector  *)
(* is arithmetic: Places of different bytes are different (PlaceOwn).      *)
(***************************************************************************)
EXTENDS Ext2Data, SequenceTheorems, TLAPS

-----------------------------------------------------------------------------
(* Arithmetic                                                              *)

\* What is known of products
LEMMA Times ==
  /\ \A i, j, n \in Nat : i < j => i * n + n <= j * n
  /\ \A i, n \in Nat : i * n \in Nat
  /\ \A i, n \in Nat : (i + 1) * n = i * n + n
  BY SMT

\* A position is a number of whole sectors and a rest, in one way only.
Sec(p) == p \div S
Off(p) == p % S

LEMMA Divided ==
  ASSUME NEW a \in Nat
  PROVE  Sec(a) \in Nat /\ Off(a) \in Offset /\ a = Sec(a) * S + Off(a)
<1>1. S \in Nat \ {0}
  BY Ext2DataAssumption
<1>2. a \div S \in Nat /\ a % S \in Nat /\ a % S < S
  BY <1>1, SMT
<1>3. a % S = a - S * (a \div S)
  BY <1>1, SMT
<1>4. Sec(a) \in Nat /\ Off(a) \in Nat /\ Off(a) < S /\ Off(a) = a - S * Sec(a)
  BY <1>2, <1>3, Zenon DEF Sec, Off
<1>5. S * Sec(a) = Sec(a) * S /\ Sec(a) * S \in Nat
  BY <1>1, <1>4, SMT
<1>6. Off(a) = a - Sec(a) * S
  BY <1>4, <1>5, Zenon
<1> DEFINE b == Sec(a) * S
<1> HIDE DEF b
<1>7. b \in Nat /\ Off(a) = a - b
  BY <1>5, <1>6 DEF b
<1>8. a = b + Off(a)
  BY <1>7
<1>9. a = Sec(a) * S + Off(a)
  BY <1>8 DEF b
<1>10. Off(a) \in 0 .. S - 1
  BY <1>1, <1>4
<1> QED  BY <1>4, <1>9, <1>10 DEF Offset

LEMMA OneWay ==
  ASSUME NEW k \in Nat, NEW l \in Nat, NEW r \in Offset, NEW u \in Offset,
         k * S + r = l * S + u
  PROVE  k = l /\ r = u
<1>1. S \in Nat \ {0} /\ r \in Nat /\ u \in Nat /\ r < S /\ u < S
  BY Ext2DataAssumption DEF Offset
<1> DEFINE a == k * S  b == l * S
<1>2. a \in Nat /\ b \in Nat
  BY <1>1, Times
<1>3. (k < l => a + S <= b) /\ (l < k => b + S <= a)
  BY <1>1, Times
<1>4. a + r = b + u
  OBVIOUS
<1> HIDE DEF a, b
<1>5. k = l
  BY <1>1, <1>2, <1>3, <1>4
<1>6. a = b
  BY <1>5 DEF a, b
<1> QED  BY <1>1, <1>2, <1>4, <1>5, <1>6

\* The sectors of a file are its own.
LEMMA StartsApart ==
  /\ \A f \in File : Start[f] \in Nat /\ Start[f] + FileSects <= Len(Order) * FileSects
  /\ \A f, g \in File : f # g => \/ Start[f] + FileSects <= Start[g]
                                 \/ Start[g] + FileSects <= Start[f]
  /\ FileSects \in Nat \ {0} /\ Len(Order) * FileSects \in Nat
<1> DEFINE n == FileSects  at(f) == CHOOSE i \in DOMAIN Order : Order[i] = f
<1>1. n \in Nat \ {0} /\ Len(Order) \in Nat /\ DOMAIN Order = 1 .. Len(Order)
  BY Ext2DataAssumption
<1>2. \A f \in File : at(f) \in 1 .. Len(Order) /\ Order[at(f)] = f
  <2> SUFFICES ASSUME NEW f \in File PROVE at(f) \in 1 .. Len(Order) /\ Order[at(f)] = f
    OBVIOUS
  <2>1. \E i \in DOMAIN Order : Order[i] = f
    BY Ext2DataAssumption DEF ToSet
  <2> QED  BY <1>1, <2>1
<1>3. \A f \in File : Start[f] = n * (at(f) - 1)
  BY DEF Start
<1> HIDE DEF n, at
<1>4. \A f \in File : at(f) - 1 \in Nat /\ at(f) \in Nat /\ at(f) - 1 < Len(Order)
  BY <1>1, <1>2
<1>5. \A f \in File : Start[f] = (at(f) - 1) * n
  BY <1>1, <1>3, <1>4, SMT
<1>6. \A f \in File : Start[f] \in Nat /\ Start[f] + n <= Len(Order) * n
  BY <1>1, <1>4, <1>5, Times
<1>7. ASSUME NEW f \in File, NEW g \in File, f # g
      PROVE  Start[f] + n <= Start[g] \/ Start[g] + n <= Start[f]
  <2>1. at(f) # at(g)
    BY <1>2, <1>7
  <2> DEFINE a == at(f) - 1  b == at(g) - 1
  <2>2. a \in Nat /\ b \in Nat /\ (a < b \/ b < a)
    BY <1>4, <2>1
  <2>3. Start[f] = a * n /\ Start[g] = b * n
    BY <1>5
  <2> HIDE DEF a, b
  <2>4. (a < b => a * n + n <= b * n) /\ (b < a => b * n + n <= a * n)
    BY <1>1, <2>2, Times
  <2> QED  BY <2>2, <2>3, <2>4
<1> QED  BY <1>1, <1>6, <1>7, Times DEF n

-----------------------------------------------------------------------------
(* Where a byte belongs                                                    *)

\* The sector and the offset in it of a file's p-th byte
Place(f, p) == Start[f] + Sec(p)
At(dk, f, p) == dk[Place(f, p)][Off(p)]

LEMMA Sizes == S \in Nat \ {0} /\ FileSects \in Nat \ {0} /\ Cap \in Nat
  BY Ext2DataAssumption, Times DEF Cap

LEMMA PlaceTrue ==
  ASSUME NEW f \in File, NEW p \in 0 .. Cap - 1
  PROVE  /\ Sec(p) \in Nat /\ Sec(p) < FileSects /\ Off(p) \in Offset
         /\ Place(f, p) \in Nat /\ Place(f, p) \in Sect
         /\ p = (Place(f, p) - Start[f]) * S + Off(p)
<1>1. p \in Nat /\ p < Cap
  BY Sizes
<1>2. Sec(p) \in Nat /\ Off(p) \in Offset /\ p = Sec(p) * S + Off(p)
  BY <1>1, Divided
<1>3. Sec(p) < FileSects
  <2> DEFINE a == Sec(p) * S
  <2>1. (FileSects < Sec(p) => Cap + S <= a) /\ (FileSects = Sec(p) => Cap = a) /\ a \in Nat
    BY <1>2, Sizes, Times DEF Cap
  <2> HIDE DEF a
  <2>2. p = a + Off(p) /\ Off(p) \in Nat
    BY <1>2, Sizes DEF a, Offset
  <2> QED  BY <1>1, <1>2, <2>1, <2>2, Sizes
<1>4. Place(f, p) = Start[f] + Sec(p)
  BY DEF Place
<1>5. Place(f, p) \in Nat /\ Place(f, p) \in Sect /\ Place(f, p) - Start[f] = Sec(p)
  BY <1>2, <1>3, <1>4, StartsApart DEF Sect
<1> QED  BY <1>2, <1>3, <1>5

LEMMA PlaceOwn ==
  ASSUME NEW f \in File, NEW p \in 0 .. Cap - 1, NEW g \in File, NEW q \in 0 .. Cap - 1,
         Place(f, p) = Place(g, q)
  PROVE  f = g /\ (Off(p) = Off(q) => p = q)
<1>1. Sec(p) \in Nat /\ Sec(p) < FileSects /\ Sec(q) \in Nat /\ Sec(q) < FileSects
  BY PlaceTrue
<1>2. Start[f] + Sec(p) = Start[g] + Sec(q)
  BY DEF Place
<1>3. f = g
  BY <1>1, <1>2, StartsApart
<1>4. p = (Place(f, p) - Start[f]) * S + Off(p) /\ q = (Place(g, q) - Start[g]) * S + Off(q)
  BY PlaceTrue
<1> QED  BY <1>3, <1>4

\* The byte at offset r of the k-th sector of a file
LEMMA PlaceAt ==
  ASSUME NEW f \in File, NEW k \in Nat, NEW r \in Offset, NEW p \in 0 .. Cap - 1,
         p = k * S + r
  PROVE  Place(f, p) = Start[f] + k /\ Off(p) = r
<1>1. p \in Nat
  BY Sizes
<1>2. Sec(p) \in Nat /\ Off(p) \in Offset /\ p = Sec(p) * S + Off(p)
  BY <1>1, Divided
<1>3. Sec(p) = k /\ Off(p) = r
  BY <1>2, OneWay
<1> QED  BY <1>3 DEF Place

-----------------------------------------------------------------------------
(* The invariant                                                           *)

\* The position the call under way has come to, counted as it counts: lines 1034
\* and 937.
Reached == pos[call.d] + size[file[call.d]]

\* The locals of do_rdwt
Locals == [at : {"idle", "read", "write"}, d : Desc \cup {None}, off : Offset,
           i : Nat, max : Nat, left : Nat, done : Nat]

Types ==
    /\ disk \in [Sect -> [Offset -> Int]]
    /\ size \in [File -> Nat] /\ pos \in [Desc -> Nat]
    /\ file \in [Desc -> File \cup {None}]
    /\ call \in Locals
    /\ call.at # "idle" => call.d \in Desc /\ file[call.d] \in File \ {None}
    /\ image \in [File -> [0 .. Cap - 1 -> Int]]
    /\ content \in [File -> Seq(Int)]
    /\ writes \in Nat

\* The next byte, if there is one, belongs at c.off of sector c.i, and c.max is
\* the sector of the byte behind the last one; q is Reached.
Aligned(c, f, q) ==
    /\ c.left > 0 => c.i >= Start[f] /\ q = (c.i - Start[f]) * S + c.off
    /\ q + c.left <= Cap
    /\ c.max >= Start[f]
    /\ (c.max - Start[f]) * S <= q + c.left
    /\ q + c.left < (c.max - Start[f]) * S + S

\* What is not on the card yet is what is left of the caller's bytes.
Due(dk, im, w, c, f, q) ==
    \A g \in File, p \in 0 .. Cap - 1 :
        IF g = f /\ p \in q .. q + c.left - 1
        THEN im[g][p] = Byte(w, c.done + p - q)
        ELSE At(dk, g, p) = im[g][p]

LandInv ==
    "past" \notin breach =>
        IF call.at = "write"
        THEN /\ Aligned(call, file[call.d], Reached)
             /\ Due(disk, image, writes, call, file[call.d], Reached)
        ELSE Landed

\* What a file's sectors ought to hold begins with what was written to it.
Begun(im, co) ==
    \A f \in File : /\ Len(co[f]) <= Cap
                    /\ \A p \in 0 .. Len(co[f]) - 1 : im[f][p] = co[f][p + 1]

\* A write of nothing, or the first write to its file through a descriptor that
\* has not moved before
FirstWrite(sz, co, c, at) ==
    \/ c.left = 0 /\ c.done = 0 /\ sz = Len(co)
    \/ sz = 0 /\ at = c.done /\ Len(co) = c.done + c.left

\* The read has its one turn still to come, or behind it.
OneRead(sz, co, c, at, start, g) ==
    \/ /\ c.done = 0 /\ at = 0 /\ g = <<>>
       /\ c.i = start + Sec(sz) /\ c.max = c.i /\ c.off = Off(sz)
       /\ c.left <= sz /\ c.left + sz <= S
    \/ c.i = c.max + 1 /\ c.left = 0 /\ g = SubSeq(co, 1, c.done)

SizeInv ==
    breach = {} =>
        /\ Begun(image, content)
        /\ \A d \in Desc : file[d] # None => pos[d] <= Len(content[file[d]])
        /\ \A f \in File : ~(call.at = "write" /\ f = file[call.d]) => size[f] = Len(content[f])
        /\ call.at = "write" =>
              FirstWrite(size[file[call.d]], content[file[call.d]], call, pos[call.d])
        /\ call.at = "read" =>
              OneRead(size[file[call.d]], content[file[call.d]], call, pos[call.d],
                      Start[file[call.d]], got)

DataInv == Types /\ LandInv /\ SizeInv

-----------------------------------------------------------------------------
(* What a call does to its locals                                          *)

LEMMA PosTrue ==
  ASSUME Types, NEW d \in Desc, file[d] # None
  PROVE  file[d] \in File /\ pos[d] \in Nat /\ size[file[d]] \in Nat /\ Pos(d) \in Nat
         /\ Pos(d) = pos[d] + size[file[d]]
  BY DEF Types, Pos

LEMMA Lessers == \A a, b \in Nat : /\ Lesser(a, b) \in Nat /\ Lesser(a, b) <= a /\ Lesser(a, b) <= b
                                  /\ (Lesser(a, b) = a \/ Lesser(a, b) = b)
                                  /\ (a <= b => Lesser(a, b) = a) /\ (b <= a => Lesser(a, b) = b)
  BY DEF Lesser

\* Lines 976-994: it begins with the sector and the offset of its position.
LEMMA Entered ==
  ASSUME Types, NEW d \in Desc, file[d] # None, NEW rw \in {"read", "write"},
         NEW n \in Nat, NEW end \in Nat, Enter(rw, d, n, end)
  PROVE  /\ call' \in Locals
         /\ call'.at = rw /\ call'.d = d /\ call'.off = Off(Pos(d))
         /\ call'.i = Start[file[d]] + Sec(Pos(d)) /\ call'.max = Start[file[d]] + Sec(end)
         /\ call'.left = n /\ call'.done = 0
<1> DEFINE q == Pos(d)  s == Start[file[d]]
<1>1. file[d] \in File /\ q \in Nat
  BY PosTrue
<1>2. Sec(q) \in Nat /\ Off(q) \in Offset /\ Sec(end) \in Nat
  BY <1>1, Divided
<1>3. call' = [at |-> rw, d |-> d, off |-> Off(q), i |-> s + Sec(q),
               max |-> s + Sec(end), left |-> n, done |-> 0]
  BY Zenon DEF Enter, Off, Sec
<1>4. s + Sec(q) \in Nat /\ s + Sec(end) \in Nat
  BY <1>1, <1>2, StartsApart
<1> HIDE DEF q, s
<1>5. call' \in Locals
  BY <1>2, <1>3, <1>4 DEF Locals
<1> QED  BY <1>3, <1>5 DEF q, s

\* Line 999: a turn moves bytes up to the end of the sector or of the call.
LEMMA PieceTrue ==
  ASSUME NEW c \in Locals
  PROVE  /\ Piece(c) \in Nat /\ Piece(c) <= c.left /\ Piece(c) <= S - c.off
         /\ (Piece(c) = c.left \/ Piece(c) = S - c.off)
<1>1. c.left \in Nat /\ S - c.off \in Nat
  BY Sizes DEF Locals, Offset
<1> QED  BY <1>1, Lessers DEF Piece

\* Lines 1033-1036: the two forms of the position move on together.
LEMMA Turned ==
  ASSUME Types, call.at # "idle", NextTurn
  PROVE  /\ call' \in Locals
         /\ call'.at = call.at /\ call'.d = call.d /\ call'.off = 0
         /\ call'.i = call.i + 1 /\ call'.max = call.max
         /\ call'.left = call.left - Piece(call) /\ call'.done = call.done + Piece(call)
         /\ pos' \in [Desc -> Nat]
         /\ pos'[call.d] = pos[call.d] + Piece(call)
         /\ \A d \in Desc : d # call.d => pos'[d] = pos[d]
<1>1. call \in Locals /\ call.d \in Desc /\ pos \in [Desc -> Nat]
  BY DEF Types
<1>2. Piece(call) \in Nat /\ Piece(call) <= call.left
  BY <1>1, PieceTrue
<1> DEFINE k == Piece(call)
<1>3. /\ call' = [call EXCEPT !.off = 0, !.i = @ + 1, !.left = @ - k, !.done = @ + k]
      /\ pos' = [pos EXCEPT ![call.d] = @ + k]
  BY DEF NextTurn
<1> HIDE DEF k
<1>4. k \in Nat /\ k <= call.left
  BY <1>2 DEF k
<1>5. 0 \in Offset
  BY Sizes DEF Offset
<1>6. call' \in Locals
  <2>1. call' = [at |-> call.at, d |-> call.d, off |-> 0, i |-> call.i + 1, max |-> call.max,
                 left |-> call.left - k, done |-> call.done + k]
    BY <1>1, <1>3 DEF Locals
  <2>2. /\ call.at \in {"idle", "read", "write"} /\ call.d \in Desc \cup {None}
        /\ call.i + 1 \in Nat /\ call.max \in Nat
        /\ call.left - k \in Nat /\ call.done + k \in Nat
    BY <1>1, <1>4 DEF Locals
  <2> QED  BY <1>5, <2>1, <2>2 DEF Locals
<1>7. /\ call'.at = call.at /\ call'.d = call.d /\ call'.off = 0
      /\ call'.i = call.i + 1 /\ call'.max = call.max
      /\ call'.left = call.left - k /\ call'.done = call.done + k
  BY <1>1, <1>3 DEF Locals
<1>8. /\ pos' \in [Desc -> Nat] /\ pos'[call.d] = pos[call.d] + k
      /\ \A d \in Desc : d # call.d => pos'[d] = pos[d]
  BY <1>1, <1>3, <1>4
<1> QED  BY <1>6, <1>7, <1>8 DEF k

-----------------------------------------------------------------------------
(* Where a call stands                                                     *)

\* A call that keeps within Cap stands where it says from the beginning,
LEMMA AlignedStart ==
  ASSUME NEW c \in Locals, NEW f \in File, NEW q \in Nat, q + c.left <= Cap,
         c.off = Off(q), c.i = Start[f] + Sec(q), c.max = Start[f] + Sec(q + c.left)
  PROVE  Aligned(c, f, q)
<1>1. c.left \in Nat /\ q + c.left \in Nat
  BY DEF Locals
<1> DEFINE e == q + c.left  s == Start[f]
<1>2. s \in Nat
  BY StartsApart
<1>3. Sec(q) \in Nat /\ Off(q) \in Offset /\ q = Sec(q) * S + Off(q)
  BY Divided
<1>4. Sec(e) \in Nat /\ Off(e) \in Offset /\ e = Sec(e) * S + Off(e)
  BY <1>1, Divided
<1>5. c.i - s = Sec(q) /\ c.i >= s /\ c.max - s = Sec(e) /\ c.max >= s
  BY <1>2, <1>3, <1>4
<1>6. q = (c.i - s) * S + c.off
  BY <1>3, <1>5
<1>7. (c.max - s) * S <= e /\ e < (c.max - s) * S + S
  <2> DEFINE a == Sec(e) * S
  <2>1. a \in Nat
    BY <1>4, Sizes, Times
  <2> HIDE DEF a, e
  <2>2. e = a + Off(e) /\ Off(e) \in Nat /\ Off(e) < S
    BY <1>4, Sizes DEF a, Offset
  <2>3. a <= e /\ e < a + S
    BY <2>1, <2>2, Sizes
  <2> QED  BY <1>5, <2>3 DEF a
<1> QED  BY <1>5, <1>6, <1>7 DEF Aligned

\* and after each turn,
LEMMA AlignedTurn ==
  ASSUME NEW c \in Locals, NEW c2 \in Locals, NEW f \in File, NEW q \in Nat, Aligned(c, f, q),
         c2.off = 0, c2.i = c.i + 1, c2.max = c.max, c2.left = c.left - Piece(c)
  PROVE  Aligned(c2, f, q + Piece(c))
<1> DEFINE k == Piece(c)  s == Start[f]
<1>1. k \in Nat /\ k <= c.left /\ (k = c.left \/ k = S - c.off)
  BY PieceTrue
<1>2. s \in Nat /\ c.left \in Nat /\ c.i \in Nat /\ c.off \in Nat /\ S \in Nat
  BY StartsApart, Sizes DEF Locals, Offset
<1> HIDE DEF k, s
<1>3. q + k + c2.left = q + c.left
  BY <1>1, <1>2 DEF k
<1>4. ASSUME c2.left > 0 PROVE c2.i >= s /\ q + k = (c2.i - s) * S + c2.off
  <2>1. k = S - c.off /\ c.left > 0
    BY <1>1, <1>2, <1>4 DEF k
  <2>2. c.i >= s /\ q = (c.i - s) * S + c.off
    BY <2>1 DEF Aligned, s
  <2> DEFINE j == c.i - s  a == j * S  b == (j + 1) * S
  <2>3. j \in Nat
    BY <1>2, <2>2
  <2>4. a \in Nat /\ b = a + S
    BY <1>2, <2>3, Times
  <2>5. c2.i - s = j + 1
    BY <1>2
  <2>6. (c2.i - s) * S + c2.off = b + 0
    BY <2>5
  <2>7. q = a + c.off
    BY <2>2
  <2> HIDE DEF j, a, b
  <2>8. q + k = b
    BY <1>2, <2>1, <2>4, <2>7
  <2>9. b + 0 = b /\ c2.i >= s
    BY <1>2, <2>2, <2>4
  <2> QED  BY <2>6, <2>8, <2>9
<1>5. c2.max = c.max
  OBVIOUS
<1> QED  BY <1>3, <1>4, <1>5 DEF Aligned, k, s

\* so that nothing is left when the last sector is behind it.
LEMMA AlignedEnd ==
  ASSUME NEW c \in Locals, NEW f \in File, NEW q \in Nat, Aligned(c, f, q), c.i > c.max
  PROVE  c.left = 0
<1> SUFFICES ASSUME c.left > 0 PROVE FALSE
  BY DEF Locals
<1> DEFINE s == Start[f]  j == c.i - s  m == c.max - s
<1>1. s \in Nat /\ c.left \in Nat /\ c.i \in Nat /\ c.max \in Nat /\ c.off \in Nat /\ S \in Nat
  BY StartsApart, Sizes DEF Locals, Offset
<1>2. j \in Nat /\ m \in Nat /\ m < j
  BY <1>1 DEF Aligned
<1>3. m * S + S <= j * S /\ m * S \in Nat /\ j * S \in Nat
  BY <1>1, <1>2, Times
<1>4. q = j * S + c.off /\ q + c.left < m * S + S
  BY DEF Aligned
<1> DEFINE a == j * S  b == m * S
<1> HIDE DEF a, b
<1>5. b + S <= a /\ b \in Nat /\ a \in Nat /\ q = a + c.off /\ q + c.left < b + S
  BY <1>3, <1>4 DEF a, b
<1> QED  BY <1>1, <1>5

-----------------------------------------------------------------------------
(* What a turn of a write puts on the card                                 *)

\* The n-th byte of a turn belongs where the turn puts it,
LEMMA TurnPlace ==
  ASSUME NEW c \in Locals, NEW f \in File, NEW q \in Nat, Aligned(c, f, q),
         NEW n \in 0 .. Piece(c) - 1
  PROVE  q + n \in 0 .. Cap - 1 /\ Place(f, q + n) = c.i /\ Off(q + n) = c.off + n
<1> DEFINE k == Piece(c)  s == Start[f]  j == c.i - s
<1>1. k \in Nat /\ k <= c.left /\ k <= S - c.off
  BY PieceTrue
<1>2. s \in Nat /\ c.left \in Nat /\ c.i \in Nat /\ c.off \in Nat /\ S \in Nat
  BY StartsApart, Sizes DEF Locals, Offset
<1>3. n \in Nat /\ n < k
  BY <1>1
<1> HIDE DEF k
<1>4. c.left > 0 /\ c.off + n \in Offset
  BY <1>1, <1>2, <1>3 DEF Offset
<1>5. c.i >= s /\ q = j * S + c.off /\ q + c.left <= Cap
  BY <1>4 DEF Aligned
<1>6. j \in Nat
  BY <1>2, <1>5
<1>7. q + n \in 0 .. Cap - 1
  BY <1>1, <1>2, <1>3, <1>5, Sizes
<1>8. q + n = j * S + (c.off + n)
  <2> DEFINE a == j * S
  <2>1. a \in Nat
    BY <1>2, <1>6, Times
  <2> HIDE DEF a, j
  <2>2. q = a + c.off
    BY <1>5 DEF a
  <2>3. q + n = a + (c.off + n)
    BY <1>2, <1>3, <2>1, <2>2
  <2> QED  BY <2>3 DEF a
<1> HIDE DEF j
<1>9. Place(f, q + n) = s + j /\ Off(q + n) = c.off + n
  BY <1>4, <1>6, <1>7, <1>8, PlaceAt
<1>10. s + j = c.i
  BY <1>2 DEF j
<1> QED  BY <1>7, <1>9, <1>10

\* and nothing else of any file belongs there.
LEMMA TurnPlaceOnly ==
  ASSUME NEW c \in Locals, NEW f \in File, NEW q \in Nat, Aligned(c, f, q),
         NEW g \in File, NEW p \in 0 .. Cap - 1,
         Place(g, p) = c.i, Off(p) - c.off \in 0 .. Piece(c) - 1
  PROVE  g = f /\ p = q + (Off(p) - c.off)
<1> DEFINE n == Off(p) - c.off
<1>1. Off(p) \in Nat /\ c.off \in Nat
  BY PlaceTrue, Sizes DEF Offset, Locals
<1>2. q + n \in 0 .. Cap - 1 /\ Place(f, q + n) = c.i /\ Off(q + n) = c.off + n
  BY TurnPlace
<1>3. c.off + n = Off(p)
  BY <1>1
<1> HIDE DEF n
<1>4. g = f /\ p = q + n
  BY <1>2, <1>3, PlaceOwn
<1> QED  BY <1>4 DEF n

\* A turn puts its bytes there, and what was due after them still is.
LEMMA DueTurn ==
  ASSUME NEW c \in Locals, NEW c2 \in Locals, NEW f \in File, NEW q \in Nat, Aligned(c, f, q),
         NEW dk \in [Sect -> [Offset -> Int]], NEW im, NEW w, Due(dk, im, w, c, f, q),
         NEW dk2,
         dk2 = [dk EXCEPT ![c.i] = [o \in Offset |->
                   IF o - c.off \in 0 .. Piece(c) - 1 THEN Byte(w, c.done + o - c.off) ELSE @[o]]],
         c2.left = c.left - Piece(c), c2.done = c.done + Piece(c)
  PROVE  Due(dk2, im, w, c2, f, q + Piece(c))
<1> DEFINE k == Piece(c)
<1>1. k \in Nat /\ k <= c.left
  BY PieceTrue
<1>2. c.left \in Nat /\ c.off \in Nat /\ c.done \in Nat
  BY Sizes DEF Locals, Offset
<1>3. \A g \in File, p \in 0 .. Cap - 1 :
         At(dk2, g, p) = IF Place(g, p) = c.i /\ Off(p) - c.off \in 0 .. k - 1
                         THEN Byte(w, c.done + Off(p) - c.off) ELSE At(dk, g, p)
  <2> SUFFICES ASSUME NEW g \in File, NEW p \in 0 .. Cap - 1
               PROVE  At(dk2, g, p) = IF Place(g, p) = c.i /\ Off(p) - c.off \in 0 .. k - 1
                                      THEN Byte(w, c.done + Off(p) - c.off) ELSE At(dk, g, p)
    OBVIOUS
  <2> HIDE DEF k
  <2>1. Place(g, p) \in Sect /\ Off(p) \in Offset
    BY PlaceTrue
  <2>2. CASE Place(g, p) = c.i
    <3>1. dk2[Place(g, p)] = [o \in Offset |->
              IF o - c.off \in 0 .. k - 1 THEN Byte(w, c.done + o - c.off) ELSE dk[c.i][o]]
      BY <2>1, <2>2 DEF k
    <3> QED  BY <2>1, <2>2, <3>1 DEF At
  <2>3. CASE Place(g, p) # c.i
    BY <2>1, <2>3 DEF At
  <2> QED  BY <2>2, <2>3
<1> HIDE DEF k
<1>4. SUFFICES ASSUME NEW g \in File, NEW p \in 0 .. Cap - 1
               PROVE  IF g = f /\ p \in q + k .. q + k + c2.left - 1
                      THEN im[g][p] = Byte(w, c2.done + p - (q + k))
                      ELSE At(dk2, g, p) = im[g][p]
  BY DEF Due, k
<1>5. p \in Nat
  BY Sizes
<1>6. IF g = f /\ p \in q .. q + c.left - 1
      THEN im[g][p] = Byte(w, c.done + p - q) ELSE At(dk, g, p) = im[g][p]
  BY DEF Due
<1>7. CASE g = f /\ p \in q + k .. q + k + c2.left - 1
  <2>1. p \in q .. q + c.left - 1 /\ c2.done + p - (q + k) = c.done + p - q
    BY <1>1, <1>2, <1>5, <1>7 DEF k
  <2> QED  BY <1>6, <1>7, <2>1
<1>8. CASE g = f /\ p \in q .. q + k - 1
  <2> DEFINE n == p - q
  <2>1. n \in 0 .. k - 1 /\ n \in Nat /\ p = q + n /\ p \in q .. q + c.left - 1
    BY <1>1, <1>2, <1>5, <1>8
  <2> HIDE DEF n
  <2>2. Place(f, p) = c.i /\ Off(p) = c.off + n
    BY <2>1, TurnPlace DEF k
  <2>3. Off(p) - c.off = n /\ c.done + Off(p) - c.off = c.done + n /\ c.done + p - q = c.done + n
    BY <1>2, <2>1, <2>2
  <2>4. At(dk2, g, p) = Byte(w, c.done + n)
    BY <1>3, <1>8, <2>1, <2>2, <2>3
  <2>5. ~(p \in q + k .. q + k + c2.left - 1)
    BY <1>1, <1>5, <1>8
  <2> QED  BY <1>6, <1>8, <2>1, <2>3, <2>4, <2>5
<1>9. CASE ~(g = f /\ p \in q .. q + c.left - 1)
  <2>1. ~(Place(g, p) = c.i /\ Off(p) - c.off \in 0 .. k - 1)
    <3> SUFFICES ASSUME Place(g, p) = c.i, Off(p) - c.off \in 0 .. k - 1 PROVE FALSE
      OBVIOUS
    <3>1. g = f /\ p = q + (Off(p) - c.off)
      BY TurnPlaceOnly DEF k
    <3> DEFINE n == Off(p) - c.off
    <3>2. n \in 0 .. k - 1 /\ p = q + n
      BY <3>1
    <3> HIDE DEF n
    <3>3. p \in q .. q + c.left - 1
      BY <1>1, <1>2, <3>2
    <3> QED  BY <1>9, <3>1, <3>3
  <2>2. At(dk2, g, p) = At(dk, g, p)
    BY <1>3, <2>1
  <2>3. ~(g = f /\ p \in q + k .. q + k + c2.left - 1)
    BY <1>1, <1>2, <1>5, <1>9 DEF k
  <2> QED  BY <1>6, <1>9, <2>2, <2>3
<1>10. p \in q .. q + c.left - 1 => p \in q .. q + k - 1 \/ p \in q + k .. q + k + c2.left - 1
  BY <1>1, <1>2, <1>5 DEF k
<1> QED  BY <1>7, <1>8, <1>9, <1>10

\* Landed in the words of this module
LEMMA LandedAt ==
  ASSUME NEW dk, NEW im
  PROVE  (\A f \in File, p \in 0 .. Cap - 1 : dk[Start[f] + p \div S][p % S] = im[f][p])
            <=> \A f \in File, p \in 0 .. Cap - 1 : At(dk, f, p) = im[f][p]
  BY Zenon DEF At, Place, Sec, Off

\* A write has landed when nothing of it is left.
LEMMA DueNothing ==
  ASSUME NEW dk, NEW im, NEW w, NEW c, NEW f, NEW q \in Nat, c.left = 0, Due(dk, im, w, c, f, q)
  PROVE  \A g \in File, p \in 0 .. Cap - 1 : At(dk, g, p) = im[g][p]
<1>1. \A p : ~(p \in q .. q + c.left - 1)
  OBVIOUS
<1> QED  BY <1>1 DEF Due

\* What a write is to put on the card is due as long as it has not begun.
LEMMA DueAll ==
  ASSUME NEW dk, NEW im, \A g \in File, p \in 0 .. Cap - 1 : At(dk, g, p) = im[g][p],
         NEW f \in File, NEW q \in Nat, NEW w, NEW c \in Locals, c.done = 0,
         im \in [File -> [0 .. Cap - 1 -> Int]], NEW im2,
         im2 = [im EXCEPT ![f] = [p \in 0 .. Cap - 1 |->
                   IF p - q \in 0 .. c.left - 1 THEN Byte(w, p - q) ELSE @[p]]]
  PROVE  Due(dk, im2, w, c, f, q)
<1> SUFFICES ASSUME NEW g \in File, NEW p \in 0 .. Cap - 1
             PROVE  IF g = f /\ p \in q .. q + c.left - 1
                    THEN im2[g][p] = Byte(w, c.done + p - q) ELSE At(dk, g, p) = im2[g][p]
  BY DEF Due
<1>1. p \in Nat /\ c.left \in Nat
  BY Sizes DEF Locals
<1>2. CASE g = f
  <2>1. im2[g][p] = IF p - q \in 0 .. c.left - 1 THEN Byte(w, p - q) ELSE im[g][p]
    BY <1>2
  <2>2. (p - q \in 0 .. c.left - 1 <=> p \in q .. q + c.left - 1) /\ c.done + p - q = p - q
    BY <1>1
  <2> QED  BY <1>2, <2>1, <2>2
<1>3. CASE g # f
  BY <1>3
<1> QED  BY <1>2, <1>3

-----------------------------------------------------------------------------
(* Each action keeps the types and what has landed                         *)

Landing == Types /\ LandInv

\* Between the calls, and during a read, the files' sectors are as they ought to be.
LEMMA LandedKept ==
  ASSUME LandInv, call.at # "write", call'.at # "write", disk' = disk, image' = image,
         breach \subseteq breach'
  PROVE  LandInv'
<1>1. CASE "past" \in breach
  BY <1>1 DEF LandInv
<1>2. CASE "past" \notin breach
  <2>1. Landed
    BY <1>2 DEF LandInv
  <2>2. Landed'
    BY <2>1 DEF Landed
  <2> QED  BY <2>2 DEF LandInv
<1> QED  BY <1>1, <1>2

LEMMA LandStart == Init => Landing
<1> SUFFICES ASSUME Init PROVE Landing
  OBVIOUS
<1>1. Idle \in Locals
  BY Sizes DEF Idle, Locals, Offset
<1>2. disk \in [Sect -> [Offset -> Int]]
  BY DEF Init
<1>3. image \in [File -> [0 .. Cap - 1 -> Int]] /\ content \in [File -> Seq(Int)]
  BY DEF Init
<1>4. Types
  BY <1>1, <1>2, <1>3 DEF Types, Init, Idle
<1>5. ASSUME NEW f \in File, NEW p \in 0 .. Cap - 1 PROVE At(disk, f, p) = image[f][p]
  BY PlaceTrue DEF At, Init
<1>6. Landed
  BY <1>5, LandedAt DEF Landed
<1> QED  BY <1>4, <1>6 DEF Landing, LandInv, Init, Idle

LEMMA LandOpen ==
  ASSUME Landing, NEW d \in Desc, NEW f \in File, Open(d, f)
  PROVE  Landing'
<1>1. Types'
  BY DEF Landing, Types, Open, ghosts
<1>2. LandInv'
  BY LandedKept DEF Landing, Open, ghosts
<1> QED  BY <1>1, <1>2 DEF Landing

LEMMA LandClose ==
  ASSUME Landing, NEW d \in Desc, Close(d)
  PROVE  Landing'
<1>1. Types'
  BY DEF Landing, Types, Close, ghosts
<1>2. LandInv'
  BY LandedKept DEF Landing, Close, ghosts
<1> QED  BY <1>1, <1>2 DEF Landing

LEMMA LandReadStart ==
  ASSUME Landing, NEW d \in Desc, NEW n \in 0 .. MaxCount, ReadStart(d, n)
  PROVE  Landing'
<1> USE DEF Landing
<1>1. n \in Nat /\ file[d] # None /\ call.at = "idle"
  BY Ext2DataAssumption DEF ReadStart
<1>2. Pos(d) + n \in Nat /\ size[file[d]] \in Nat /\ file[d] \in File
  BY <1>1, PosTrue
<1>3. Lesser(Pos(d) + n, size[file[d]]) \in Nat
  BY <1>2, Lessers
<1>4. call' \in Locals /\ call'.at = "read" /\ call'.d = d
  BY <1>1, <1>3, Entered DEF ReadStart
<1>5. Types'
  BY <1>1, <1>2, <1>4 DEF Types, ReadStart
<1>6. LandInv'
  BY <1>1, <1>4, LandedKept DEF ReadStart
<1> QED  BY <1>5, <1>6

LEMMA LandReadTurn ==
  ASSUME Landing, ReadTurn
  PROVE  Landing'
<1> USE DEF Landing
<1>1. /\ call' \in Locals /\ call'.at = "read" /\ call'.d = call.d
      /\ pos' \in [Desc -> Nat]
  BY Turned DEF ReadTurn
<1>2. Types'
  BY <1>1 DEF Types, ReadTurn, ghosts
<1>3. LandInv'
  BY <1>1, LandedKept DEF ReadTurn, ghosts
<1> QED  BY <1>2, <1>3

LEMMA LandWriteStart ==
  ASSUME Landing, NEW d \in Desc, NEW n \in 0 .. MaxCount, WriteStart(d, n)
  PROVE  Landing'
<1> USE DEF Landing
<1> DEFINE f == file[d]  q == Pos(d)  end == Lesser(q + n, Cap)
<1>1. n \in Nat /\ file[d] # None /\ call.at = "idle" /\ MaxCount \in Nat
  BY Ext2DataAssumption DEF WriteStart
<1>2. q \in Nat /\ f \in File /\ q = pos[d] + size[f]
  BY <1>1, PosTrue
<1>3. end \in Nat /\ (q + n <= Cap => end = q + n)
  <2>1. q + n \in Nat /\ Cap \in Nat
    BY <1>1, <1>2, Sizes
  <2> HIDE DEF q
  <2> QED  BY <2>1, Lessers
<1>4. /\ call' \in Locals /\ call'.at = "write" /\ call'.d = d /\ call'.off = Off(q)
      /\ call'.i = Start[f] + Sec(q) /\ call'.max = Start[f] + Sec(end)
      /\ call'.left = n /\ call'.done = 0
  <2>1. Enter("write", d, n, end)
    BY Zenon DEF WriteStart
  <2> QED  BY <1>1, <1>3, <2>1, Entered
<1>5. /\ writes' = writes + 1 /\ writes' \in Nat
      /\ UNCHANGED <<disk, size, file, pos>>
      /\ image' = [image EXCEPT ![f] = [p \in 0 .. Cap - 1 |->
                      IF p - q \in 0 .. n - 1 THEN Byte(writes', p - q) ELSE @[p]]]
      /\ content' = [content EXCEPT ![f] = @ \o Bytes(writes', n)]
      /\ "past" \notin breach' => "past" \notin breach /\ ~(q + n > Cap)
  BY DEF WriteStart, Types, Only
<1>6. Types'
  <2>1. \A k \in Int : Byte(writes', k) \in Int
    BY <1>1, <1>5 DEF Byte
  <2>2. Bytes(writes', n) \in Seq(Int)
    BY <1>1, <2>1 DEF Bytes
  <2>3. content' \in [File -> Seq(Int)]
    <3>1. content[f] \in Seq(Int) /\ content \in [File -> Seq(Int)]
      BY <1>2 DEF Types
    <3>2. content[f] \o Bytes(writes', n) \in Seq(Int)
      BY <2>2, <3>1, ConcatProperties
    <3> HIDE DEF f
    <3> QED  BY <1>2, <1>5, <3>1, <3>2
  <2>4. image' \in [File -> [0 .. Cap - 1 -> Int]]
    <3>1. image \in [File -> [0 .. Cap - 1 -> Int]]
      BY DEF Types
    <3> HIDE DEF f, q
    <3>2. [p \in 0 .. Cap - 1 |-> IF p - q \in 0 .. n - 1 THEN Byte(writes', p - q) ELSE image[f][p]]
              \in [0 .. Cap - 1 -> Int]
      BY <1>2, <2>1, <3>1, Sizes
    <3> QED  BY <1>2, <1>5, <3>1, <3>2
  <2>5. call'.d \in Desc /\ file'[call'.d] \in File \ {None}
    BY <1>1, <1>2, <1>4, <1>5
  <2>6. UNCHANGED <<disk, size, file, pos>> /\ call' \in Locals /\ writes' \in Nat
    BY <1>4, <1>5
  <2> QED  BY <2>3, <2>4, <2>5, <2>6 DEF Types
<1>7. LandInv'
  <2> SUFFICES ASSUME "past" \notin breach'
               PROVE  /\ Aligned(call', file'[call'.d], Reached')
                      /\ Due(disk', image', writes', call', file'[call'.d], Reached')
    BY <1>4 DEF LandInv
  <2>1. file'[call'.d] = f /\ Reached' = q
    BY <1>2, <1>4, <1>5 DEF Reached
  <2>2. q + n <= Cap /\ "past" \notin breach
    BY <1>1, <1>2, <1>5, Sizes
  <2> HIDE DEF f, q
  <2>3. Aligned(call', f, q)
    BY <1>2, <1>3, <1>4, <2>2, AlignedStart
  <2>4. \A g \in File, p \in 0 .. Cap - 1 : At(disk, g, p) = image[g][p]
    <3>1. Landed
      BY <1>1, <2>2 DEF LandInv
    <3> QED  BY <3>1, LandedAt DEF Landed
  <2>5. Due(disk, image', writes', call', f, q)
    <3>1. image \in [File -> [0 .. Cap - 1 -> Int]]
      BY DEF Types
    <3>2. image' = [image EXCEPT ![f] = [p \in 0 .. Cap - 1 |->
              IF p - q \in 0 .. call'.left - 1 THEN Byte(writes', p - q) ELSE @[p]]]
      BY <1>4, <1>5
    <3>3. f \in File /\ q \in Nat /\ call' \in Locals /\ call'.done = 0
      BY <1>2, <1>4
    <3> QED  BY <2>4, <3>1, <3>2, <3>3, DueAll, Zenon
  <2> QED  BY <1>5, <2>1, <2>3, <2>5
<1> QED  BY <1>6, <1>7

LEMMA LandWriteTurn ==
  ASSUME Landing, WriteTurn
  PROVE  Landing'
<1> USE DEF Landing
<1> DEFINE f == file[call.d]  k == Piece(call)
<1>1. call \in Locals /\ call.at = "write" /\ call.d \in Desc /\ f \in File
  BY DEF Types, WriteTurn
<1>2. /\ call' \in Locals /\ call'.at = "write" /\ call'.d = call.d /\ call'.off = 0
      /\ call'.i = call.i + 1 /\ call'.max = call.max
      /\ call'.left = call.left - k /\ call'.done = call.done + k
      /\ pos' \in [Desc -> Nat] /\ pos'[call.d] = pos[call.d] + k
  BY <1>1, Turned DEF WriteTurn
<1>3. k \in Nat
  BY <1>1, PieceTrue
<1>4. /\ UNCHANGED <<size, file, image, content, writes, breach>>
      /\ disk' = [disk EXCEPT ![call.i] = [o \in Offset |->
             IF o - call.off \in 0 .. k - 1 THEN Byte(writes, call.done + o - call.off) ELSE @[o]]]
  BY DEF WriteTurn, ghosts
<1>5. disk \in [Sect -> [Offset -> Int]]
  BY DEF Types
<1>6. disk' \in [Sect -> [Offset -> Int]]
  <2> HIDE DEF k
  <2>1. \A o \in Offset : Byte(writes, call.done + o - call.off) \in Int
    BY <1>1, Ext2DataAssumption DEF Byte, Types, Locals, Offset
  <2>2. call.i \in Sect => [o \in Offset |->
             IF o - call.off \in 0 .. k - 1 THEN Byte(writes, call.done + o - call.off)
             ELSE disk[call.i][o]] \in [Offset -> Int]
    BY <1>5, <2>1
  <2> QED  BY <1>4, <1>5, <2>2
<1>7. Types'
  BY <1>1, <1>2, <1>4, <1>6 DEF Types
<1>8. LandInv'
  <2> SUFFICES ASSUME "past" \notin breach'
               PROVE  /\ Aligned(call', file'[call'.d], Reached')
                      /\ Due(disk', image', writes', call', file'[call'.d], Reached')
    BY <1>2 DEF LandInv
  <2>1. Reached \in Nat /\ Reached' = Reached + k /\ file'[call'.d] = f
    BY <1>1, <1>2, <1>3, <1>4 DEF Reached, Types
  <2>2. Aligned(call, f, Reached) /\ Due(disk, image, writes, call, f, Reached)
    BY <1>1, <1>4 DEF LandInv
  <2>3. Aligned(call', f, Reached + k)
    BY <1>1, <1>2, <2>1, <2>2, AlignedTurn
  <2>4. Due(disk', image, writes, call', f, Reached + k)
    BY <1>1, <1>2, <1>4, <1>5, <2>1, <2>2, DueTurn
  <2> QED  BY <1>4, <2>1, <2>3, <2>4
<1> QED  BY <1>7, <1>8

LEMMA LandFinish ==
  ASSUME Landing, Finish
  PROVE  Landing'
<1> USE DEF Landing
<1>1. /\ call.at # "idle" /\ call.i > call.max /\ call' = Idle
      /\ UNCHANGED <<disk, file, pos, image, content, writes, breach>>
      /\ call \in Locals /\ call.d \in Desc /\ file[call.d] \in File
  BY DEF Types, Finish, ghosts
<1>2. Idle \in Locals /\ Idle.at = "idle"
  BY Sizes DEF Idle, Locals, Offset
<1>3. size' \in [File -> Nat]
  BY <1>1 DEF Types, Finish
<1>4. Types'
  BY <1>1, <1>2, <1>3 DEF Types
<1>5. CASE call.at # "write"
  BY <1>1, <1>2, <1>4, <1>5, LandedKept
<1>6. CASE call.at = "write"
  <2> SUFFICES ASSUME "past" \notin breach PROVE Landed'
    BY <1>1, <1>2, <1>4 DEF LandInv
  <2>1. /\ Aligned(call, file[call.d], Reached)
        /\ Due(disk, image, writes, call, file[call.d], Reached)
    BY <1>6 DEF LandInv
  <2>2. Reached \in Nat
    BY <1>1 DEF Reached, Types
  <2>3. call.left = 0
    BY <1>1, <2>1, <2>2, AlignedEnd
  <2>4. \A g \in File, p \in 0 .. Cap - 1 : At(disk, g, p) = image[g][p]
    BY <2>1, <2>2, <2>3, DueNothing
  <2>5. Landed
    BY <2>4, LandedAt DEF Landed
  <2> QED  BY <1>1, <2>5 DEF Landed
<1> QED  BY <1>4, <1>5, <1>6

LEMMA LandStutter ==
  ASSUME Landing, UNCHANGED vars
  PROVE  Landing'
<1>1. Types'
  BY DEF Landing, Types, vars
<1>2. LandInv'
  BY DEF Landing, LandInv, vars, Landed, Reached
<1> QED  BY <1>1, <1>2 DEF Landing

LEMMA LandStep == Landing /\ [Next]_vars => Landing'
<1> SUFFICES ASSUME Landing, [Next]_vars PROVE Landing'
  OBVIOUS
<1> QED  BY LandStutter, LandOpen, LandClose, LandReadStart, LandWriteStart, LandReadTurn,
            LandWriteTurn, LandFinish DEF Next

\* Every byte of a write that keeps within the sectors of its file lands where
\* do_rdwt (simple_ext2.c:931-1049) computes its place, and no other byte of any file
\* changes, whatever the sizes of sectors, files and calls, although a last
\* sector with no byte for it may be read and written back.
THEOREM WritesAlwaysLand == Spec => []WritesLand
<1>1. Landing => WritesLand
  BY DEF Landing, LandInv, WritesLand, Quiet
<1> QED  BY <1>1, LandStart, LandStep, PTL DEF Spec

-----------------------------------------------------------------------------
(* Each action keeps the sizes                                             *)

\* What SizeInv says when no call is under way
Counted ==
    /\ Begun(image, content)
    /\ \A d \in Desc : file[d] # None => pos[d] <= Len(content[file[d]])
    /\ \A f \in File : size[f] = Len(content[f])

LEMMA Lengths ==
  ASSUME Types
  PROVE  \A f \in File : Len(content[f]) \in Nat /\ content[f] \in Seq(Int)
  BY LenProperties DEF Types

LEMMA SizeIdle ==
  ASSUME SizeInv, breach = {}, call.at # "write"
  PROVE  Counted
  BY DEF SizeInv, Counted

LEMMA SizeStart == Init => SizeInv
<1> SUFFICES ASSUME Init PROVE SizeInv
  OBVIOUS
<1>1. \A f \in File : content[f] = <<>> /\ size[f] = 0 /\ Len(content[f]) = 0
  BY DEF Init
<1>2. Begun(image, content)
  BY <1>1, Sizes DEF Begun
<1>3. \A d \in Desc : file[d] = None
  BY DEF Init
<1>4. call.at = "idle"
  BY DEF Init, Idle
<1> QED  BY <1>1, <1>2, <1>3, <1>4 DEF SizeInv

LEMMA SizeOpen ==
  ASSUME DataInv, NEW d \in Desc, NEW f \in File, Open(d, f)
  PROVE  SizeInv'
<1>1. Types /\ SizeInv /\ call.at = "idle"
  BY DEF DataInv, Open
<1>2. /\ UNCHANGED <<size, call, got, image, content, breach>>
      /\ file' = [file EXCEPT ![d] = f] /\ pos' = [pos EXCEPT ![d] = 0]
  BY DEF Open, ghosts
<1>3. SUFFICES ASSUME breach = {} PROVE SizeInv'
  BY <1>2 DEF SizeInv
<1>4. Counted
  BY <1>1, <1>3, SizeIdle
<1>5. ASSUME NEW e \in Desc, file'[e] # None PROVE pos'[e] <= Len(content[file'[e]])
  <2>1. pos \in [Desc -> Nat] /\ file \in [Desc -> File \cup {None}]
    BY <1>1 DEF Types
  <2>2. Len(content[f]) >= 0
    BY <1>1, Lengths
  <2>3. CASE e = d
    BY <1>2, <2>1, <2>2, <2>3
  <2>4. CASE e # d
    BY <1>2, <1>4, <1>5, <2>1, <2>4 DEF Counted
  <2> QED  BY <2>3, <2>4
<1> QED  BY <1>1, <1>2, <1>4, <1>5 DEF SizeInv, Counted

LEMMA SizeClose ==
  ASSUME DataInv, NEW d \in Desc, Close(d)
  PROVE  SizeInv'
<1>1. Types /\ SizeInv /\ call.at = "idle"
  BY DEF DataInv, Close
<1>2. /\ UNCHANGED <<size, pos, call, got, image, content, breach>>
      /\ file' = [file EXCEPT ![d] = None]
  BY DEF Close, ghosts
<1>3. SUFFICES ASSUME breach = {} PROVE SizeInv'
  BY <1>2 DEF SizeInv
<1>4. Counted
  BY <1>1, <1>3, SizeIdle
<1>5. ASSUME NEW e \in Desc, file'[e] # None PROVE pos[e] <= Len(content[file'[e]])
  <2>1. file \in [Desc -> File \cup {None}]
    BY <1>1 DEF Types
  <2>2. e # d /\ file'[e] = file[e]
    BY <1>2, <1>5, <2>1
  <2> QED  BY <1>4, <1>5, <2>2 DEF Counted
<1> QED  BY <1>1, <1>2, <1>4, <1>5 DEF SizeInv, Counted

\* A read that is the descriptor's first begins at the file's length and has
\* one turn to come.
LEMMA SizeReadStart ==
  ASSUME DataInv, NEW d \in Desc, NEW n \in 0 .. MaxCount, ReadStart(d, n)
  PROVE  SizeInv'
<1> DEFINE f == file[d]  q == Pos(d)  end == Lesser(q + n, size[f])
<1>1. Types /\ SizeInv /\ call.at = "idle" /\ file[d] # None /\ n \in Nat
  BY Ext2DataAssumption DEF DataInv, ReadStart
<1>2. /\ UNCHANGED <<size, pos, file, image, content>> /\ got' = <<>>
      /\ breach' = breach \cup Only("far", pos[d] # 0 \/ n > size[f] \/ size[f] + n > S)
  BY DEF ReadStart
<1>3. SUFFICES ASSUME breach' = {} PROVE SizeInv'
  BY DEF SizeInv
<1>4. breach = {} /\ pos[d] = 0 /\ ~(n > size[f]) /\ ~(size[f] + n > S)
  BY <1>2, <1>3 DEF Only
<1>5. Counted
  BY <1>1, <1>4, SizeIdle
<1>6. f \in File /\ q = size[f] /\ size[f] \in Nat /\ end = size[f]
  <2>1. f \in File /\ size[f] \in Nat /\ q = pos[d] + size[f]
    BY <1>1, PosTrue
  <2>2. q = size[f]
    BY <1>4, <2>1
  <2>3. q + n \in Nat /\ size[f] <= q + n
    BY <1>1, <2>1, <2>2
  <2> HIDE DEF q, f
  <2>4. end = size[f]
    BY <2>1, <2>3, Lessers
  <2> QED  BY <2>1, <2>2, <2>4
<1>7. /\ call'.at = "read" /\ call'.d = d /\ call'.off = Off(q)
      /\ call'.i = Start[f] + Sec(q) /\ call'.max = Start[f] + Sec(end)
      /\ call'.left = n /\ call'.done = 0
  <2>1. Enter("read", d, n, end)
    BY Zenon DEF ReadStart
  <2>2. end \in Nat
    BY <1>6
  <2> QED  BY <1>1, <2>1, <2>2, Entered
<1> HIDE DEF f, q, end
<1>8. n <= size[f] /\ n + size[f] <= S
  BY <1>1, <1>4, <1>6, Sizes
<1>9. OneRead(size[f], content[f], call', pos[d], Start[f], <<>>)
  BY <1>4, <1>6, <1>7, <1>8 DEF OneRead
<1>10. file'[call'.d] = f
  BY <1>2, <1>7 DEF f
<1> QED  BY <1>2, <1>5, <1>7, <1>9, <1>10 DEF SizeInv, Counted

\* The turn returns what the file begins with.
LEMMA SizeReadTurn ==
  ASSUME DataInv, ReadTurn
  PROVE  SizeInv'
<1> DEFINE f == file[call.d]  c == call  k == Piece(call)  n == size[f]  co == content[f]
<1>1. Types /\ SizeInv /\ LandInv /\ c.at = "read" /\ c.i <= c.max /\ c \in Locals
  BY DEF DataInv, Types, ReadTurn
<1>2. /\ UNCHANGED <<disk, size, file, image, content, breach>>
      /\ got' = got \o [j \in 1 .. k |-> disk[c.i][j - 1]]
  BY DEF ReadTurn, ghosts
<1>3. SUFFICES ASSUME breach = {} PROVE SizeInv'
  BY <1>2 DEF SizeInv
<1>4. Counted /\ Landed
  BY <1>1, <1>3, SizeIdle DEF LandInv
<1>5. f \in File /\ c.d \in Desc /\ f # None /\ n \in Nat /\ n = Len(co) /\ co \in Seq(Int)
  BY <1>1, <1>4, Lengths DEF Types, Counted
<1>6. /\ c.done = 0 /\ pos[c.d] = 0 /\ got = <<>>
      /\ c.i = Start[f] + Sec(n) /\ c.max = c.i /\ c.off = Off(n)
      /\ c.left <= n /\ c.left + n <= S
  <2>1. OneRead(n, co, c, pos[c.d], Start[f], got)
    BY <1>1, <1>3 DEF SizeInv
  <2>2. c.i # c.max + 1
    BY <1>1 DEF Locals
  <2> QED  BY <2>1, <2>2 DEF OneRead
<1>7. ASSUME c.left > 0 PROVE c.off = n /\ c.i = Start[f] /\ n < S
  <2>1. n < S /\ n \in Offset /\ 0 \in Nat
    BY <1>1, <1>5, <1>6, <1>7, Sizes DEF Locals, Offset
  <2>2. Sec(n) \in Nat /\ Off(n) \in Offset /\ n = Sec(n) * S + Off(n)
    BY <1>5, Divided
  <2> HIDE DEF n
  <2>3. 0 * S = 0
    BY Sizes
  <2>4. 0 * S + n = n
    BY <1>5, <2>3
  <2>5. Sec(n) = 0 /\ Off(n) = n
    BY <2>1, <2>2, <2>4, OneWay
  <2> QED  BY <1>5, <1>6, <2>1, <2>5, StartsApart
<1>8. k = c.left
  <2>1. c.left \in Nat /\ c.off \in Nat /\ c.off < S
    BY <1>1, Sizes DEF Locals, Offset
  <2>2. c.left <= S - c.off
    BY <1>5, <1>6, <1>7, <2>1, Sizes
  <2> QED  BY <2>1, <2>2, Sizes, Lessers DEF Piece
<1>9. /\ call'.at = "read" /\ call'.d = c.d /\ call'.i = c.max + 1 /\ call'.max = c.max
      /\ call'.left = 0 /\ call'.done = c.left /\ c.left \in Nat
      /\ pos'[c.d] = c.left /\ \A e \in Desc : e # c.d => pos'[e] = pos[e]
  <2>1. c.left \in Nat
    BY <1>1 DEF Locals
  <2>2. NextTurn
    BY DEF ReadTurn
  <2> QED  BY <1>1, <1>6, <1>8, <2>1, <2>2, Turned
<1> HIDE DEF f, c, k, n, co
<1>10. ASSUME NEW j \in 1 .. k PROVE disk[c.i][j - 1] = co[j]
  <2>1. j \in Nat /\ j > 0 /\ j <= c.left /\ c.left > 0
    BY <1>8, <1>9
  <2>2. j - 1 \in 0 .. Len(co) - 1 /\ j - 1 \in Offset /\ j - 1 \in Nat
    BY <1>5, <1>6, <1>7, <1>9, <2>1, Sizes DEF Offset
  <2>3. Len(co) <= Cap /\ image[f][j - 1] = co[(j - 1) + 1]
    BY <1>4, <1>5, <2>2 DEF Counted, Begun, co
  <2>4. j - 1 \in 0 .. Cap - 1 /\ j - 1 = 0 * S + (j - 1) /\ (j - 1) + 1 = j
    BY <1>5, <2>2, <2>3, Sizes
  <2>5. Place(f, j - 1) = Start[f] + 0 /\ Off(j - 1) = j - 1
    BY <1>5, <2>2, <2>4, PlaceAt
  <2>6. Start[f] + 0 = c.i
    BY <1>5, <1>7, <2>1, StartsApart
  <2>7. At(disk, f, j - 1) = image[f][j - 1]
    BY <1>4, <1>5, <2>4, LandedAt DEF Landed
  <2> QED  BY <2>3, <2>4, <2>5, <2>6, <2>7 DEF At
<1>11. got' = SubSeq(co, 1, k)
  <2> DEFINE new == [j \in 1 .. k |-> disk[c.i][j - 1]]
  <2>1. k \in Nat /\ k <= Len(co)
    BY <1>5, <1>6, <1>8, <1>9
  <2>2. \A j \in 1 .. k : co[j] \in Int
    BY <1>5, <2>1, ElementOfSeq
  <2>3. \A j \in 1 .. k : new[j] = co[j]
    BY <1>10
  <2>4. new = [j \in 1 .. k |-> co[j]]
    BY <1>10
  <2> HIDE DEF new
  <2>5. new \in Seq(Int) /\ Len(new) = k
    BY <2>1, <2>2, <2>4
  <2>6. got' = new
    BY <1>2, <1>6, <2>5, ConcatEmptySeq DEF new
  <2> DEFINE sub == SubSeq(co, 1, k)
  <2>7. sub \in Seq(Int) /\ Len(sub) = IF 1 <= k THEN k - 1 + 1 ELSE 0
    BY <2>1, <2>2, SubSeqProperties
  <2>8. \A j \in 1 .. k - 1 + 1 : sub[j] = co[1 + j - 1]
    BY <2>1, <2>2, SubSeqProperties
  <2> HIDE DEF sub
  <2>9. Len(sub) = k /\ \A j \in 1 .. k : sub[j] = co[j]
    BY <2>1, <2>7, <2>8
  <2>10. sub = new
    BY <2>1, <2>3, <2>5, <2>7, <2>9, SeqEqual
  <2> QED  BY <2>6, <2>10 DEF sub
<1>12. OneRead(n, co, call', pos'[c.d], Start[f], got')
  BY <1>8, <1>9, <1>11 DEF OneRead
<1>13. ASSUME NEW e \in Desc, file[e] # None PROVE pos'[e] <= Len(content[file[e]])
  <2>1. CASE e = c.d
    BY <1>5, <1>6, <1>9, <2>1 DEF f, c, co
  <2>2. CASE e # c.d
    BY <1>4, <1>9, <1>13, <2>2 DEF Counted
  <2> QED  BY <2>1, <2>2
<1>14. file'[call'.d] = f /\ size'[f] = n /\ content'[f] = co
  BY <1>2, <1>9 DEF f, c, n, co
<1> QED  BY <1>2, <1>4, <1>9, <1>12, <1>13, <1>14 DEF SizeInv, Counted

\* A first write makes the content begin with its bytes, as the image does.
LEMMA SizeWriteStart ==
  ASSUME DataInv, NEW d \in Desc, NEW n \in 0 .. MaxCount, WriteStart(d, n)
  PROVE  SizeInv'
<1> DEFINE f == file[d]  q == Pos(d)  co == content[f]  w == writes'
<1>1. Types /\ SizeInv /\ call.at = "idle" /\ file[d] # None /\ n \in Nat
  BY Ext2DataAssumption DEF DataInv, WriteStart
<1>2. /\ UNCHANGED <<size, pos, file>>
      /\ image' = [image EXCEPT ![f] = [p \in 0 .. Cap - 1 |->
                      IF p - q \in 0 .. n - 1 THEN Byte(w, p - q) ELSE @[p]]]
      /\ content' = [content EXCEPT ![f] = @ \o Bytes(w, n)]
      /\ breach' = breach \cup Only("past", q + n > Cap) \cup Only("again", n > 0 /\ size[f] > 0)
  BY DEF WriteStart
<1>3. SUFFICES ASSUME breach' = {} PROVE SizeInv'
  BY DEF SizeInv
<1>4. breach = {} /\ ~(q + n > Cap) /\ ~(n > 0 /\ size[f] > 0)
  BY <1>2, <1>3 DEF Only
<1>5. Counted
  BY <1>1, <1>4, SizeIdle
<1>6. /\ f \in File /\ size[f] = Len(co) /\ Len(co) \in Nat /\ co \in Seq(Int)
      /\ pos[d] \in Nat /\ pos[d] <= Len(co) /\ q = pos[d] + Len(co) /\ q \in Nat
  BY <1>1, <1>5, PosTrue, Lengths DEF Counted
<1>7. call'.at = "write" /\ call'.d = d /\ call'.left = n /\ call'.done = 0
  BY Zenon DEF WriteStart, Enter
<1>8. /\ image \in [File -> [0 .. Cap - 1 -> Int]] /\ content \in [File -> Seq(Int)]
      /\ w \in Nat
  <2>1. writes' = writes + 1
    BY DEF WriteStart
  <2> QED  BY <1>1, <2>1 DEF Types
<1>9. /\ Bytes(w, n) \in Seq(Int) /\ Len(Bytes(w, n)) = n
      /\ \A i \in 1 .. n : Bytes(w, n)[i] = Byte(w, i - 1)
  <2>1. \A k \in Int : Byte(w, k) \in Int
    BY <1>8, Ext2DataAssumption DEF Byte
  <2> HIDE DEF w
  <2> QED  BY <1>1, <2>1 DEF Bytes
<1> HIDE DEF f, q, co, w
<1> DEFINE co2 == co \o Bytes(w, n)
<1>10. content'[f] = co2 /\ \A g \in File : g # f => content'[g] = content[g] /\ image'[g] = image[g]
  BY <1>2, <1>6, <1>8 DEF co
<1>11. /\ Len(co2) = Len(co) + n
       /\ \A i \in 1 .. Len(co) + n : co2[i] = IF i <= Len(co) THEN co[i] ELSE Byte(w, i - Len(co) - 1)
  <2> DEFINE by == Bytes(w, n)
  <2> HIDE DEF by
  <2>0. by \in Seq(Int) /\ Len(by) = n /\ \A i \in 1 .. n : by[i] = Byte(w, i - 1)
    BY <1>9 DEF by
  <2>1. /\ Len(co \o by) = Len(co) + Len(by)
        /\ \A i \in 1 .. Len(co) + Len(by) :
              (co \o by)[i] = IF i <= Len(co) THEN co[i] ELSE by[i - Len(co)]
    BY <1>6, <2>0, ConcatProperties
  <2>2. \A i \in 1 .. Len(co) + n : ~(i <= Len(co)) => i - Len(co) \in 1 .. n
    BY <1>1, <1>6
  <2> QED  BY <2>0, <2>1, <2>2 DEF by
<1> HIDE DEF co2
<1>12. Len(co) + n <= Cap
  BY <1>1, <1>4, <1>6, Sizes
<1>13. ASSUME NEW p \in 0 .. Len(co) + n - 1 PROVE image'[f][p] = co2[p + 1]
  <2>1. p \in 0 .. Cap - 1 /\ p \in Nat /\ p + 1 \in 1 .. Len(co) + n
    BY <1>1, <1>6, <1>12, Sizes
  <2>2. image'[f][p] = IF p - q \in 0 .. n - 1 THEN Byte(w, p - q) ELSE image[f][p]
    BY <1>2, <1>6, <1>8, <2>1
  <2>3. CASE n = 0
    <3>1. p \in 0 .. Len(co) - 1 /\ image'[f][p] = image[f][p] /\ co2[p + 1] = co[p + 1]
      BY <1>6, <1>11, <2>1, <2>2, <2>3
    <3> QED  BY <1>5, <1>6, <3>1 DEF Counted, Begun, co
  <2>4. CASE n # 0
    <3>1. Len(co) = 0 /\ q = 0
      BY <1>1, <1>4, <1>6, <2>4
    <3>2. p - q = p /\ p \in 0 .. n - 1 /\ (p + 1) - Len(co) - 1 = p /\ ~(p + 1 <= Len(co))
      BY <1>1, <2>1, <3>1
    <3> QED  BY <1>11, <2>1, <2>2, <3>2
  <2> QED  BY <2>3, <2>4
<1>14. Begun(image', content')
  <2> SUFFICES ASSUME NEW g \in File
               PROVE  /\ Len(content'[g]) <= Cap
                      /\ \A p \in 0 .. Len(content'[g]) - 1 : image'[g][p] = content'[g][p + 1]
    BY DEF Begun
  <2>1. CASE g = f
    <3>1. content'[g] = co2 /\ image'[g] = image'[f] /\ Len(co2) = Len(co) + n
      BY <1>10, <1>11, <2>1
    <3>2. \A p \in 0 .. Len(co2) - 1 : image'[f][p] = co2[p + 1]
      BY <1>13, <3>1
    <3> QED  BY <1>12, <3>1, <3>2
  <2>2. CASE g # f
    BY <1>5, <1>10, <2>2 DEF Counted, Begun
  <2> QED  BY <2>1, <2>2
<1>15. ASSUME NEW e \in Desc, file[e] # None PROVE pos[e] <= Len(content'[file[e]])
  <2>1. pos[e] \in Nat /\ file[e] \in File /\ pos[e] <= Len(content[file[e]])
    BY <1>1, <1>5, <1>15 DEF Types, Counted
  <2>2. CASE file[e] = f
    BY <1>1, <1>6, <1>10, <1>11, <2>1, <2>2 DEF co
  <2>3. CASE file[e] # f
    BY <1>10, <2>1, <2>3
  <2> QED  BY <2>2, <2>3
<1>16. FirstWrite(size[f], co2, call', pos[d])
  <2>1. CASE n = 0
    BY <1>6, <1>7, <1>11, <2>1 DEF FirstWrite
  <2>2. CASE n # 0
    BY <1>1, <1>4, <1>6, <1>7, <1>11, <2>2 DEF FirstWrite
  <2> QED  BY <2>1, <2>2
<1>17. file'[call'.d] = f
  BY <1>2, <1>7 DEF f
<1>18. \A g \in File : g # f => size[g] = Len(content'[g])
  BY <1>5, <1>10 DEF Counted
<1> QED  BY <1>2, <1>7, <1>10, <1>14, <1>15, <1>16, <1>17, <1>18 DEF SizeInv

LEMMA SizeWriteTurn ==
  ASSUME DataInv, WriteTurn
  PROVE  SizeInv'
<1> DEFINE f == file[call.d]  c == call  k == Piece(call)  co == content[f]
<1>1. Types /\ SizeInv /\ c.at = "write" /\ c \in Locals
  BY DEF DataInv, Types, WriteTurn
<1>2. UNCHANGED <<size, file, got, image, content, breach>>
  BY DEF WriteTurn, ghosts
<1>3. SUFFICES ASSUME breach = {} PROVE SizeInv'
  BY <1>2 DEF SizeInv
<1>4. /\ f \in File /\ c.d \in Desc /\ f # None /\ Len(co) \in Nat /\ pos[c.d] \in Nat
      /\ c.left \in Nat /\ c.done \in Nat
  BY <1>1, Lengths DEF Types, Locals
<1>5. k \in Nat /\ k <= c.left
  BY <1>1, PieceTrue
<1>6. /\ call'.at = "write" /\ call'.d = c.d /\ call'.left = c.left - k /\ call'.done = c.done + k
      /\ pos'[c.d] = pos[c.d] + k /\ \A e \in Desc : e # c.d => pos'[e] = pos[e]
  <2>1. NextTurn
    BY DEF WriteTurn
  <2> QED  BY <1>1, <2>1, Turned
<1>7. /\ Begun(image, content)
      /\ \A e \in Desc : file[e] # None => pos[e] <= Len(content[file[e]])
      /\ \A g \in File : g # f => size[g] = Len(content[g])
      /\ FirstWrite(size[f], co, c, pos[c.d])
  BY <1>1, <1>3 DEF SizeInv
<1> HIDE DEF f, c, k, co
<1>8. FirstWrite(size[f], co, call', pos'[c.d]) /\ pos'[c.d] <= Len(co)
  <2>1. pos[c.d] <= Len(co)
    BY <1>4, <1>7 DEF f, c, co
  <2>2. CASE c.left = 0 /\ c.done = 0 /\ size[f] = Len(co)
    BY <1>4, <1>5, <1>6, <2>1, <2>2 DEF FirstWrite
  <2>3. CASE size[f] = 0 /\ pos[c.d] = c.done /\ Len(co) = c.done + c.left
    BY <1>4, <1>5, <1>6, <2>3 DEF FirstWrite
  <2> QED  BY <1>7, <2>2, <2>3 DEF FirstWrite
<1>9. ASSUME NEW e \in Desc, file[e] # None PROVE pos'[e] <= Len(content[file[e]])
  <2>1. CASE e = c.d
    BY <1>8, <2>1 DEF f, c, co
  <2>2. CASE e # c.d
    BY <1>6, <1>7, <1>9, <2>2
  <2> QED  BY <2>1, <2>2
<1>10. file'[call'.d] = f /\ size'[f] = size[f] /\ content'[f] = co
  BY <1>2, <1>6 DEF f, c, co
<1> QED  BY <1>2, <1>6, <1>7, <1>8, <1>9, <1>10 DEF SizeInv

\* At the end of a call the size follows the position, or was right before.
LEMMA SizeFinish ==
  ASSUME DataInv, Finish
  PROVE  SizeInv'
<1> DEFINE f == file[call.d]  at == pos[call.d]  co == content[f]
<1>1. Types /\ SizeInv /\ LandInv /\ call.at # "idle" /\ call.i > call.max /\ call \in Locals
  BY DEF DataInv, Types, Finish
<1>2. /\ UNCHANGED <<file, pos, got, image, content, breach>> /\ call' = Idle
      /\ size' = [size EXCEPT ![f] = IF at > size[f] THEN at ELSE size[f]]
  BY DEF Finish, ghosts
<1>3. SUFFICES ASSUME breach = {} PROVE SizeInv'
  BY <1>2 DEF SizeInv
<1>4. /\ f \in File /\ call.d \in Desc /\ f # None /\ Len(co) \in Nat /\ at \in Nat
      /\ size \in [File -> Nat] /\ call.done \in Nat
  BY <1>1, Lengths DEF Types, Locals
<1>5. /\ Begun(image, content)
      /\ \A e \in Desc : file[e] # None => pos[e] <= Len(content[file[e]])
      /\ \A g \in File : g # f => size[g] = Len(content[g])
      /\ call.at # "write" => size[f] = Len(co)
      /\ call.at = "write" => FirstWrite(size[f], co, call, at)
  BY <1>1, <1>3, <1>4 DEF SizeInv
<1>6. at <= Len(co)
  BY <1>4, <1>5
<1>7. call.at = "write" => call.left = 0
  <2>1. Reached \in Nat
    BY <1>1, <1>4 DEF Reached
  <2>2. call.at = "write" => Aligned(call, f, Reached)
    BY <1>1, <1>3 DEF LandInv
  <2> QED  BY <1>1, <1>4, <2>1, <2>2, AlignedEnd
<1> HIDE DEF f, at, co
<1>8. (IF at > size[f] THEN at ELSE size[f]) = Len(co)
  <2>1. CASE size[f] = Len(co)
    BY <1>4, <1>6, <2>1
  <2>2. CASE size[f] = 0 /\ at = call.done /\ Len(co) = call.done + 0
    BY <1>4, <2>2
  <2> QED  BY <1>5, <1>7, <2>1, <2>2 DEF FirstWrite
<1>9. \A g \in File : size'[g] = Len(content[g])
  BY <1>2, <1>4, <1>5, <1>8 DEF co
<1>10. call'.at = "idle"
  BY <1>2 DEF Idle
<1> QED  BY <1>2, <1>5, <1>9, <1>10 DEF SizeInv

LEMMA SizeStutter ==
  ASSUME DataInv, UNCHANGED vars
  PROVE  SizeInv'
<1>1. SizeInv /\ UNCHANGED <<size, file, pos, call, got, image, content, breach>>
  BY DEF DataInv, vars
<1> QED  BY <1>1 DEF SizeInv

LEMMA DataStart == Init => DataInv
  BY LandStart, SizeStart DEF Landing, DataInv

LEMMA DataStep == DataInv /\ [Next]_vars => DataInv'
<1> SUFFICES ASSUME DataInv, [Next]_vars PROVE DataInv'
  OBVIOUS
<1>1. Landing'
  BY LandStep DEF DataInv, Landing
<1>2. SizeInv'
  BY SizeStutter, SizeOpen, SizeClose, SizeReadStart, SizeWriteStart, SizeReadTurn,
     SizeWriteTurn, SizeFinish DEF Next
<1> QED  BY <1>1, <1>2 DEF Landing, DataInv

LEMMA DataSound == Spec => []DataInv
  BY DataStart, DataStep, PTL DEF Spec

-----------------------------------------------------------------------------
(* The theorems on sizes and reading                                       *)

\* A file is as long as what has been written to it, over any sequence of opens,
\* first writes, first reads and closes by any number of descriptors, although
\* do_rdwt keeps the position in fd_pos and in i_size (simple_ext2.c:937, 1039-1047).
THEOREM SizesAlwaysTrue == Spec => []SizeTrue
<1>1. DataInv => SizeTrue
  BY DEF DataInv, SizeInv, SizeTrue, Quiet
<1> QED  BY <1>1, DataSound, PTL

\* A read that ends returns the first bytes of what was written to its file, all
\* that were asked for (simple_ext2.c:1006-1016, and fs_task of init/main.c, which
\* expects it).
THEOREM ReadsBack == Spec => ReadBack
<1> DEFINE A == call.at = "read" /\ Quiet' /\ breach = {} =>
                   LET f == file[call.d]
                   IN  got = SubSeq(content[f], 1, call.done) /\ call.left = 0
<1>1. DataInv /\ [Next]_vars => [A]_vars
  <2> SUFFICES ASSUME DataInv, Next, call.at = "read", call'.at = "idle", breach = {}
               PROVE  got = SubSeq(content[file[call.d]], 1, call.done) /\ call.left = 0
    BY DEF Quiet
  <2>1. Types /\ SizeInv
    BY DEF DataInv
  <2>2. Finish
    <3>1. \A d \in Desc, f \in File : ~Open(d, f)
      BY DEF Open
    <3>2. \A d \in Desc : ~Close(d)
      BY DEF Close
    <3>3. \A d \in Desc, n \in 0 .. MaxCount : ~ReadStart(d, n) /\ ~WriteStart(d, n)
      BY DEF ReadStart, WriteStart
    <3>4. ~WriteTurn
      BY DEF WriteTurn
    <3>5. ~ReadTurn
      <4>1. ReadTurn => call'.at = "read"
        BY <2>1, Turned DEF ReadTurn
      <4> QED  BY <4>1
    <3> QED  BY <3>1, <3>2, <3>3, <3>4, <3>5 DEF Next
  <2>3. OneRead(size[file[call.d]], content[file[call.d]], call, pos[call.d], Start[file[call.d]], got)
    BY <2>1 DEF SizeInv
  <2>4. call.max # call.i
    BY <2>1, <2>2 DEF Finish, Types, Locals
  <2> QED  BY <2>3, <2>4 DEF OneRead
<1> QED  BY <1>1, DataSound, PTL DEF Spec, ReadBack
=============================================================================
