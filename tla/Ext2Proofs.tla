----------------------------- MODULE Ext2Proofs -----------------------------
(***************************************************************************)
(* simple_ext2 for any number of tasks, names, descriptors, inodes and     *)
(* sectors: as long as no rule of Ext2 has been broken, the card is sound  *)
(* between any two of its writes, the tables count what is open, and       *)
(* opening keeps the promise of FileNames.                                 *)
(*                                                                         *)
(* At most one task is then inside a call.  The invariant says of it what  *)
(* it has done on the card that the directory does not list yet, which     *)
(* slot of the inode table it holds, which slot is ahead of the card, and  *)
(* what it has in buf.  Three facts about the order in which things are    *)
(* taken carry it: inode numbers follow the entries of the directory (no   *)
(* file is ever removed); all sectors below a file's last one are marked,  *)
(* and so the first free sector lies behind every file; and entries behind *)
(* the end of the directory are blank where they have been looked at.      *)
(***************************************************************************)
EXTENDS Ext2, FiniteSetTheorems, WellFoundedInduction, TLAPS

Syncing  == {"sync", "syncset", "syncwrite"}
Point    == {"idle", "search", "look", "imap", "imapset", "imapwrite", "smap", "smapset",
             "smapwrite", "get", "load", "take", "new", "claim", "dir", "dirset", "dirwrite",
             "data", "datause"} \cup Syncing
Calls    == [at : Point, name : Name \cup {None}, create : BOOLEAN,
             fd : File \cup {None}, d : Desc \cup {None}, i : Nat, n : Nat, ino : Nat,
             pin : Slot, left : Nat, start : Nat, then : {"idle", "dir", "open"}]
Slots    == [num : Nat, cnt : Nat, size : Nat, start : Nat]
Inodes   == [size : Nat, start : Nat]
DirEntry == [ino : Nat, name : Name \cup {Dot, None}, last : Nat]

Ext2Types ==
    /\ imap \subseteq Ino /\ smap \subseteq Bit
    /\ dinode \in [Ino -> Inodes] /\ dir \in [Index -> DirEntry]
    /\ itab \in [Slot -> Slots]
    /\ fdt \in [Desc -> (Slot \ {0}) \cup {None}]
    /\ filp \in [Task -> [File -> Desc \cup {None}]]
    /\ call \in [Task -> Calls]

\* The entries the card lists, and the first sector of the file of one
Size     == dinode[Root].size
Old      == 0 .. Size - 1
First(g) == dinode[g + 1].start

\* The task has an inode on the card that is not listed yet.
Pending(t) == call[t].create /\ call[t].at \in {"smap", "smapset", "smapwrite", "get", "load",
                                   "take", "new", "dir", "dirset", "dirwrite"} \cup Syncing
\* It holds a slot of the table that no descriptor stands for yet.
Keeps(t, s) ==
    LET c == call[t] IN
    \/ c.at \in {"load", "take", "new", "claim", "dir", "dirset", "dirwrite"} /\ s = c.pin
    \/ c.at \in Syncing /\ c.then = "dir" /\ s = c.pin
    \/ c.at \in Syncing /\ c.then = "open" /\ s = c.left
\* A slot is not what the card says.
Ahead(t, s) ==
    \/ call[t].at \in {"load", "take", "new"} \cup Syncing /\ s = call[t].pin
    \/ call[t].at = "dirwrite" /\ s = 0
\* The directory has one entry more in memory.
Grown(t) == call[t].at = "dirwrite" \/ (call[t].at \in Syncing /\ call[t].then = "open")

\* The sectors: those of later entries lie behind those of earlier ones, and
\* all up to the last of them are marked.
Bits ==
    /\ 0 .. FileSects \subseteq smap
    /\ \A g \in Old : First(g) # 0 /\ 0 .. First(g) + FileSects - 1 \subseteq smap
    /\ \A g, h \in Old : g < h => First(g) + FileSects <= First(h)
\* The directory
Entries ==
    /\ \A g \in Index : dir[g] = Blank \/ (dir[g].ino = g + 1 /\ dir[g].name # None /\ dir[g].last # 0)
    /\ dir[0].name = Dot
    /\ \A g \in Old : dir[g] # Blank /\ dir[g].last = NameLen[dir[g].name]
    /\ \A g, h \in Old : dir[g].name = dir[h].name => g = h
Card(t) ==
    /\ Size # 0 /\ dinode[Root].start = 1
    /\ imap = 0 .. (IF Pending(t) THEN Size + 1 ELSE Size)
    /\ Bits /\ Entries

\* The descriptors: each that is in use is one task's open file.
Descriptors ==
    /\ \A t \in Task, f \in File : filp[t][f] # None => fdt[filp[t][f]] # None
    /\ \A d \in Desc : fdt[d] # None => \E t \in Task, f \in File : filp[t][f] = d
    /\ \A t, u \in Task, f, h \in File :
          filp[t][f] # None /\ filp[t][f] = filp[u][h] => t = u /\ f = h

\* The inode table
Users(s) == {d \in Desc : fdt[d] = s}
Table(t) ==
    /\ itab[0] = [num |-> Root, cnt |-> 1, size |-> IF Grown(t) THEN Size + 1 ELSE Size, start |-> 1]
    /\ \A s \in Slot \ {0} : itab[s].cnt = Cardinality(Users(s)) + (IF Keeps(t, s) THEN 1 ELSE 0)
    /\ \A r, s \in Slot : itab[r].cnt # 0 /\ itab[s].cnt # 0 /\ itab[r].num = itab[s].num => r = s
    /\ \A s \in Slot : itab[s].cnt # 0 => itab[s].num \in 1 .. Size \/ (Pending(t) /\ Keeps(t, s))
    /\ \A s \in Slot : itab[s].cnt # 0 /\ ~Ahead(t, s) =>
          dinode[itab[s].num] = Inode(itab[s].size, itab[s].start)

-----------------------------------------------------------------------------
(* What a task knows at each point of its call                             *)

\* The name is new, its inode is the next one, its sectors lie behind all others.
Fresh(t)  == call[t].create /\ \A g \in Old : dir[g].name # call[t].name
New(t)    == Fresh(t) /\ call[t].ino = Size + 1
Behind(t) == \A g \in Old : First(g) + FileSects <= call[t].start
Placed(t) == /\ call[t].start # 0 /\ Behind(t)
             /\ 0 .. call[t].start + FileSects - 1 \subseteq smap
\* The new inode in the table and on the card, and the entry of the directory
InSlot(t, s) == s # 0 /\ itab[s] = [num |-> call[t].ino, cnt |-> 1, size |-> 0, start |-> call[t].start]
OnCard(t)    == dinode[call[t].ino] = Inode(0, call[t].start)
Entry(t)     == [ino |-> call[t].ino, name |-> call[t].name, last |-> NameLen[call[t].name]]

Sector(i)  == [g \in EntriesOf(i) |-> dir[g]]
BufIs(kind, i, val) == buf = [kind |-> kind, i |-> i, val |-> val]
\* The sector in buf has no entries left behind by an earlier format.
NotStale(t) == /\ BufIs("dir", call[t].i, Sector(call[t].i))
               /\ \A g \in EntriesOf(call[t].i) : g >= Size => dir[g] = Blank

Idling(t) == call[t].at = "idle" => call[t] = Idle

Searching(t) ==
    LET c == call[t] IN
    c.at \in {"search", "look"} =>
        /\ c.name \in Name /\ c.n = Size /\ c.start = 0 /\ c.then = "idle"
        /\ \A g \in Old : g < c.i * SectEntries => dir[g].name # c.name
        /\ c.at = "look" => NotStale(t)

Marking(t) ==
    LET c == call[t] IN
    c.at \in {"imap", "imapset", "imapwrite"} =>
        /\ c.name \in Name /\ Fresh(t) /\ c.i = 0 /\ c.start = 0 /\ c.then = "idle"
        /\ c.at = "imapset" => BufIs("imap", 0, imap)
        /\ c.at = "imapwrite" => /\ c.ino = Size + 1 /\ Size + 1 < ImapBits
                                 /\ BufIs("imap", 0, 0 .. Size + 1)

\* All bits of earlier sectors are set, and those of this one up to where the
\* run starts; it then goes on to the end of the sector.
Edge(i) == i * SectBits
Taken(t) == {b \in BitsOf(call[t].i) : call[t].start <= b /\ b < call[t].start + FileSects}
Taking(t) ==
    LET c == call[t] IN
    c.at \in {"smap", "smapset", "smapwrite"} =>
        /\ c.name \in Name /\ New(t) /\ c.then = "idle"
        /\ c.i < SmapSects
        /\ \A b \in Bit : b < Edge(c.i) => b \in smap
        /\ c.start # 0 => Behind(t)
        /\ c.at # "smapwrite" =>
              IF c.start = 0 THEN c.left = FileSects
              ELSE c.left # 0 /\ c.start <= Edge(c.i) /\ c.start + FileSects = Edge(c.i) + c.left
        /\ c.at = "smapset" => BufIs("smap", c.i, smap \cap BitsOf(c.i))
        /\ c.at = "smapwrite" =>
              /\ c.start # 0 /\ c.start < Edge(c.i + 1)
              /\ \A b \in Bit : b < c.start => b \in smap
              /\ c.left = IF c.start + FileSects <= Edge(c.i + 1) THEN 0
                          ELSE (c.start + FileSects) - Edge(c.i + 1)
              /\ BufIs("smap", c.i, (smap \cap BitsOf(c.i)) \cup Taken(t))

Getting(t) ==
    LET c == call[t] IN
    c.at \in {"get", "load", "take", "new"} =>
        /\ c.name \in Name /\ c.then = "idle"
        /\ IF c.create THEN New(t) /\ Placed(t) ELSE c.at # "new" /\ c.ino \in 2 .. Size /\ dir[c.ino - 1].name = c.name
        /\ c.at # "get" => c.pin # 0 /\ itab[c.pin].num = c.ino /\ itab[c.pin].cnt = 1
        /\ c.at = "take" => BufIs("ino", 0, dinode)

Syncs(t) ==
    LET c == call[t]
        p == itab[c.pin] IN
    c.at \in Syncing =>
        /\ c.then = "idle" =>
              c.name = None /\ ~c.create /\ c.pin # 0 /\ p.cnt # 0 /\ dinode[p.num].start = p.start
        /\ c.then = "dir" => c.name \in Name /\ New(t) /\ Placed(t) /\ InSlot(t, c.pin) /\ c.i = 0
        /\ c.then = "open" => /\ c.name \in Name /\ New(t) /\ Placed(t) /\ c.pin = 0
                              /\ c.left \in Slot /\ InSlot(t, c.left) /\ OnCard(t)
                              /\ Size \in Index /\ dir[Size] = Entry(t)
        /\ c.at = "syncset" => BufIs("ino", 0, dinode)
        /\ c.at = "syncwrite" => BufIs("ino", 0, [dinode EXCEPT ![p.num] = Inode(p.size, p.start)])

Entering(t) ==
    LET c == call[t] IN
    c.at \in {"dir", "dirset", "dirwrite"} =>
        /\ c.name \in Name /\ New(t) /\ Placed(t) /\ InSlot(t, c.pin) /\ OnCard(t)
        /\ c.then = "dir" /\ c.n = Size /\ c.i * SectEntries <= Size
        /\ c.at = "dirset" => NotStale(t)
        /\ c.at = "dirwrite" => /\ Size \in EntriesOf(c.i) /\ dir[Size] = Blank
                                /\ BufIs("dir", c.i, [Sector(c.i) EXCEPT ![Size] = Entry(t)])

Claiming(t) ==
    LET c == call[t] IN
    c.at = "claim" => /\ c.name \in Name /\ c.pin # 0 /\ itab[c.pin].num \in 2 .. Size
                      /\ itab[c.pin].cnt # 0
                      /\ dir[itab[c.pin].num - 1].name = c.name
                      /\ c.create <=> c.then = "open"

Using(t) ==
    LET c == call[t] IN
    c.at \in {"data", "datause"} =>
        /\ c.name = None /\ ~c.create /\ c.pin # 0 /\ itab[c.pin].cnt # 0
        /\ c.at = "datause" => Holds("data", c.pin)

\* What open has put aside for the new descriptor is still free.
Reserved(t) == 
    LET c == call[t] IN
    c.name # None => c.fd \in File /\ c.d \in Desc /\ fdt[c.d] = None /\ filp[t][c.fd] = None

Where(t) == /\ Idling(t) /\ Searching(t) /\ Marking(t) /\ Taking(t) /\ Getting(t)
            /\ Syncs(t) /\ Entering(t) /\ Claiming(t) /\ Using(t)

Lone(t)  == \A u \in Task \ {t} : call[u] = Idle
Sound(t) == Card(t) /\ Descriptors /\ Table(t) /\ Reserved(t) /\ Where(t)
Ext2State == ~wild /\ Ext2Types /\ \E t \in Task : Lone(t) /\ Sound(t)
Ext2Inv == breach = {} => Ext2State

-----------------------------------------------------------------------------
(* Numbers                                                                 *)

LEMMA Times ==
    /\ \A i, j, n \in Nat : i < j => i * n + n <= j * n
    /\ \A i, n \in Nat : i * n \in Nat
    /\ \A i, n \in Nat : (i + 1) * n = i * n + n
  BY SMT

\* A number lies in one stretch of k, and in no other.
LEMMA Stretch ==
    ASSUME NEW g \in Nat, NEW i \in Nat, NEW k \in Nat \ {0}
    PROVE  g \div k = i <=> i * k <= g /\ g < i * k + k
  <1> DEFINE q == g \div k
  <1>1. q \in Nat /\ g % k \in Nat /\ g % k < k /\ g % k = g - k * q
    BY SMT
  <1> HIDE DEF q
  <1>2. k * q = q * k /\ q * k \in Nat /\ i * k \in Nat
    BY <1>1, SMT
  <1> DEFINE a == q * k
             b == i * k
  <1>3. /\ a \in Nat /\ b \in Nat /\ a <= g /\ g < a + k
        /\ (q < i => a + k <= b) /\ (i < q => b + k <= a) /\ (q = i => a = b)
    <2>1. g % k = g - a
      BY <1>1, <1>2
    <2>2. a \in Nat /\ b \in Nat
      BY <1>2
    <2>3. (q < i => a + k <= b) /\ (i < q => b + k <= a) /\ (q = i => a = b)
      BY <1>1, Times
    <2> HIDE DEF a, b
    <2> QED BY <1>1, <2>1, <2>2, <2>3
  <1> HIDE DEF a, b
  <1>4. q = i <=> b <= g /\ g < b + k
    BY <1>1, <1>3
  <1> QED BY <1>4 DEF q, b

\* The smallest number of a set
LEMMA LeastIn ==
    ASSUME NEW S \in SUBSET Nat, S # {}
    PROVE  Least(S) \in S /\ \A j \in S : Least(S) <= j
  <1>1. PICK k \in S : \A j \in S : ~ <<j, k>> \in OpToRel(<, Nat)
    BY NatLessThanWellFounded, WFMin
  <1>2. \A j \in S : ~(j < k)
    BY <1>1 DEF OpToRel
  <1>3. k \in S /\ \A j \in S : k <= j
    BY <1>2
  <1> QED BY <1>3 DEF Least

LEMMA Constants ==
    /\ NumFiles \in Nat \ {0} /\ NumFileDesc \in Nat \ {0} /\ NumInode \in Nat \ {0}
    /\ SmapSects \in Nat \ {0} /\ FileSects \in Nat \ {0} /\ SectEntries \in Nat \ {0}
    /\ ImapBits \in Nat /\ ImapBits > 2 /\ SectBits \in Nat /\ SectBits > FileSects
    /\ None \notin Nat /\ None \notin Name /\ None # Dot /\ Dot \notin Name
    /\ \A n \in Name \cup {Dot} : NameLen[n] \in Nat \ {0}
    /\ Slot \subseteq Nat /\ 0 \in Slot /\ Desc \subseteq Nat /\ File \subseteq Nat
    /\ 0 \in Ino /\ Root \in Ino /\ Ino \subseteq Nat
  BY Ext2Assumption DEF Slot, Desc, File, Ino, Root

LEMMA Indices == Index \subseteq Nat /\ \A g \in 0 .. ImapBits : g \in Index
  <1>1. \A a, b \in Nat : b # 0 => (a + 1) * b \in Nat /\ a < (a + 1) * b
    <2> SUFFICES ASSUME NEW a \in Nat, NEW b \in Nat, b # 0
                 PROVE  (a + 1) * b \in Nat /\ a < (a + 1) * b
      OBVIOUS
    <2>1. (a + 1) * b = b + a * b /\ a * b \in Nat /\ a * b >= a
      BY SMT
    <2> QED BY <2>1
  <1> DEFINE n == (ImapBits + 1) * SectEntries
  <1>2. n \in Nat /\ ImapBits < n
    BY <1>1, Constants
  <1> HIDE DEF n
  <1>3. Index = 0 .. n - 1
    BY DEF Index, n
  <1> QED BY <1>2, <1>3, Constants

\* The directory entries and the bits of one sector
LEMMA EntriesHere ==
    ASSUME NEW i \in Nat
    PROVE  EntriesOf(i) = {g \in Index : i * SectEntries <= g /\ g < (i + 1) * SectEntries}
  <1>1. \A g \in Index : g \div SectEntries = i <=> i * SectEntries <= g /\ g < i * SectEntries + SectEntries
    BY Stretch, Indices, Constants
  <1>2. (i + 1) * SectEntries = i * SectEntries + SectEntries
    BY Times, Constants
  <1> QED BY <1>1, <1>2 DEF EntriesOf

LEMMA Edges ==
    /\ Edge(0) = 0 /\ \A i \in Nat : Edge(i) \in Nat /\ Edge(i + 1) = Edge(i) + SectBits
    /\ \A i \in Nat : i < SmapSects => Edge(i + 1) <= Edge(SmapSects)
    /\ Bit = 0 .. Edge(SmapSects) - 1
  <1>1. 0 * SectBits = 0 /\ \A i \in Nat : i * SectBits \in Nat /\ (i + 1) * SectBits = i * SectBits + SectBits
    BY Times, Constants
  <1>2. \A i \in Nat : i < SmapSects => i * SectBits + SectBits <= SmapSects * SectBits
    BY Times, Constants
  <1>3. \A i \in Nat : Edge(i) \in Nat /\ Edge(i + 1) = Edge(i) + SectBits
    BY <1>1, Zenon DEF Edge
  <1>4. Edge(0) = 0 /\ Bit = 0 .. Edge(SmapSects) - 1
    BY <1>1, Zenon DEF Edge, Bit
  <1>5. \A i \in Nat : i < SmapSects => Edge(i) + SectBits <= Edge(SmapSects)
    BY <1>2, Zenon DEF Edge
  <1> QED BY <1>3, <1>4, <1>5

LEMMA BitsHere ==
    ASSUME NEW i \in Nat, i < SmapSects
    PROVE  BitsOf(i) = Edge(i) .. Edge(i + 1) - 1
  <1>1. Bit \subseteq Nat
    BY Edges, Constants
  <1>2. \A b \in Bit : b \div SectBits = i <=> i * SectBits <= b /\ b < i * SectBits + SectBits
    BY <1>1, Stretch, Constants
  <1>3. BitsOf(i) = {b \in Bit : Edge(i) <= b /\ b < Edge(i + 1)}
    <2>1. Edge(i + 1) = i * SectBits + SectBits /\ Edge(i) = i * SectBits
      BY Edges DEF Edge
    <2> QED BY <1>2, <2>1 DEF BitsOf
  <1>4. Edge(i) \in Nat /\ Edge(i + 1) \in Nat /\ Edge(SmapSects) \in Nat
    <2>1. i + 1 \in Nat /\ SmapSects \in Nat
      BY Constants
    <2> QED BY <2>1, Edges, Zenon
  <1>5. Edge(i + 1) <= Edge(SmapSects) /\ Bit = 0 .. Edge(SmapSects) - 1
    BY Edges
  <1> DEFINE a == Edge(i)  z == Edge(i + 1)  top == Edge(SmapSects)
  <1> HIDE DEF a, z, top
  <1>6. a \in Nat /\ z \in Nat /\ top \in Nat /\ z <= top
    BY <1>4, <1>5 DEF a, z, top
  <1>7. {b \in 0 .. top - 1 : a <= b /\ b < z} = a .. z - 1
    BY <1>6
  <1> QED BY <1>3, <1>5, <1>7, Zenon DEF a, z, top

-----------------------------------------------------------------------------
(* Steps that change neither card nor tables                               *)

\* Where a call goes on, and with what.
LEMMA Goes ==
    ASSUME Ext2Types, NEW t \in Task, NEW l \in Point, NEW e \in Calls, Goto(t, l, e)
    PROVE  /\ call' \in [Task -> Calls] /\ \A u \in Task \ {t} : call'[u] = call[u]
           /\ call'[t] = [e EXCEPT !.at = l]
           /\ call'[t].at = l /\ call'[t].name = e.name /\ call'[t].create = e.create
           /\ call'[t].fd = e.fd /\ call'[t].d = e.d /\ call'[t].i = e.i /\ call'[t].n = e.n
           /\ call'[t].ino = e.ino /\ call'[t].pin = e.pin /\ call'[t].left = e.left
           /\ call'[t].start = e.start /\ call'[t].then = e.then
  <1>1. [e EXCEPT !.at = l] \in Calls
    BY DEF Calls
  <1>2. call' = [call EXCEPT ![t] = [e EXCEPT !.at = l]]
    BY DEF Goto
  <1> QED BY <1>1, <1>2 DEF Ext2Types, Calls

LEMMA CallType == ASSUME Ext2Types, NEW t \in Task PROVE call[t] \in Calls
  BY DEF Ext2Types

\* A call that is over
LEMMA IdleCall == Idle \in Calls
  BY Constants DEF Idle, Calls, Point

LEMMA Returns ==
    ASSUME Ext2Types, NEW t \in Task, call' = [call EXCEPT ![t] = Idle]
    PROVE  call' \in [Task -> Calls] /\ call'[t] = Idle /\ \A u \in Task \ {t} : call'[u] = call[u]
  BY IdleCall DEF Ext2Types

LEMMA StaysLone ==
    ASSUME NEW t \in Task, Lone(t), \A u \in Task \ {t} : call'[u] = call[u]
    PROVE  Lone(t)'
  BY DEF Lone

\* What is said of other points than the one the task is at
LEMMA Vacuous ==
    ASSUME NEW t
    PROVE  /\ call'[t].at # "idle" => Idling(t)'
           /\ call'[t].at \notin {"search", "look"} => Searching(t)'
           /\ call'[t].at \notin {"imap", "imapset", "imapwrite"} => Marking(t)'
           /\ call'[t].at \notin {"smap", "smapset", "smapwrite"} => Taking(t)'
           /\ call'[t].at \notin {"get", "load", "take", "new"} => Getting(t)'
           /\ call'[t].at \notin Syncing => Syncs(t)'
           /\ call'[t].at \notin {"dir", "dirset", "dirwrite"} => Entering(t)'
           /\ call'[t].at # "claim" => Claiming(t)'
           /\ call'[t].at \notin {"data", "datause"} => Using(t)'
  BY DEF Idling, Searching, Marking, Taking, Getting, Syncs, Entering, Claiming, Using, Syncing

LEMMA Concludes ==
    ASSUME NEW t \in Task, Ext2Types', ~wild', Lone(t)',
           Card(t)', Descriptors', Table(t)', Reserved(t)', Where(t)'
    PROVE  Ext2State'
  BY DEF Ext2State, Sound

LEMMA TypesKept ==
    ASSUME Ext2Types, UNCHANGED <<card, tables>>, call' \in [Task -> Calls]
    PROVE  Ext2Types'
  BY DEF Ext2Types, card, tables

\* A step that leaves card and tables alone
LEMMA StateKept ==
    ASSUME Ext2Types, NEW t \in Task, Card(t), Descriptors, Table(t), UNCHANGED <<card, tables>>,
           Pending(t)' = Pending(t), Grown(t)' = Grown(t),
           \A s \in Slot : Keeps(t, s)' = Keeps(t, s),
           \A s \in Slot : Ahead(t, s)' = Ahead(t, s)
    PROVE  Card(t)' /\ Descriptors' /\ Table(t)'
  <1>1. Size' = Size /\ Old' = Old /\ \A g : First(g)' = First(g)
    BY DEF Size, Old, First, card
  <1>2. Card(t)'
    <2>1. Bits'
      BY <1>1 DEF Card, Bits, card
    <2>2. Entries'
      BY <1>1 DEF Card, Entries, card
    <2> QED BY <1>1, <2>1, <2>2 DEF Card, card
  <1>3. Descriptors'
    BY DEF Descriptors, tables
  <1>4. Table(t)'
    <2>1. \A s : Users(s)' = Users(s)
      BY DEF Users, tables
    <2> QED BY <1>1, <2>1 DEF Table, tables, card
  <1> QED BY <1>2, <1>3, <1>4

\* The same inside a call
LEMMA AllKept ==
    ASSUME Ext2Types, NEW t \in Task, Card(t), Descriptors, Table(t), Reserved(t),
           UNCHANGED <<card, tables>>,
           Pending(t)' = Pending(t), Grown(t)' = Grown(t),
           \A s \in Slot : Keeps(t, s)' = Keeps(t, s),
           \A s \in Slot : Ahead(t, s)' = Ahead(t, s),
           call'[t].name = call[t].name \/ call'[t].name = None,
           call'[t].fd = call[t].fd \/ call'[t].name = None,
           call'[t].d = call[t].d \/ call'[t].name = None
    PROVE  Card(t)' /\ Descriptors' /\ Table(t)' /\ Reserved(t)'
  <1>1. Card(t)' /\ Descriptors' /\ Table(t)'
    BY StateKept
  <1>2. Reserved(t)'
    BY DEF Reserved, tables
  <1> QED BY <1>1, <1>2

\* The call only goes on, between points of the same kind.
LEMMA Advances ==
    ASSUME Ext2Types, NEW t \in Task, Lone(t), Sound(t), ~wild, NEW l \in Point,
           Goto(t, l, call[t]), UNCHANGED <<card, tables>>, wild' = wild,
           \/ call[t].at \in {"search", "look"} /\ l \in {"search", "look"}
           \/ call[t].at \in {"imap", "imapset"} /\ l = "imapset"
           \/ call[t].at \in {"smap", "smapset"} /\ l = "smapset"
           \/ call[t].at \in {"load", "take"} /\ l = "take"
           \/ call[t].at \in Syncing /\ l \in Syncing
           \/ call[t].at \in {"dir", "dirset"} /\ l = "dirset"
           \/ call[t].at = "data" /\ l = "datause"
    PROVE  /\ Ext2Types' /\ Lone(t)' /\ Card(t)' /\ Descriptors' /\ Table(t)' /\ Reserved(t)' /\ ~wild'
           /\ call'[t] = [call[t] EXCEPT !.at = l]
           /\ Size' = Size /\ Old' = Old /\ \A g : First(g)' = First(g)
           /\ call'[t].at = l /\ call'[t].name = call[t].name /\ call'[t].create = call[t].create
           /\ call'[t].i = call[t].i /\ call'[t].n = call[t].n
           /\ call'[t].ino = call[t].ino /\ call'[t].pin = call[t].pin /\ call'[t].left = call[t].left
           /\ call'[t].start = call[t].start /\ call'[t].then = call[t].then
           /\ Fresh(t)' = Fresh(t) /\ New(t)' = New(t) /\ Behind(t)' = Behind(t) /\ Placed(t)' = Placed(t)
  <1>1. call[t] \in Calls
    BY CallType
  <1>2. /\ call' \in [Task -> Calls] /\ \A u \in Task \ {t} : call'[u] = call[u]
        /\ call'[t] = [call[t] EXCEPT !.at = l]
        /\ call'[t].at = l /\ call'[t].name = call[t].name /\ call'[t].create = call[t].create
        /\ call'[t].fd = call[t].fd /\ call'[t].d = call[t].d /\ call'[t].i = call[t].i
        /\ call'[t].n = call[t].n /\ call'[t].ino = call[t].ino /\ call'[t].pin = call[t].pin
        /\ call'[t].left = call[t].left /\ call'[t].start = call[t].start /\ call'[t].then = call[t].then
    BY <1>1, Goes
  <1>3. Pending(t)' = Pending(t)
    BY <1>2 DEF Pending, Syncing
  <1>4. Grown(t)' = Grown(t)
    BY <1>2 DEF Grown, Syncing
  <1>5. \A s \in Slot : Keeps(t, s)' = Keeps(t, s)
    BY <1>2 DEF Keeps, Syncing
  <1>6. \A s \in Slot : Ahead(t, s)' = Ahead(t, s)
    BY <1>2 DEF Ahead, Syncing
  <1>7. Card(t)' /\ Descriptors' /\ Table(t)' /\ Reserved(t)'
    BY <1>2, <1>3, <1>4, <1>5, <1>6, AllKept DEF Sound
  <1>8. Ext2Types' /\ Lone(t)'
    BY <1>2, TypesKept, StaysLone
  <1>9. Size' = Size /\ Old' = Old /\ \A g : First(g)' = First(g)
    BY DEF Size, Old, First, card
  <1>10. /\ Fresh(t)' = Fresh(t) /\ New(t)' = New(t) /\ Behind(t)' = Behind(t)
         /\ Placed(t)' = Placed(t)
    BY <1>2, <1>9 DEF Fresh, New, Behind, Placed, card
  <1> QED BY <1>2, <1>7, <1>8, <1>9, <1>10

\* A sector is read: what is then in buf is what the card holds.
LEMMA ReadKeeps ==
    ASSUME Ext2Types, NEW t \in Task, Lone(t), Sound(t), ~wild, breach' = {},
           \/ SearchRead(t) \/ ImapRead(t) \/ SmapRead(t) \/ LoadRead(t)
           \/ SyncRead(t) \/ DirRead(t) \/ DataRead(t)
    PROVE  Ext2State'
  <1> USE DEF Reads, At, Load, Point, Syncing
  <1>1. ASSUME ReadDir(t, "search", "look") \/ ReadDir(t, "dir", "dirset")
        PROVE  /\ BufIs("dir", call[t].i, Sector(call[t].i))'
               /\ call[t].n = Size => \A g \in EntriesOf(call[t].i) : g >= Size => dir[g] = Blank
    <2>1. /\ buf' = [kind |-> "dir", i |-> call[t].i, val |-> [g \in EntriesOf(call[t].i) |-> dir[g]]]
          /\ dir' = dir /\ call'[t].i = call[t].i
      <3>1. call[t] \in Calls
        BY CallType
      <3> QED BY <1>1, <3>1, Goes DEF ReadDir, card
    <2>2. ~StaleIn(call[t].i, call[t].n)
      BY <1>1 DEF ReadDir, Breaks, Only
    <2>3. \A g \in Index : dir[g].last = 0 => dir[g] = Blank
      BY DEF Sound, Card, Entries
    <2> QED BY <2>1, <2>2, <2>3 DEF BufIs, Sector, StaleIn, EntriesOf
  <1>2. CASE SearchRead(t)
    <2>1. /\ call[t].at = "search" /\ Goto(t, "look", call[t]) /\ UNCHANGED <<card, tables>> /\ wild' = wild
      BY <1>2 DEF SearchRead, ReadDir
    <2>2. /\ Ext2Types' /\ Lone(t)' /\ Card(t)' /\ Descriptors' /\ Table(t)' /\ Reserved(t)' /\ ~wild'
          /\ Size' = Size /\ Old' = Old /\ call'[t].at = "look" /\ call'[t].name = call[t].name
          /\ call'[t].i = call[t].i /\ call'[t].n = call[t].n /\ call'[t].start = call[t].start
          /\ call'[t].then = call[t].then
      BY <2>1, Advances
    <2>3. Searching(t)'
      BY <1>1, <1>2, <2>1, <2>2 DEF SearchRead, Searching, NotStale, Sound, Where, card
    <2> QED BY <2>2, <2>3, Vacuous, Concludes DEF Where
  <1>3. CASE ImapRead(t)
    <2>1. /\ call[t].at = "imap" /\ Goto(t, "imapset", call[t]) /\ UNCHANGED <<card, tables>> /\ wild' = wild
          /\ buf' = [kind |-> "imap", i |-> 0, val |-> imap]
      BY <1>3 DEF ImapRead
    <2>2. /\ Ext2Types' /\ Lone(t)' /\ Card(t)' /\ Descriptors' /\ Table(t)' /\ Reserved(t)' /\ ~wild'
          /\ call'[t].at = "imapset" /\ call'[t].name = call[t].name
          /\ call'[t].i = call[t].i /\ call'[t].start = call[t].start
          /\ call'[t].then = call[t].then /\ Fresh(t)' = Fresh(t)
      BY <2>1, Advances
    <2>3. Marking(t)'
      BY <2>1, <2>2 DEF Marking, BufIs, Sound, Where, card
    <2> QED BY <2>2, <2>3, Vacuous, Concludes DEF Where
  <1>4. CASE SmapRead(t)
    <2>1. /\ call[t].at = "smap" /\ Goto(t, "smapset", call[t]) /\ UNCHANGED <<card, tables>> /\ wild' = wild
          /\ buf' = [kind |-> "smap", i |-> call[t].i, val |-> smap \cap BitsOf(call[t].i)]
      BY <1>4 DEF SmapRead
    <2>2. /\ Ext2Types' /\ Lone(t)' /\ Card(t)' /\ Descriptors' /\ Table(t)' /\ Reserved(t)' /\ ~wild'
          /\ call'[t].at = "smapset" /\ call'[t].name = call[t].name
          /\ call'[t].i = call[t].i /\ call'[t].start = call[t].start /\ call'[t].left = call[t].left
          /\ call'[t].then = call[t].then /\ New(t)' = New(t) /\ Behind(t)' = Behind(t)
      BY <2>1, Advances
    <2>3. Taking(t)'
      BY <2>1, <2>2 DEF Taking, BufIs, Sound, Where, card
    <2> QED BY <2>2, <2>3, Vacuous, Concludes DEF Where
  <1>5. CASE LoadRead(t)
    <2>1. /\ call[t].at = "load" /\ Goto(t, "take", call[t]) /\ UNCHANGED <<card, tables>> /\ wild' = wild
          /\ buf' = [kind |-> "ino", i |-> 0, val |-> dinode]
      BY <1>5 DEF LoadRead
    <2>2. /\ Ext2Types' /\ Lone(t)' /\ Card(t)' /\ Descriptors' /\ Table(t)' /\ Reserved(t)' /\ ~wild'
          /\ call'[t].at = "take" /\ call'[t].name = call[t].name /\ Size' = Size
          /\ call'[t].create = call[t].create /\ call'[t].ino = call[t].ino /\ call'[t].pin = call[t].pin
          /\ call'[t].then = call[t].then /\ New(t)' = New(t) /\ Placed(t)' = Placed(t)
      BY <2>1, Advances
    <2>3. Getting(t)'
      BY <2>1, <2>2 DEF Getting, BufIs, Sound, Where, card, tables
    <2> QED BY <2>2, <2>3, Vacuous, Concludes DEF Where
  <1>6. CASE SyncRead(t)
    <2>1. /\ call[t].at = "sync" /\ Goto(t, "syncset", call[t]) /\ UNCHANGED <<card, tables>> /\ wild' = wild
          /\ buf' = [kind |-> "ino", i |-> 0, val |-> dinode]
      BY <1>6 DEF SyncRead
    <2>2. /\ Ext2Types' /\ Lone(t)' /\ Card(t)' /\ Descriptors' /\ Table(t)' /\ Reserved(t)' /\ ~wild'
          /\ call'[t].at = "syncset" /\ call'[t].name = call[t].name /\ Size' = Size
          /\ call'[t].create = call[t].create /\ call'[t].ino = call[t].ino /\ call'[t].pin = call[t].pin
          /\ call'[t].i = call[t].i /\ call'[t].start = call[t].start /\ call'[t].left = call[t].left
          /\ call'[t].then = call[t].then /\ New(t)' = New(t) /\ Placed(t)' = Placed(t)
      BY <2>1, Advances
    <2>3. Syncs(t)'
      BY <2>1, <2>2 DEF Syncs, InSlot, OnCard, Entry, BufIs, Sound, Where, card, tables
    <2> QED BY <2>2, <2>3, Vacuous, Concludes DEF Where
  <1>7. CASE DirRead(t)
    <2>1. /\ call[t].at = "dir" /\ Goto(t, "dirset", call[t]) /\ UNCHANGED <<card, tables>> /\ wild' = wild
      BY <1>7 DEF DirRead, ReadDir
    <2>2. /\ Ext2Types' /\ Lone(t)' /\ Card(t)' /\ Descriptors' /\ Table(t)' /\ Reserved(t)' /\ ~wild'
          /\ call'[t].at = "dirset" /\ call'[t].name = call[t].name /\ Size' = Size
          /\ call'[t].ino = call[t].ino /\ call'[t].pin = call[t].pin
          /\ call'[t].i = call[t].i /\ call'[t].n = call[t].n /\ call'[t].start = call[t].start
          /\ call'[t].then = call[t].then /\ New(t)' = New(t) /\ Placed(t)' = Placed(t)
      BY <2>1, Advances
    <2>3. Entering(t)'
      BY <1>1, <1>7, <2>1, <2>2 DEF DirRead, Entering, NotStale, InSlot, OnCard, Sound, Where, card, tables
    <2> QED BY <2>2, <2>3, Vacuous, Concludes DEF Where
  <1>8. CASE DataRead(t)
    <2>1. /\ call[t].at = "data" /\ Goto(t, "datause", call[t]) /\ UNCHANGED <<card, tables>> /\ wild' = wild
          /\ buf' = [kind |-> "data", i |-> call[t].pin, val |-> None]
      BY <1>8 DEF DataRead
    <2>2. /\ Ext2Types' /\ Lone(t)' /\ Card(t)' /\ Descriptors' /\ Table(t)' /\ Reserved(t)' /\ ~wild'
          /\ call'[t].at = "datause" /\ call'[t].name = call[t].name
          /\ call'[t].create = call[t].create /\ call'[t].pin = call[t].pin
      BY <2>1, Advances
    <2>3. Using(t)'
      BY <2>1, <2>2 DEF Using, Holds, Sound, Where, tables
    <2> QED BY <2>2, <2>3, Vacuous, Concludes DEF Where
  <1> QED BY <1>2, <1>3, <1>4, <1>5, <1>6, <1>7, <1>8

\* Points at which a call holds no slot and has changed none
Loose == {"idle", "search", "look", "imap", "imapset", "imapwrite", "smap", "smapset",
          "smapwrite", "get", "data", "datause"}

LEMMA Turns ==
    ASSUME Ext2Types, NEW t \in Task, Lone(t), Sound(t), ~wild, NEW l \in Loose, NEW e \in Calls,
           call[t].at \in Loose, Goto(t, l, e), UNCHANGED <<card, tables>>, wild' = wild,
           e.name = call[t].name, e.fd = call[t].fd, e.d = call[t].d,
           (e.create /\ l \in {"smap", "smapset", "smapwrite", "get"})
              <=> (call[t].create /\ call[t].at \in {"smap", "smapset", "smapwrite", "get"})
    PROVE  /\ Ext2Types' /\ Lone(t)' /\ Card(t)' /\ Descriptors' /\ Table(t)' /\ Reserved(t)' /\ ~wild'
           /\ Size' = Size /\ Old' = Old /\ \A g : First(g)' = First(g)
           /\ call'[t].at = l /\ call'[t].name = e.name /\ call'[t].create = e.create
           /\ call'[t].i = e.i /\ call'[t].n = e.n
           /\ call'[t].ino = e.ino /\ call'[t].pin = e.pin /\ call'[t].left = e.left
           /\ call'[t].start = e.start /\ call'[t].then = e.then
  <1>1. l \in Point
    BY DEF Loose, Point
  <1>2. /\ call' \in [Task -> Calls] /\ \A u \in Task \ {t} : call'[u] = call[u]
        /\ call'[t].at = l /\ call'[t].name = e.name /\ call'[t].create = e.create
        /\ call'[t].fd = e.fd /\ call'[t].d = e.d /\ call'[t].i = e.i
        /\ call'[t].n = e.n /\ call'[t].ino = e.ino /\ call'[t].pin = e.pin
        /\ call'[t].left = e.left /\ call'[t].start = e.start /\ call'[t].then = e.then
    <2>1. /\ call' \in [Task -> Calls] /\ \A u \in Task \ {t} : call'[u] = call[u]
          /\ call'[t] = [e EXCEPT !.at = l]
      BY <1>1, Goes
    <2>2. call'[t].at = l /\ call'[t].name = e.name /\ call'[t].create = e.create
      BY <1>1, <2>1 DEF Calls
    <2>3. call'[t].fd = e.fd /\ call'[t].d = e.d /\ call'[t].i = e.i /\ call'[t].n = e.n
      BY <1>1, <2>1 DEF Calls
    <2>4. /\ call'[t].ino = e.ino /\ call'[t].pin = e.pin
          /\ call'[t].left = e.left /\ call'[t].start = e.start /\ call'[t].then = e.then
      BY <1>1, <2>1 DEF Calls
    <2> QED BY <2>1, <2>2, <2>3, <2>4
  <1>3. Pending(t)' = Pending(t)
    BY <1>2 DEF Pending, Syncing, Loose
  <1>4. Grown(t)' = Grown(t)
    BY <1>2 DEF Grown, Syncing, Loose
  <1>5. \A s \in Slot : Keeps(t, s)' = Keeps(t, s)
    BY <1>2 DEF Keeps, Syncing, Loose
  <1>6. \A s \in Slot : Ahead(t, s)' = Ahead(t, s)
    BY <1>2 DEF Ahead, Syncing, Loose
  <1>7. Card(t)' /\ Descriptors' /\ Table(t)' /\ Reserved(t)'
    BY <1>2, <1>3, <1>4, <1>5, <1>6, AllKept DEF Sound
  <1>8. Ext2Types' /\ Lone(t)'
    BY <1>2, TypesKept, StaysLone
  <1>9. Size' = Size /\ Old' = Old /\ \A g : First(g)' = First(g)
    BY DEF Size, Old, First, card
  <1> QED BY <1>2, <1>7, <1>8, <1>9

\* The call is over and has changed nothing.
LEMMA Ends ==
    ASSUME Ext2Types, NEW t \in Task, Lone(t), Sound(t), ~wild,
           call[t].at \in {"look", "datause"}, call' = [call EXCEPT ![t] = Idle],
           UNCHANGED <<card, tables>>, wild' = wild
    PROVE  Ext2State'
  <1>1. /\ call' \in [Task -> Calls] /\ call'[t] = Idle /\ \A u \in Task \ {t} : call'[u] = call[u]
    BY Returns
  <1>2. call'[t].at = "idle" /\ call'[t].name = None /\ ~call'[t].create
    BY <1>1 DEF Idle
  <1>3. Pending(t)' = Pending(t)
    BY <1>2 DEF Pending, Syncing
  <1>4. Grown(t)' = Grown(t)
    BY <1>2 DEF Grown, Syncing
  <1>5. \A s \in Slot : Keeps(t, s)' = Keeps(t, s)
    BY <1>2 DEF Keeps, Syncing
  <1>6. \A s \in Slot : Ahead(t, s)' = Ahead(t, s)
    BY <1>2 DEF Ahead, Syncing
  <1>7. Card(t)' /\ Descriptors' /\ Table(t)' /\ Reserved(t)'
    BY <1>2, <1>3, <1>4, <1>5, <1>6, AllKept DEF Sound
  <1>8. Ext2Types' /\ Lone(t)'
    BY <1>1, TypesKept, StaysLone
  <1>9. Where(t)'
    BY <1>1, <1>2, Vacuous DEF Where, Idling, Syncing
  <1> QED BY <1>7, <1>8, <1>9, Concludes

-----------------------------------------------------------------------------
(* The search of the directory                                             *)

\* A listed entry is found by its name, and by nothing else.
LEMMA FoundListed ==
    ASSUME Ext2Types, NEW t \in Task, Sound(t), call[t].at = "look"
    PROVE  /\ Found(call[t]) \subseteq Index
           /\ \A g \in Found(call[t]) : g \in 1 .. Size - 1 /\ dir[g].name = call[t].name
                                         /\ buf.val[g].ino = g + 1
           /\ \A g \in Old : g \in EntriesOf(call[t].i) /\ dir[g].name = call[t].name => g \in Found(call[t])
  <1> DEFINE c == call[t]
  <1>1. /\ c.name \in Name /\ c.n = Size /\ buf.val = Sector(c.i)
        /\ \A g \in EntriesOf(c.i) : g >= Size => dir[g] = Blank
    BY DEF Sound, Where, Searching, NotStale, BufIs
  <1>2. EntriesOf(c.i) \subseteq Index /\ Index \subseteq Nat /\ Size \in Nat
    BY Indices, Constants DEF EntriesOf, Ext2Types, Size, Inodes
  <1>3. \A g \in EntriesOf(c.i) : buf.val[g] = dir[g]
    BY <1>1 DEF Sector
  <1>4. ASSUME NEW g \in Found(c)
        PROVE  g \in 1 .. Size - 1 /\ dir[g].name = c.name /\ buf.val[g].ino = g + 1
    <2>1. g \in EntriesOf(c.i) /\ g <= Size /\ dir[g].name = c.name
      BY <1>1, <1>3 DEF Found, Names
    <2>2. dir[g] # Blank
      BY <1>1, <2>1, Constants DEF Blank
    <2>3. g < Size
      <3>1. g \in Nat /\ Size \in Nat /\ ~(g >= Size)
        BY <1>1, <1>2, <2>1, <2>2
      <3> QED BY <3>1
    <2>4. g # 0
      BY <1>1, <2>1, Constants DEF Sound, Card, Entries
    <2>5. dir[g].ino = g + 1
      BY <1>2, <2>1, <2>2 DEF Sound, Card, Entries
    <2>6. g \in Nat /\ buf.val[g] = dir[g]
      BY <1>2, <1>3, <2>1
    <2>7. g \in 1 .. Size - 1
      BY <1>2, <2>3, <2>4, <2>6
    <2> QED BY <2>1, <2>5, <2>6, <2>7
  <1>5. ASSUME NEW g \in Old, g \in EntriesOf(c.i), dir[g].name = c.name
        PROVE  g \in Found(c)
    <2>1. dir[g].last = NameLen[c.name]
      BY <1>5 DEF Sound, Card, Entries
    <2>2. g <= c.n
      BY <1>1, <1>2 DEF Old
    <2> QED BY <1>3, <1>5, <2>1, <2>2 DEF Found, Names
  <1> QED BY <1>2, <1>4, <1>5 DEF Found

LEMMA SearchHitKeeps ==
    ASSUME Ext2Types, NEW t \in Task, Lone(t), Sound(t), ~wild, breach' = {}, SearchHit(t)
    PROVE  Ext2State'
  <1> DEFINE c == call[t]
             g == Least(Found(c))
             e == [c EXCEPT !.ino = buf.val[g].ino]
  <1>1. /\ c.at = "look" /\ Found(c) # {} /\ UNCHANGED <<card, tables>> /\ wild' = wild
        /\ IF c.create \/ buf.val[g].ino = 0 THEN call' = [call EXCEPT ![t] = Idle]
                                              ELSE Goto(t, "get", e)
    BY DEF SearchHit, Uses, At, ghosts
  <1>2. CASE c.create \/ buf.val[g].ino = 0
    BY <1>1, <1>2, Ends
  <1>3. CASE ~(c.create \/ buf.val[g].ino = 0)
    <2>1. g \in Found(c)
      BY <1>1, FoundListed, LeastIn, Indices
    <2>2. g \in 1 .. Size - 1 /\ dir[g].name = c.name /\ buf.val[g].ino = g + 1
      BY <1>1, <2>1, FoundListed
    <2>3. c \in Calls /\ Size \in Nat
      BY CallType, Constants DEF Ext2Types, Size, Inodes
    <2> HIDE DEF g
    <2>4. /\ e \in Calls /\ e.name = c.name /\ e.fd = c.fd /\ e.d = c.d /\ e.create = c.create
          /\ e.ino = g + 1 /\ e.then = c.then
      BY <2>2, <2>3 DEF Calls
    <2>5. c.name \in Name /\ c.then = "idle"
      BY <1>1 DEF Sound, Where, Searching
    <2> HIDE DEF e
    <2>6. /\ Ext2Types' /\ Lone(t)' /\ Card(t)' /\ Descriptors' /\ Table(t)' /\ Reserved(t)' /\ ~wild'
          /\ Size' = Size /\ call'[t].at = "get" /\ call'[t].name = c.name /\ call'[t].create = c.create
          /\ call'[t].ino = g + 1 /\ call'[t].then = "idle"
      BY <1>1, <1>3, <2>4, <2>5, Turns DEF Loose
    <2>7. Getting(t)'
      <3>1. dir' = dir /\ (g + 1) - 1 = g /\ g + 1 \in 2 .. Size
        BY <1>1, <2>2, <2>3 DEF card
      <3> QED BY <1>3, <2>2, <2>5, <2>6, <3>1 DEF Getting
    <2> QED BY <2>6, <2>7, Vacuous, Concludes DEF Where, Syncing
  <1> QED BY <1>2, <1>3

\* An entry of a sector that has been looked through has another name.
LEMMA SearchedOn ==
    ASSUME Ext2Types, NEW t \in Task, Sound(t), call[t].at = "look", Found(call[t]) = {}
    PROVE  \A g \in Old : g < (call[t].i + 1) * SectEntries => dir[g].name # call[t].name
  <1> DEFINE c == call[t]
  <1>1. c.at = "look" /\ Found(c) = {}
    OBVIOUS
  <1>2. c \in Calls /\ c.i \in Nat /\ Size \in Nat
    BY CallType, Constants DEF Ext2Types, Size, Inodes, Calls
  <1>3. \A g \in Old : g < c.i * SectEntries => dir[g].name # c.name
    BY <1>1 DEF Sound, Where, Searching
  <1>4. \A g \in Old : g < (c.i + 1) * SectEntries => dir[g].name # c.name
    <2>1. Old \subseteq Index
      <3>1. imap \subseteq Ino /\ imap = 0 .. Size
        BY <1>1 DEF Sound, Card, Pending, Ext2Types, Syncing
      <3>2. Size < ImapBits
        BY <1>2, <3>1, Constants DEF Ino
      <3> QED BY <1>2, <3>2, Indices, Constants DEF Old
    <2> SUFFICES ASSUME NEW g \in Old, g < (c.i + 1) * SectEntries, dir[g].name = c.name
                 PROVE  FALSE
      OBVIOUS
    <2>2. ~(g < c.i * SectEntries)
      BY <1>3
    <2>3. g \in EntriesOf(c.i)
      <3>1. c.i * SectEntries \in Nat
        BY <1>2, Times, Constants
      <3> DEFINE m == c.i * SectEntries
      <3> HIDE DEF m
      <3>2. m <= g
        <4>1. m \in Nat /\ g \in Nat /\ ~(g < m)
          BY <1>2, <2>2, <3>1 DEF m, Old
        <4> QED BY <4>1
      <3> QED BY <1>2, <2>1, <3>2, EntriesHere DEF m
    <2> QED BY <1>1, <2>3, FoundListed
  <1> QED BY <1>4

LEMMA SearchOnKeeps ==
    ASSUME Ext2Types, NEW t \in Task, Lone(t), Sound(t), ~wild, breach' = {}, SearchOn(t)
    PROVE  Ext2State'
  <1> DEFINE c == call[t]
             more == (c.i + 1) * SectEntries < c.n
             e == [c EXCEPT !.i = @ + 1]
             f == [c EXCEPT !.i = 0]
  <1>1. /\ c.at = "look" /\ Found(c) = {} /\ UNCHANGED <<card, tables>> /\ wild' = wild
        /\ IF more THEN Goto(t, "search", e)
           ELSE IF c.create THEN Goto(t, "imap", f) ELSE call' = [call EXCEPT ![t] = Idle]
    BY DEF SearchOn, Uses, At, ghosts
  <1>2. c \in Calls /\ c.i \in Nat /\ Size \in Nat
    BY CallType, Constants DEF Ext2Types, Size, Inodes, Calls
  <1>3. /\ c.name \in Name /\ c.n = Size /\ c.start = 0 /\ c.then = "idle"
        /\ \A g \in Old : g < c.i * SectEntries => dir[g].name # c.name
    BY <1>1 DEF Sound, Where, Searching
  <1>4. \A g \in Old : g < (c.i + 1) * SectEntries => dir[g].name # c.name
    BY <1>1, SearchedOn
  <1>5. CASE more
    <2>1. /\ e \in Calls /\ e.name = c.name /\ e.fd = c.fd /\ e.d = c.d /\ e.create = c.create
          /\ e.i = c.i + 1 /\ e.n = c.n /\ e.start = c.start /\ e.then = c.then
      BY <1>2 DEF Calls
    <2> HIDE DEF e, more
    <2>2. /\ Ext2Types' /\ Lone(t)' /\ Card(t)' /\ Descriptors' /\ Table(t)' /\ Reserved(t)' /\ ~wild'
          /\ Size' = Size /\ Old' = Old /\ call'[t].at = "search" /\ call'[t].name = c.name
          /\ call'[t].i = c.i + 1 /\ call'[t].n = c.n /\ call'[t].start = c.start /\ call'[t].then = c.then
      BY <1>1, <1>5, <2>1, Turns DEF Loose
    <2>3. Searching(t)'
      BY <1>1, <1>3, <1>4, <2>2 DEF Searching, card
    <2> QED BY <2>2, <2>3, Vacuous, Concludes DEF Where, Syncing
  <1>6. CASE ~more /\ c.create
    <2>1. /\ f \in Calls /\ f.name = c.name /\ f.fd = c.fd /\ f.d = c.d /\ f.create = c.create
          /\ f.i = 0 /\ f.start = c.start /\ f.then = c.then
      BY <1>2 DEF Calls
    <2>2. \A g \in Old : dir[g].name # c.name
      <3> DEFINE m == (c.i + 1) * SectEntries
      <3>1. m \in Nat /\ ~(m < Size)
        BY <1>2, <1>3, <1>6, Times, Constants
      <3>2. \A g \in Old : g < m => dir[g].name # c.name
        BY <1>4
      <3> HIDE DEF m
      <3> QED BY <1>2, <3>1, <3>2 DEF Old
    <2>a. Goto(t, "imap", f) /\ "imap" \in Loose /\ c.at \in Loose
      BY <1>1, <1>6 DEF Loose
    <2> HIDE DEF f, more
    <2>3. /\ Ext2Types' /\ Lone(t)' /\ Card(t)' /\ Descriptors' /\ Table(t)' /\ Reserved(t)' /\ ~wild'
          /\ Size' = Size /\ Old' = Old /\ call'[t].at = "imap" /\ call'[t].name = c.name
          /\ call'[t].create = c.create /\ call'[t].i = 0 /\ call'[t].start = c.start /\ call'[t].then = c.then
      <3>1. (f.create /\ "imap" \in {"smap", "smapset", "smapwrite", "get"})
               <=> (c.create /\ c.at \in {"smap", "smapset", "smapwrite", "get"})
        BY <1>1
      <3> QED BY <1>1, <2>1, <2>a, <3>1, Turns
    <2>4. Marking(t)'
      BY <1>1, <1>3, <1>6, <2>2, <2>3 DEF Marking, Fresh, card
    <2> QED BY <2>3, <2>4, Vacuous, Concludes DEF Where, Syncing
  <1>7. CASE ~more /\ ~c.create
    BY <1>1, <1>7, Ends
  <1> QED BY <1>5, <1>6, <1>7

-----------------------------------------------------------------------------
(* The begin of a call                                                     *)

\* A task that is alone is the one the invariant speaks of.
LEMMA Owner ==
    ASSUME Ext2State, NEW t \in Task, call[t].at # "idle" \/ Alone(t)
    PROVE  ~wild /\ Ext2Types /\ Lone(t) /\ Sound(t)
  <1>1. ~wild /\ Ext2Types
    BY DEF Ext2State
  <1>2. PICK u \in Task : Lone(u) /\ Sound(u)
    BY DEF Ext2State
  <1>3. CASE u = t
    BY <1>1, <1>2, <1>3
  <1>4. CASE u # t
    <2>a. call[t] = Idle
      BY <1>2, <1>4 DEF Lone
    <2>1. call[t] = Idle /\ call[t].at = "idle"
      BY <2>a DEF Idle
    <2>2. call[u] = Idle
      BY <1>2, <1>4, <2>1 DEF Alone, Sound, Where, Idling
    <2>3. Lone(t)
      BY <1>2, <2>2 DEF Lone
    <2>4. Pending(t) = Pending(u) /\ Grown(t) = Grown(u)
      BY <2>1, <2>2 DEF Pending, Grown
    <2>5. \A s \in Slot : Keeps(t, s) = Keeps(u, s) /\ Ahead(t, s) = Ahead(u, s)
      BY <2>1, <2>2 DEF Keeps, Ahead
    <2>6. Card(t)
      BY <1>2, <2>4 DEF Sound, Card
    <2>7. Table(t)
      BY <1>2, <2>4, <2>5 DEF Sound, Table
    <2>8. Reserved(t)
      BY <2>1 DEF Reserved, Idle
    <2>9. Where(t)
      BY <2>1 DEF Where, Idling, Searching, Marking, Taking, Getting, Syncs, Entering, Claiming,
                  Using, Syncing
    <2> QED BY <1>1, <1>2, <2>3, <2>6, <2>7, <2>8, <2>9 DEF Sound
  <1> QED BY <1>3, <1>4

LEMMA OpenStartKeeps ==
    ASSUME Ext2Types, NEW t \in Task, Lone(t), Sound(t), ~wild, breach' = {},
           NEW n \in Name, NEW create \in BOOLEAN, OpenStart(t, n, create)
    PROVE  Ext2State'
  <1> DEFINE fd == FirstOr(FreeFile(t))
             d  == FirstOr(FreeDesc)
             e  == [Idle EXCEPT !.name = n, !.create = create, !.fd = fd, !.d = d, !.n = itab[0].size]
  <1>1. /\ call[t].at = "idle" /\ Goto(t, "search", e) /\ UNCHANGED <<card, tables>> /\ wild' = wild
        /\ FreeFile(t) # {} /\ FreeDesc # {}
    BY DEF OpenStart, Begin, At, Breaks, Only
  <1>2. fd \in File /\ filp[t][fd] = None /\ d \in Desc /\ fdt[d] = None
    <2>1. FreeFile(t) \in SUBSET Nat /\ FreeDesc \in SUBSET Nat
      BY Constants DEF FreeFile, FreeDesc
    <2>2. fd \in FreeFile(t) /\ d \in FreeDesc
      BY <1>1, <2>1, LeastIn DEF FirstOr
    <2> QED BY <2>2 DEF FreeFile, FreeDesc
  <1>3. itab[0].size = Size /\ Size \in Nat /\ 0 \in Slot
    BY <1>1, Constants DEF Sound, Table, Grown, Syncing, Size, Ext2Types, Inodes
  <1>4. /\ e \in Calls /\ e.name = n /\ e.fd = fd /\ e.d = d /\ e.create = create
        /\ e.i = 0 /\ e.n = Size /\ e.start = 0 /\ e.then = "idle"
    BY <1>2, <1>3, Constants DEF Idle, Calls, Point
  <1> HIDE DEF e, fd, d
  <1>5. /\ call' \in [Task -> Calls] /\ \A u \in Task \ {t} : call'[u] = call[u]
        /\ call'[t].at = "search" /\ call'[t].name = n /\ call'[t].create = create
        /\ call'[t].fd = fd /\ call'[t].d = d /\ call'[t].i = 0
        /\ call'[t].n = Size /\ call'[t].start = 0 /\ call'[t].then = "idle"
    <2>1. "search" \in Point
      BY DEF Point
    <2>2. /\ call' \in [Task -> Calls] /\ \A u \in Task \ {t} : call'[u] = call[u]
          /\ call'[t].at = "search" /\ call'[t].name = e.name /\ call'[t].create = e.create
          /\ call'[t].fd = e.fd /\ call'[t].d = e.d /\ call'[t].i = e.i
          /\ call'[t].n = e.n /\ call'[t].start = e.start /\ call'[t].then = e.then
      <3>1. /\ call' \in [Task -> Calls] /\ \A u \in Task \ {t} : call'[u] = call[u]
            /\ call'[t] = [e EXCEPT !.at = "search"]
        BY <1>1, <1>4, <2>1, Goes
      <3> QED BY <1>4, <3>1 DEF Calls
    <2> QED BY <1>4, <2>2
  <1>6. Pending(t)' = Pending(t) /\ Grown(t)' = Grown(t)
    BY <1>1, <1>5 DEF Pending, Grown, Syncing
  <1>7. \A s \in Slot : Keeps(t, s)' = Keeps(t, s)
    BY <1>1, <1>5 DEF Keeps, Syncing
  <1>8. \A s \in Slot : Ahead(t, s)' = Ahead(t, s)
    BY <1>1, <1>5 DEF Ahead, Syncing
  <1>9. Card(t)' /\ Descriptors' /\ Table(t)'
    BY <1>1, <1>6, <1>7, <1>8, StateKept DEF Sound
  <1>10. Reserved(t)'
    BY <1>1, <1>2, <1>5 DEF Reserved, tables
  <1>11. Ext2Types' /\ Lone(t)'
    BY <1>1, <1>5, TypesKept, StaysLone
  <1>12. Searching(t)'
    <2>1. Size' = Size /\ Old' = Old /\ Old \subseteq Nat
      BY <1>1, <1>3 DEF Size, Old, card
    <2>2. 0 * SectEntries = 0
      BY Constants
    <2> QED BY <1>5, <2>1, <2>2 DEF Searching
  <1> QED BY <1>1, <1>5, <1>9, <1>10, <1>11, <1>12, Vacuous, Concludes DEF Where, Syncing

LEMMA UsersFinite == \A s : IsFiniteSet(Users(s)) /\ Cardinality(Users(s)) \in Nat
  <1>1. IsFiniteSet(Desc)
    BY Constants, FS_Interval DEF Desc
  <1>2. \A s : Users(s) \subseteq Desc
    BY DEF Users
  <1> QED BY <1>1, <1>2, FS_Subset, FS_CardinalityType

LEMMA UseStartKeeps ==
    ASSUME Ext2Types, NEW t \in Task, Lone(t), Sound(t), ~wild, breach' = {},
           NEW f \in File, UseStart(t, f)
    PROVE  Ext2State'
  <1> DEFINE s == fdt[filp[t][f]]
             e == [Idle EXCEPT !.pin = s]
  <1>1. /\ call[t].at = "idle" /\ Goto(t, "data", e) /\ UNCHANGED <<card, tables>> /\ wild' = wild
        /\ filp[t][f] # None /\ s # None
    BY DEF UseStart, Begin, At
  <1>2. filp[t][f] \in Desc /\ s \in Slot /\ s # 0
    BY <1>1 DEF Ext2Types
  <1>3. itab[s].cnt # 0
    <2>1. IsFiniteSet(Users(s)) /\ Users(s) # {} /\ Cardinality(Users(s)) \in Nat
      BY <1>2, UsersFinite DEF Users
    <2>2. itab[s].cnt = Cardinality(Users(s)) + (IF Keeps(t, s) THEN 1 ELSE 0)
      BY <1>2 DEF Sound, Table
    <2>3. Cardinality(Users(s)) # 0
      BY <2>1, FS_EmptySet
    <2> QED BY <2>1, <2>2, <2>3
  <1>4. /\ call[t] = Idle /\ e \in Calls /\ e.name = call[t].name /\ e.fd = call[t].fd
        /\ e.d = call[t].d /\ ~e.create /\ ~call[t].create /\ e.pin = s /\ e.name = None
    BY <1>1, <1>2, IdleCall DEF Idle, Calls, Sound, Where, Idling
  <1> HIDE DEF e, s
  <1>5. /\ Ext2Types' /\ Lone(t)' /\ Card(t)' /\ Descriptors' /\ Table(t)' /\ Reserved(t)' /\ ~wild'
        /\ call'[t].at = "data" /\ call'[t].name = None /\ call'[t].create = e.create
        /\ call'[t].pin = s
    <2>1. "data" \in Loose /\ call[t].at \in Loose
      BY <1>1 DEF Loose
    <2>2. /\ Ext2Types' /\ Lone(t)' /\ Card(t)' /\ Descriptors' /\ Table(t)' /\ Reserved(t)' /\ ~wild'
          /\ call'[t].at = "data" /\ call'[t].name = e.name /\ call'[t].create = e.create
          /\ call'[t].pin = e.pin
      BY <1>1, <1>4, <2>1, Turns
    <2> QED BY <1>4, <2>2
  <1>6. Using(t)'
    BY <1>1, <1>2, <1>3, <1>4, <1>5 DEF Using, tables
  <1> QED BY <1>5, <1>6, Vacuous, Concludes DEF Where, Syncing

-----------------------------------------------------------------------------
(* The bitmaps                                                             *)

LEMMA SizeType == Ext2Types => Size \in Nat /\ Old \subseteq Nat
  BY Constants DEF Ext2Types, Size, Old, Inodes

LEMMA FilesKept ==
    ASSUME UNCHANGED <<dinode, dir>>, smap \subseteq smap'
    PROVE  /\ Size' = Size /\ Old' = Old /\ \A g : First(g)' = First(g)
           /\ (Bits => Bits') /\ (Entries => Entries')
  <1>1. Size' = Size /\ Old' = Old /\ \A g : First(g)' = First(g)
    BY DEF Size, Old, First
  <1>2. Bits => Bits'
    BY <1>1 DEF Bits
  <1>3. Entries => Entries'
    BY <1>1 DEF Entries
  <1> QED BY <1>1, <1>2, <1>3

LEMMA TableKept ==
    ASSUME NEW t \in Task, Table(t), UNCHANGED <<itab, fdt, dinode>>,
           Grown(t)' <=> Grown(t), Pending(t) => Pending(t)',
           \A s \in Slot : Keeps(t, s)' <=> Keeps(t, s),
           \A s \in Slot : Ahead(t, s)' <=> Ahead(t, s)
    PROVE  Table(t)'
  <1>1. Size' = Size /\ \A s : Users(s)' = Users(s)
    BY DEF Size, Users
  <1> QED BY <1>1 DEF Table

LEMMA DescriptorsKept == UNCHANGED <<fdt, filp>> /\ Descriptors => Descriptors'
  BY DEF Descriptors

LEMMA ReservedKept ==
    ASSUME NEW t, Reserved(t), UNCHANGED <<fdt, filp>>, call'[t].name = call[t].name,
           call'[t].fd = call[t].fd, call'[t].d = call[t].d
    PROVE  Reserved(t)'
  BY DEF Reserved

LEMMA ImapSetKeeps ==
    ASSUME Ext2Types, NEW t \in Task, Lone(t), Sound(t), ~wild, breach' = {}, ImapSet(t)
    PROVE  Ext2State'
  <1> DEFINE c == call[t]
             free == Ino \ buf.val
             k == Least(free)
             e == [c EXCEPT !.ino = k]
  <1>1. /\ c.at = "imapset" /\ UNCHANGED <<card, tables>> /\ wild' = wild /\ free # {}
        /\ Goto(t, "imapwrite", e) /\ buf' = [kind |-> "imap", i |-> 0, val |-> buf.val \cup {k}]
    BY DEF ImapSet, Uses, At, Load, Breaks, Only
  <1>2. /\ c.name \in Name /\ Fresh(t) /\ c.i = 0 /\ c.start = 0 /\ c.then = "idle"
        /\ buf.val = imap /\ c.create
    BY <1>1 DEF Sound, Where, Marking, BufIs, Fresh
  <1>3. imap = 0 .. Size
    BY <1>1 DEF Sound, Card, Pending, Syncing
  <1>4. k = Size + 1 /\ Size + 1 < ImapBits
    <2>1. free \in SUBSET Nat
      BY Constants
    <2>2. k \in free /\ \A j \in free : k <= j
      BY <1>1, <2>1, LeastIn
    <2>3. k \in Ino /\ k \notin 0 .. Size
      BY <1>2, <1>3, <2>2
    <2>4. Size \in Nat /\ ImapBits \in Nat
      BY SizeType, Constants
    <2> HIDE DEF k, free
    <2>5. k \in Nat /\ k < ImapBits /\ k > Size
      BY <2>3, <2>4 DEF Ino
    <2>6. Size + 1 \in Ino /\ Size + 1 \notin 0 .. Size
      BY <2>4, <2>5 DEF Ino
    <2>7. k <= Size + 1
      BY <1>2, <1>3, <2>2, <2>6 DEF free
    <2> QED BY <2>4, <2>5, <2>7
  <1>5. c \in Calls /\ Size \in Nat
    BY CallType, SizeType
  <1> HIDE DEF k
  <1>6. /\ e \in Calls /\ e.name = c.name /\ e.fd = c.fd /\ e.d = c.d /\ e.create = c.create
        /\ e.i = c.i /\ e.ino = Size + 1 /\ e.start = c.start /\ e.then = c.then
    BY <1>4, <1>5 DEF Calls
  <1> HIDE DEF e
  <1>7. /\ Ext2Types' /\ Lone(t)' /\ Card(t)' /\ Descriptors' /\ Table(t)' /\ Reserved(t)' /\ ~wild'
        /\ Size' = Size /\ Old' = Old /\ call'[t].at = "imapwrite" /\ call'[t].name = c.name
        /\ call'[t].create = c.create /\ call'[t].i = c.i /\ call'[t].ino = Size + 1
        /\ call'[t].start = c.start /\ call'[t].then = c.then
    <2>1. "imapwrite" \in Loose /\ c.at \in Loose
      BY <1>1 DEF Loose
    <2> QED BY <1>1, <1>6, <2>1, Turns
  <1>8. Marking(t)'
    <2>1. 0 .. Size \cup {Size + 1} = 0 .. Size + 1
      BY <1>5
    <2>2. Fresh(t)'
      BY <1>1, <1>2, <1>7 DEF Fresh, card
    <2>3. BufIs("imap", 0, 0 .. Size + 1)'
      BY <1>1, <1>2, <1>3, <1>4, <1>7, <2>1 DEF BufIs
    <2> QED BY <1>2, <1>4, <1>7, <2>2, <2>3 DEF Marking
  <1> QED BY <1>7, <1>8, Vacuous, Concludes DEF Where, Syncing

LEMMA ImapWriteKeeps ==
    ASSUME Ext2Types, NEW t \in Task, Lone(t), Sound(t), ~wild, breach' = {}, ImapWrite(t)
    PROVE  Ext2State'
  <1> DEFINE c == call[t]
             e == [c EXCEPT !.left = FileSects]
  <1>1. /\ c.at = "imapwrite" /\ UNCHANGED <<smap, dinode, dir, tables>> /\ wild' = wild
        /\ Goto(t, "smap", e) /\ imap' = buf.val
    BY DEF ImapWrite, Uses, At, ghosts
  <1>2. /\ c.name \in Name /\ Fresh(t) /\ c.i = 0 /\ c.start = 0 /\ c.then = "idle"
        /\ buf.val = 0 .. Size + 1 /\ c.create /\ c.ino = Size + 1 /\ Size + 1 < ImapBits
    BY <1>1 DEF Sound, Where, Marking, BufIs, Fresh
  <1>3. c \in Calls /\ Size \in Nat
    BY CallType, SizeType
  <1>4. /\ e \in Calls /\ e.name = c.name /\ e.fd = c.fd /\ e.d = c.d /\ e.create = c.create
        /\ e.i = c.i /\ e.ino = c.ino /\ e.start = c.start /\ e.then = c.then /\ e.left = FileSects
    BY <1>3, Constants DEF Calls
  <1> HIDE DEF e
  <1>5. call' \in [Task -> Calls] /\ (\A u \in Task \ {t} : call'[u] = call[u]) /\ call'[t] = [e EXCEPT !.at = "smap"]
    <2>1. "smap" \in Point
      BY DEF Point
    <2> QED BY <1>1, <1>4, <2>1, Goes
  <1>6. /\ call'[t].at = "smap" /\ call'[t].name = c.name /\ call'[t].create = c.create
        /\ call'[t].fd = c.fd /\ call'[t].d = c.d
        /\ call'[t].i = c.i /\ call'[t].ino = c.ino /\ call'[t].start = c.start
        /\ call'[t].then = c.then /\ call'[t].left = FileSects
    BY <1>4, <1>5 DEF Calls
  <1>7. /\ Size' = Size /\ Old' = Old /\ (\A g : First(g)' = First(g)) /\ Bits' /\ Entries'
    BY <1>1, FilesKept DEF Sound, Card
  <1>8. Pending(t)' /\ Grown(t)' = Grown(t)
    BY <1>1, <1>2, <1>6 DEF Pending, Grown, Syncing
  <1>9. \A s \in Slot : Keeps(t, s)' = Keeps(t, s)
    BY <1>1, <1>6 DEF Keeps, Syncing
  <1>10. \A s \in Slot : Ahead(t, s)' <=> Ahead(t, s)
    BY <1>1, <1>6 DEF Ahead, Syncing
  <1>11. Card(t)'
    BY <1>1, <1>2, <1>7, <1>8 DEF Sound, Card
  <1>12. Table(t)' /\ Descriptors' /\ Reserved(t)'
    BY <1>1, <1>6, <1>8, <1>9, <1>10, TableKept, DescriptorsKept, ReservedKept DEF Sound, tables
  <1>13. Ext2Types' /\ Lone(t)'
    <2>1. imap' \subseteq Ino
      BY <1>1, <1>2, <1>3, Constants DEF Ino
    <2> QED BY <1>1, <1>5, <2>1, StaysLone DEF Ext2Types, tables
  <1>14. Taking(t)'
    <2>1. New(t)'
      BY <1>1, <1>2, <1>6, <1>7 DEF New, Fresh
    <2>2. \A b \in Bit : ~(b < Edge(0))
      BY Edges, Constants
    <2> QED BY <1>2, <1>6, <2>1, <2>2, Constants DEF Taking
  <1> QED BY <1>1, <1>6, <1>11, <1>12, <1>13, <1>14, Vacuous, Concludes DEF Where, Syncing

\* How many sectors of a stretch of the run lie in an interval
LEMMA HowMany ==
    ASSUME NEW lo \in Nat, NEW hi \in Nat, NEW from \in Nat, NEW n \in Nat,
           lo <= from, from < hi
    PROVE  LET take == {b \in lo .. hi - 1 : from <= b /\ b < from + n}
               rest == IF from + n <= hi THEN 0 ELSE (from + n) - hi IN
           Cardinality(take) \in Nat /\ n - Cardinality(take) = rest
  <1> DEFINE take == {b \in lo .. hi - 1 : from <= b /\ b < from + n}
             top  == IF from + n <= hi THEN from + n - 1 ELSE hi - 1
  <1>1. take = from .. top
    OBVIOUS
  <1>2. top \in Int /\ from <= top + 1
    OBVIOUS
  <1> HIDE DEF take, top
  <1>3. Cardinality(take) = IF from > top THEN 0 ELSE top - from + 1
    BY <1>1, <1>2, FS_Interval
  <1>4. Cardinality(take) = top - from + 1 /\ Cardinality(take) \in Nat
    BY <1>2, <1>3
  <1> QED BY <1>4 DEF take, top

\* Where the run of a new file starts, and what it takes in this sector
LEMMA RunStarts ==
    ASSUME Ext2Types, NEW t \in Task, Lone(t), Sound(t), call[t].at = "smapset",
           call[t].start = 0, BitsOf(call[t].i) \ buf.val # {}
    PROVE  LET k == Least(BitsOf(call[t].i) \ buf.val) IN
           /\ k # 0 /\ Edge(call[t].i) <= k /\ k < Edge(call[t].i + 1)
           /\ \A b \in Bit : b < k => b \in smap
           /\ \A g \in Old : First(g) + FileSects <= k
           /\ k \in Nat
  <1> DEFINE c == call[t]
             free == BitsOf(c.i) \ buf.val
             k == Least(free)
  <1>1. /\ c.i < SmapSects /\ \A b \in Bit : b < Edge(c.i) => b \in smap
        /\ buf.val = smap \cap BitsOf(c.i) /\ c.i \in Nat
    BY CallType DEF Sound, Where, Taking, BufIs, Calls
  <1>2. BitsOf(c.i) = Edge(c.i) .. Edge(c.i + 1) - 1 /\ BitsOf(c.i) \subseteq Bit
    BY <1>1, BitsHere DEF BitsOf
  <1>3. Bit \subseteq Nat /\ Edge(c.i) \in Nat /\ Edge(c.i + 1) \in Nat
    <2>1. c.i + 1 \in Nat
      BY <1>1
    <2>2. Edge(c.i) \in Nat /\ Edge(c.i + 1) \in Nat
      BY <1>1, <2>1, Edges, Zenon
    <2> QED BY <2>2, Constants DEF Bit
  <1>4. free \in SUBSET Nat
    BY <1>2, <1>3
  <1>5. k \in free /\ \A j \in free : k <= j
    BY <1>4, LeastIn
  <1>6. k \in BitsOf(c.i) /\ k \notin smap /\ k \in Nat
    BY <1>1, <1>4, <1>5
  <1> HIDE DEF k
  <1>7. Edge(c.i) <= k /\ k < Edge(c.i + 1)
    BY <1>2, <1>3, <1>6
  <1>8. ASSUME NEW b \in Bit, b < k PROVE b \in smap
    <2>1. CASE b < Edge(c.i)
      BY <1>1, <2>1
    <2>2. CASE ~(b < Edge(c.i))
      <3>1. b \in BitsOf(c.i)
        <4> DEFINE lo == Edge(c.i)
                   hi == Edge(c.i + 1)
        <4>1. b \in Nat /\ lo \in Nat /\ hi \in Nat /\ k < hi /\ b < k /\ ~(b < lo)
          BY <1>3, <1>7, <1>8, <2>2
        <4>2. BitsOf(c.i) = lo .. hi - 1
          BY <1>2
        <4> HIDE DEF lo, hi
        <4> QED BY <1>6, <4>1, <4>2
      <3>2. b \notin free
        BY <1>3, <1>4, <1>5, <1>6, <1>8
      <3> QED BY <1>1, <3>1, <3>2
    <2> QED BY <2>1, <2>2
  <1>9. 0 .. FileSects \subseteq smap /\ \A g \in Old : 0 .. First(g) + FileSects - 1 \subseteq smap
    BY DEF Sound, Card, Bits
  <1>10. k # 0
    BY <1>6, <1>9, Constants
  <1>11. ASSUME NEW g \in Old PROVE First(g) + FileSects <= k
    <2>1. First(g) \in Nat
      <3>1. imap \subseteq Ino /\ imap = 0 .. (IF Pending(t) THEN Size + 1 ELSE Size)
        BY DEF Sound, Card, Ext2Types
      <3>2. g + 1 \in Ino
        BY <3>1, SizeType DEF Old
      <3> QED BY <3>2 DEF First, Ext2Types, Inodes
    <2>2. k \notin 0 .. First(g) + FileSects - 1
      BY <1>6, <1>9
    <2> QED BY <1>6, <2>1, <2>2, Constants
  <1> QED BY <1>6, <1>7, <1>8, <1>10, <1>11 DEF k

LEMMA SmapSetKeeps ==
    ASSUME Ext2Types, NEW t \in Task, Lone(t), Sound(t), ~wild, breach' = {}, SmapSet(t)
    PROVE  Ext2State'
  <1> DEFINE c == call[t]
             free == BitsOf(c.i) \ buf.val
             from == IF c.start # 0 THEN c.i * SectBits ELSE Least(free)
             take == {b \in BitsOf(c.i) : from <= b /\ b < from + c.left}
             start == IF c.start = 0 THEN from ELSE c.start
             e == [c EXCEPT !.i = @ + 1]
             f == [c EXCEPT !.start = IF @ = 0 THEN from ELSE @, !.left = @ - Cardinality(take)]
  <1>1. /\ c.at = "smapset" /\ UNCHANGED <<card, tables>> /\ wild' = wild
        /\ (c.start = 0 /\ free = {}) => c.i # SmapSects - 1 /\ Goto(t, "smap", e)
        /\ ~(c.start = 0 /\ free = {}) =>
              /\ Goto(t, "smapwrite", f)
              /\ buf' = [kind |-> "smap", i |-> c.i, val |-> buf.val \cup take]
    BY DEF SmapSet, Uses, At, Load, Breaks, Only
  <1>2. /\ c.name \in Name /\ New(t) /\ c.then = "idle" /\ c.i < SmapSects
        /\ (\A b \in Bit : b < Edge(c.i) => b \in smap)
        /\ (c.start # 0 => Behind(t)) /\ buf.val = smap \cap BitsOf(c.i) /\ c.create
        /\ IF c.start = 0 THEN c.left = FileSects
           ELSE c.left # 0 /\ c.start <= Edge(c.i) /\ c.start + FileSects = Edge(c.i) + c.left
    BY <1>1 DEF Sound, Where, Taking, BufIs, New, Fresh
  <1>3. /\ c \in Calls /\ c.i \in Nat /\ c.left \in Nat /\ c.start \in Nat /\ Size \in Nat
        /\ SmapSects \in Nat /\ FileSects \in Nat \ {0}
    BY CallType, SizeType, Constants DEF Calls
  <1>4. /\ Edge(c.i) \in Nat /\ Edge(c.i + 1) \in Nat /\ Edge(c.i + 1) = Edge(c.i) + SectBits
        /\ BitsOf(c.i) = Edge(c.i) .. Edge(c.i + 1) - 1
        /\ Edge(c.i) < Edge(c.i + 1)
    <2>1. c.i + 1 \in Nat
      BY <1>3
    <2>2. Edge(c.i) \in Nat /\ Edge(c.i + 1) \in Nat /\ Edge(c.i + 1) = Edge(c.i) + SectBits
      BY <1>3, <2>1, Edges, Zenon
    <2>3. Edge(c.i) < Edge(c.i + 1)
      BY <2>2, Constants
    <2> QED BY <1>2, <1>3, <2>2, <2>3, BitsHere
  <1>5. CASE c.start = 0 /\ free = {}
    <2>1. /\ e \in Calls /\ e.name = c.name /\ e.fd = c.fd /\ e.d = c.d /\ e.create = c.create
          /\ e.i = c.i + 1 /\ e.ino = c.ino /\ e.start = 0 /\ e.then = c.then /\ e.left = c.left
      BY <1>3, <1>5 DEF Calls
    <2> HIDE DEF e
    <2>2. /\ Ext2Types' /\ Lone(t)' /\ Card(t)' /\ Descriptors' /\ Table(t)' /\ Reserved(t)' /\ ~wild'
          /\ Size' = Size /\ Old' = Old /\ call'[t].at = "smap" /\ call'[t].name = c.name
          /\ call'[t].create = c.create /\ call'[t].i = c.i + 1 /\ call'[t].ino = c.ino
          /\ call'[t].start = 0 /\ call'[t].then = c.then /\ call'[t].left = c.left
      <3>1. "smap" \in Loose /\ c.at \in Loose
        BY <1>1 DEF Loose
      <3> QED BY <1>1, <1>5, <2>1, <3>1, Turns
    <2>3. Taking(t)'
      <3>1. New(t)'
        BY <1>1, <1>2, <2>2 DEF New, Fresh, card
      <3>2. c.i + 1 < SmapSects
        BY <1>1, <1>2, <1>3, <1>5
      <3>3. ASSUME NEW b \in Bit, b < Edge(c.i + 1) PROVE b \in smap
        <4>1. CASE b < Edge(c.i)
          BY <1>2, <4>1
        <4>2. CASE ~(b < Edge(c.i))
          <5>1. b \in Nat
            BY Indices, Constants DEF Bit
          <5>2. b \in BitsOf(c.i)
            BY <1>4, <3>3, <4>2, <5>1
          <5> QED BY <1>2, <1>5, <5>2
        <4> QED BY <4>1, <4>2
      <3>4. smap' = smap
        BY <1>1 DEF card
      <3> QED BY <1>2, <1>5, <2>2, <3>1, <3>2, <3>3, <3>4 DEF Taking
    <2> QED BY <2>2, <2>3, Vacuous, Concludes DEF Where, Syncing
  <1>6. CASE ~(c.start = 0 /\ free = {})
    <2>1. /\ start # 0 /\ start \in Nat /\ start < Edge(c.i + 1)
          /\ \A b \in Bit : b < start => b \in smap
          /\ \A g \in Old : First(g) + FileSects <= start
      <3>1. CASE c.start = 0
        BY <1>1, <1>6, <3>1, RunStarts
      <3>2. CASE c.start # 0
        <4>1. start = c.start /\ start <= Edge(c.i)
          BY <1>2, <3>2
        <4>2. \A b \in Bit : b < start => b < Edge(c.i)
          <5>1. Bit \subseteq Nat
            BY Constants DEF Bit
          <5> QED BY <1>3, <1>4, <4>1, <5>1
        <4>3. start < Edge(c.i + 1)
          BY <1>3, <1>4, <4>1
        <4> QED BY <1>2, <1>3, <3>2, <4>1, <4>2, <4>3 DEF Behind
      <3> QED BY <3>1, <3>2
    <2>2. /\ from \in Nat /\ Edge(c.i) <= from /\ from < Edge(c.i + 1)
          /\ start <= from /\ from + c.left = start + FileSects
          /\ c.start = 0 => start = from
          /\ c.start # 0 => from = Edge(c.i)
      <3>1. CASE c.start = 0
        BY <1>1, <1>2, <1>3, <1>6, <3>1, RunStarts
      <3>2. CASE c.start # 0
        BY <1>2, <1>3, <1>4, <3>2 DEF Edge
      <3> QED BY <3>1, <3>2
    <2> HIDE DEF from
    <2>3. take = {b \in Edge(c.i) .. Edge(c.i + 1) - 1 : from <= b /\ b < from + c.left}
      BY <1>4
    <2>4. take = {b \in BitsOf(c.i) : start <= b /\ b < start + FileSects}
      <3>1. \A b \in BitsOf(c.i) : b \in Nat /\ Edge(c.i) <= b
        BY <1>4
      <3>2. CASE c.start = 0
        BY <2>2, <3>2
      <3>3. CASE c.start # 0
        <4>1. \A b \in BitsOf(c.i) : from <= b /\ start <= b
          BY <2>1, <2>2, <3>1, <3>3
        <4> QED BY <2>2, <4>1
      <3> QED BY <3>2, <3>3
    <2>5. /\ Cardinality(take) \in Nat
          /\ c.left - Cardinality(take) = IF start + FileSects <= Edge(c.i + 1) THEN 0
                                          ELSE (start + FileSects) - Edge(c.i + 1)
      <3> DEFINE lo == Edge(c.i)
                 hi == Edge(c.i + 1)
                 n  == c.left
                 some == {b \in lo .. hi - 1 : from <= b /\ b < from + n}
      <3>1. lo \in Nat /\ hi \in Nat /\ n \in Nat /\ from \in Nat /\ lo <= from /\ from < hi
        BY <1>3, <1>4, <2>2
      <3> HIDE DEF lo, hi, n, take, start
      <3>2. Cardinality(some) \in Nat /\ n - Cardinality(some) = IF from + n <= hi THEN 0 ELSE (from + n) - hi
        BY <3>1, HowMany
      <3>3. take = some
        BY <2>3, Zenon DEF lo, hi, n
      <3>4. from + n = start + FileSects
        BY <2>2, Zenon DEF n
      <3>5. Cardinality(take) \in Nat /\ n - Cardinality(take) = IF start + FileSects <= hi THEN 0 ELSE (start + FileSects) - hi
        BY <3>2, <3>3, <3>4, Zenon
      <3> QED BY <3>5, Zenon DEF n, hi
    <2> HIDE DEF take, start
    <2>6. c.left - Cardinality(take) \in Nat
      BY <1>3, <1>4, <2>1, <2>5
    <2>7. /\ f \in Calls /\ f.name = c.name /\ f.fd = c.fd /\ f.d = c.d /\ f.create = c.create
          /\ f.i = c.i /\ f.ino = c.ino /\ f.start = start /\ f.then = c.then
          /\ f.left = c.left - Cardinality(take)
      BY <1>3, <2>1, <2>2, <2>6 DEF Calls, start
    <2> HIDE DEF f
    <2>8. /\ Ext2Types' /\ Lone(t)' /\ Card(t)' /\ Descriptors' /\ Table(t)' /\ Reserved(t)' /\ ~wild'
          /\ Size' = Size /\ Old' = Old /\ (\A g : First(g)' = First(g))
          /\ call'[t].at = "smapwrite" /\ call'[t].name = c.name
          /\ call'[t].create = c.create /\ call'[t].i = c.i /\ call'[t].ino = c.ino
          /\ call'[t].start = start /\ call'[t].then = c.then /\ call'[t].left = c.left - Cardinality(take)
      <3>1. "smapwrite" \in Loose /\ c.at \in Loose
        BY <1>1 DEF Loose
      <3> QED BY <1>1, <1>6, <2>7, <3>1, Turns
    <2>9. Taking(t)'
      <3>1. New(t)'
        BY <1>1, <1>2, <2>8 DEF New, Fresh, card
      <3>2. Behind(t)'
        BY <2>1, <2>8 DEF Behind
      <3>3. Taken(t)' = take
        BY <2>4, <2>8 DEF Taken
      <3>4. /\ buf' = [kind |-> "smap", i |-> c.i, val |-> (smap \cap BitsOf(c.i)) \cup take]
            /\ smap' = smap /\ BitsOf(call'[t].i) = BitsOf(c.i)
        BY <1>1, <1>2, <1>6, <2>8 DEF card, take
      <3> QED BY <1>2, <2>1, <2>5, <2>8, <3>1, <3>2, <3>3, <3>4 DEF Taking, BufIs
    <2> QED BY <2>8, <2>9, Vacuous, Concludes DEF Where, Syncing
  <1> QED BY <1>5, <1>6

LEMMA SmapWriteKeeps ==
    ASSUME Ext2Types, NEW t \in Task, Lone(t), Sound(t), ~wild, breach' = {}, SmapWrite(t)
    PROVE  Ext2State'
  <1> DEFINE c == call[t]
             e == [c EXCEPT !.i = @ + 1]
             hi == Edge(c.i + 1)
             l == IF c.left = 0 THEN "get" ELSE "smap"
  <1>1. /\ c.at = "smapwrite" /\ UNCHANGED <<imap, dinode, dir, tables>> /\ wild' = wild
        /\ smap' = (smap \ BitsOf(c.i)) \cup buf.val
        /\ c.left # 0 => c.i # SmapSects - 1
        /\ Goto(t, l, e)
    BY DEF SmapWrite, Uses, At, Breaks, Only
  <1>2. /\ c.name \in Name /\ New(t) /\ c.then = "idle" /\ c.i < SmapSects
        /\ \A b \in Bit : b < Edge(c.i) => b \in smap
        /\ c.start # 0 /\ Behind(t) /\ c.start < Edge(c.i + 1) /\ c.create
        /\ \A b \in Bit : b < c.start => b \in smap
        /\ buf.val = (smap \cap BitsOf(c.i)) \cup Taken(t)
    BY <1>1 DEF Sound, Where, Taking, BufIs, New, Fresh
  <1>a. c.left = IF c.start + FileSects <= hi THEN 0 ELSE (c.start + FileSects) - hi
    BY <1>1 DEF Sound, Where, Taking
  <1>3. /\ c \in Calls /\ c.i \in Nat /\ c.left \in Nat /\ c.start \in Nat /\ Size \in Nat
        /\ SmapSects \in Nat /\ FileSects \in Nat \ {0}
    BY CallType, SizeType, Constants DEF Calls
  <1>4. /\ Edge(c.i) \in Nat /\ hi \in Nat
        /\ BitsOf(c.i) = Edge(c.i) .. hi - 1 /\ BitsOf(c.i) \subseteq Bit
    <2>1. c.i + 1 \in Nat
      BY <1>3
    <2>2. Edge(c.i) \in Nat /\ Edge(c.i + 1) \in Nat
      BY <1>3, <2>1, Edges, Zenon
    <2> QED BY <1>2, <1>3, <2>2, BitsHere DEF BitsOf
  <1>5. /\ smap \subseteq smap' /\ smap' = smap \cup Taken(t) /\ Taken(t) \subseteq Bit
    BY <1>1, <1>2, <1>4 DEF Taken
  <1>6. ASSUME NEW b \in Bit, b < hi, b < c.start + FileSects
        PROVE  b \in smap'
    <2>1. b \in Nat
      BY Constants DEF Bit
    <2>2. CASE b < c.start \/ b < Edge(c.i)
      BY <1>2, <1>5, <2>2
    <2>3. CASE ~(b < c.start \/ b < Edge(c.i))
      <3>1. b \in BitsOf(c.i)
        BY <1>4, <1>6, <2>1, <2>3
      <3>2. b \in Taken(t)
        BY <1>3, <1>6, <2>1, <2>3, <3>1 DEF Taken
      <3> QED BY <1>5, <3>2
    <2> QED BY <2>2, <2>3
  <1>7. /\ e \in Calls /\ e.name = c.name /\ e.fd = c.fd /\ e.d = c.d /\ e.create = c.create
        /\ e.i = c.i + 1 /\ e.ino = c.ino /\ e.start = c.start /\ e.then = c.then /\ e.left = c.left
    BY <1>3 DEF Calls
  <1> HIDE DEF e
  <1>8. call' \in [Task -> Calls] /\ (\A u \in Task \ {t} : call'[u] = call[u]) /\ call'[t] = [e EXCEPT !.at = l]
    <2>1. l \in Point
      BY DEF Point
    <2> HIDE DEF l
    <2> QED BY <1>1, <1>7, <2>1, Goes
  <1>9. /\ call'[t].at = l /\ call'[t].name = c.name /\ call'[t].create = c.create
        /\ call'[t].fd = c.fd /\ call'[t].d = c.d
        /\ call'[t].i = c.i + 1 /\ call'[t].ino = c.ino /\ call'[t].start = c.start
        /\ call'[t].then = c.then /\ call'[t].left = c.left
    BY <1>7, <1>8 DEF Calls
  <1>10. /\ Size' = Size /\ Old' = Old /\ (\A g : First(g)' = First(g)) /\ Bits' /\ Entries'
    BY <1>1, <1>5, FilesKept DEF Sound, Card
  <1>11. Pending(t)' /\ Pending(t) /\ Grown(t)' = Grown(t)
    BY <1>1, <1>2, <1>9 DEF Pending, Grown, Syncing
  <1>12. \A s \in Slot : Keeps(t, s)' = Keeps(t, s)
    BY <1>1, <1>9 DEF Keeps, Syncing
  <1>13. \A s \in Slot : Ahead(t, s)' = Ahead(t, s)
    BY <1>1, <1>9 DEF Ahead, Syncing
  <1>14. Card(t)'
    BY <1>1, <1>10, <1>11 DEF Sound, Card
  <1>15. Table(t)' /\ Descriptors' /\ Reserved(t)'
    BY <1>1, <1>9, <1>11, <1>12, <1>13, TableKept, DescriptorsKept, ReservedKept DEF Sound, tables
  <1>16. Ext2Types' /\ Lone(t)'
    BY <1>1, <1>5, <1>8, StaysLone DEF Ext2Types, tables
  <1>17. New(t)' /\ Behind(t)'
    BY <1>1, <1>2, <1>9, <1>10 DEF New, Fresh, Behind
  <1>18. CASE c.left = 0
    <2>1. c.start + FileSects <= hi
      <3> DEFINE a == c.start + FileSects
      <3>1. c.left = IF a <= hi THEN 0 ELSE a - hi
        BY <1>a, Zenon
      <3>a. a \in Nat
        BY <1>3
      <3> HIDE DEF a, hi
      <3>2. a <= hi
        BY <1>4, <1>18, <3>1, <3>a
      <3> QED BY <3>2 DEF a
    <2>2. 0 .. c.start + FileSects - 1 \subseteq smap'
      <3> SUFFICES ASSUME NEW b \in 0 .. c.start + FileSects - 1 PROVE b \in smap'
        OBVIOUS
      <3> DEFINE top == Edge(SmapSects)
      <3>1. hi <= top /\ top \in Nat /\ Bit = 0 .. top - 1
        BY <1>2, <1>3, Edges
      <3> HIDE DEF hi, top
      <3>2. b \in Nat /\ b < c.start + FileSects
        BY <1>3
      <3>3. b < hi /\ b \in Bit
        BY <1>3, <1>4, <2>1, <3>1, <3>2
      <3> QED BY <1>6, <3>2, <3>3
    <2>3. Placed(t)'
      BY <1>2, <1>9, <1>17, <2>2 DEF Placed
    <2>4. Getting(t)'
      BY <1>2, <1>9, <1>17, <1>18, <2>3 DEF Getting
    <2> QED BY <1>1, <1>9, <1>14, <1>15, <1>16, <1>18, <2>4, Vacuous, Concludes DEF Where, Syncing
  <1>19. CASE c.left # 0
    <2>1. c.i + 1 < SmapSects
      BY <1>1, <1>2, <1>3, <1>19
    <2>2. c.start <= hi /\ hi < c.start + FileSects /\ c.start + FileSects = hi + c.left
      <3> DEFINE a == c.start + FileSects
      <3>1. c.left = IF a <= hi THEN 0 ELSE a - hi
        BY <1>a, Zenon
      <3>a. a \in Nat /\ c.start < hi
        BY <1>2, <1>3
      <3> HIDE DEF a, hi
      <3>2. hi < a /\ a = hi + c.left /\ c.start <= hi
        BY <1>3, <1>4, <1>19, <3>1, <3>a
      <3> QED BY <3>2 DEF a
    <2>3. \A b \in Bit : b < hi => b \in smap'
      <3> SUFFICES ASSUME NEW b \in Bit, b < hi PROVE b \in smap'
        OBVIOUS
      <3>1. b < c.start + FileSects
        <4>1. b \in Nat /\ c.start + FileSects \in Nat
          BY <1>3, Constants DEF Bit
        <4> HIDE DEF hi
        <4> QED BY <1>4, <2>2, <4>1
      <3> QED BY <1>6, <3>1
    <2>4. Taking(t)'
      BY <1>2, <1>9, <1>17, <1>19, <2>1, <2>2, <2>3 DEF Taking
    <2> QED BY <1>1, <1>9, <1>14, <1>15, <1>16, <1>19, <2>4, Vacuous, Concludes DEF Where, Syncing
  <1> QED BY <1>18, <1>19

-----------------------------------------------------------------------------
(* The inode table                                                         *)

\* One slot other than the root's is changed.
LEMMA SlotChanged ==
    ASSUME Ext2Types, NEW t \in Task, Table(t), NEW s \in Slot \ {0},
           UNCHANGED <<dinode, fdt>>, Grown(t)' <=> Grown(t),
           itab' \in [Slot -> Slots], \A x \in Slot \ {s} : itab'[x] = itab[x],
           \A x \in Slot \ {s} : Keeps(t, x)' <=> Keeps(t, x),
           \A x \in Slot \ {s} : Ahead(t, x)' <=> Ahead(t, x),
           Pending(t) => Pending(t)' \/ \A x \in Slot \ {s} : ~Keeps(t, x),
           itab'[s].cnt = Cardinality(Users(s)) + (IF Keeps(t, s)' THEN 1 ELSE 0),
           itab'[s].cnt # 0 =>
              /\ \A x \in Slot \ {s} : itab[x].cnt # 0 => itab[x].num # itab'[s].num
              /\ itab'[s].num \in 1 .. Size \/ (Pending(t)' /\ Keeps(t, s)')
              /\ Ahead(t, s)' \/ dinode[itab'[s].num] = Inode(itab'[s].size, itab'[s].start)
    PROVE  Table(t)'
  <1>1. Size' = Size /\ \A x : Users(x)' = Users(x)
    BY DEF Size, Users
  <1>2. itab'[0] = itab[0] /\ 0 \in Slot
    BY Constants
  <1>3. ASSUME NEW x \in Slot \ {0}
        PROVE  itab'[x].cnt = Cardinality(Users(x)) + (IF Keeps(t, x)' THEN 1 ELSE 0)
    <2>1. CASE x = s
      BY <2>1
    <2>2. CASE x # s
      BY <2>2 DEF Table
    <2> QED BY <2>1, <2>2
  <1>4. ASSUME NEW r \in Slot, NEW x \in Slot, itab'[r].cnt # 0, itab'[x].cnt # 0, itab'[r].num = itab'[x].num
        PROVE  r = x
    BY <1>4 DEF Table
  <1>5. ASSUME NEW x \in Slot, itab'[x].cnt # 0
        PROVE  itab'[x].num \in 1 .. Size \/ (Pending(t)' /\ Keeps(t, x)')
    BY <1>5 DEF Table
  <1>6. ASSUME NEW x \in Slot, itab'[x].cnt # 0, ~Ahead(t, x)'
        PROVE  dinode[itab'[x].num] = Inode(itab'[x].size, itab'[x].start)
    BY <1>6 DEF Table
  <1> QED BY <1>1, <1>2, <1>3, <1>4, <1>5, <1>6 DEF Table

\* At get no slot is held or ahead of the card; all in use are those of listed files.
LEMMA TableAtGet ==
    ASSUME Ext2Types, NEW t \in Task, Sound(t), call[t].at = "get"
    PROVE  /\ \A x \in Slot : ~Keeps(t, x) /\ ~Ahead(t, x)
           /\ ~Grown(t)
           /\ \A x \in Slot : itab[x].cnt # 0 => itab[x].num \in 1 .. Size
           /\ \A x \in Slot \ {0} : itab[x].cnt = Cardinality(Users(x))
           /\ itab[0].num = 1 /\ itab[0].cnt = 1
           /\ call[t].ino \in 2 .. Size + 1 /\ (call[t].ino \in 2 .. Size <=> ~call[t].create)
           /\ call[t].name \in Name /\ call[t].then = "idle" /\ Size \in Nat
           /\ call[t] \in Calls
  <1>1. (\A x \in Slot : ~Keeps(t, x) /\ ~Ahead(t, x)) /\ ~Grown(t)
    BY DEF Keeps, Ahead, Grown, Syncing
  <1>2. \A x \in Slot : itab[x].cnt # 0 => itab[x].num \in 1 .. Size
    BY <1>1 DEF Sound, Table
  <1>3. \A x \in Slot \ {0} : itab[x].cnt = Cardinality(Users(x))
    BY <1>1, UsersFinite DEF Sound, Table
  <1>4. itab[0].num = 1 /\ itab[0].cnt = 1
    BY DEF Sound, Table, Root
  <1>5. Size \in Nat /\ Size # 0 /\ call[t] \in Calls
    BY SizeType, CallType DEF Sound, Card
  <1>6. /\ call[t].create => call[t].ino = Size + 1
        /\ ~call[t].create => call[t].ino \in 2 .. Size
        /\ call[t].name \in Name /\ call[t].then = "idle"
    BY DEF Sound, Where, Getting, New
  <1>7. call[t].ino \in 2 .. Size + 1 /\ (call[t].ino \in 2 .. Size <=> ~call[t].create)
    <2>1. CASE call[t].create
      BY <1>5, <1>6, <2>1
    <2>2. CASE ~call[t].create
      BY <1>5, <1>6, <2>2
    <2> QED BY <2>1, <2>2
  <1> QED BY <1>1, <1>2, <1>3, <1>4, <1>5, <1>6, <1>7

LEMMA GetHitKeeps ==
    ASSUME Ext2Types, NEW t \in Task, Lone(t), Sound(t), ~wild, breach' = {}, GetHit(t)
    PROVE  Ext2State'
  <1> DEFINE c == call[t]
  <1>0. PICK s : s = Least(HitSlots(c.ino))
    OBVIOUS
  <1> DEFINE e == [c EXCEPT !.pin = s]
  <1>1. /\ c.at = "get" /\ HitSlots(c.ino) # {} /\ UNCHANGED <<card, fdt, filp>> /\ wild' = wild
        /\ itab' = [itab EXCEPT ![s].cnt = @ + 1]
        /\ Goto(t, IF c.create THEN "new" ELSE "claim", e)
    BY <1>0 DEF GetHit, At, ghosts
  <1>2. /\ \A x \in Slot : ~Keeps(t, x) /\ ~Ahead(t, x)
        /\ ~Grown(t)
        /\ \A x \in Slot : itab[x].cnt # 0 => itab[x].num \in 1 .. Size
        /\ \A x \in Slot \ {0} : itab[x].cnt = Cardinality(Users(x))
        /\ itab[0].num = 1 /\ itab[0].cnt = 1
        /\ c.ino \in 2 .. Size + 1 /\ (c.ino \in 2 .. Size <=> ~c.create)
        /\ c.name \in Name /\ c.then = "idle" /\ Size \in Nat
        /\ c \in Calls
    BY <1>1, TableAtGet
  <1>3. s \in Slot /\ itab[s].cnt # 0 /\ itab[s].num = c.ino
    <2>1. HitSlots(c.ino) \in SUBSET Nat
      BY Constants DEF HitSlots
    <2>2. s \in HitSlots(c.ino)
      BY <1>0, <1>1, <2>1, LeastIn
    <2> QED BY <2>2 DEF HitSlots
  <1>4. s # 0 /\ c.ino \in 2 .. Size /\ ~c.create
    <2>1. c.ino \in 1 .. Size /\ c.ino # 1
      BY <1>2, <1>3
    <2> QED BY <1>2, <1>3, <2>1
  <1>5. /\ e \in Calls /\ e.name = c.name /\ e.fd = c.fd /\ e.d = c.d /\ e.create = c.create
        /\ e.pin = s /\ e.then = c.then /\ e.ino = c.ino
    BY <1>2, <1>3 DEF Calls
  <1> HIDE DEF e
  <1>6. call' \in [Task -> Calls] /\ (\A u \in Task \ {t} : call'[u] = call[u]) /\ call'[t] = [e EXCEPT !.at = "claim"]
    <2>1. "claim" \in Point /\ Goto(t, "claim", e)
      BY <1>1, <1>4 DEF Point
    <2> QED BY <1>5, <2>1, Goes
  <1>7. /\ call'[t].at = "claim" /\ call'[t].name = c.name /\ call'[t].create = c.create
        /\ call'[t].fd = c.fd /\ call'[t].d = c.d /\ call'[t].pin = s
        /\ call'[t].ino = c.ino /\ call'[t].then = c.then
    BY <1>5, <1>6 DEF Calls
  <1>8. /\ itab' \in [Slot -> Slots] /\ \A x \in Slot \ {s} : itab'[x] = itab[x]
        /\ itab'[s].num = c.ino /\ itab'[s].cnt = itab[s].cnt + 1
        /\ itab'[s].size = itab[s].size /\ itab'[s].start = itab[s].start
    <2>1. itab[s] \in Slots /\ itab \in [Slot -> Slots]
      BY <1>3 DEF Ext2Types
    <2>2. itab' = [itab EXCEPT ![s] = [itab[s] EXCEPT !.cnt = itab[s].cnt + 1]]
      BY <1>1
    <2>3. [itab[s] EXCEPT !.cnt = itab[s].cnt + 1] \in Slots
      BY <2>1 DEF Slots
    <2> QED BY <1>3, <2>1, <2>2, <2>3 DEF Slots
  <1>9. Keeps(t, s)' /\ \A x \in Slot \ {s} : ~Keeps(t, x)'
    BY <1>7 DEF Keeps, Syncing
  <1>10. ~Grown(t)' /\ ~Pending(t)' /\ ~Pending(t) /\ \A x \in Slot : ~Ahead(t, x)'
    BY <1>4, <1>7 DEF Grown, Pending, Ahead, Syncing
  <1>11. Card(t)'
    <2>1. Size' = Size /\ Old' = Old /\ (\A g : First(g)' = First(g)) /\ Bits' /\ Entries'
      BY <1>1, FilesKept DEF Sound, Card, card
    <2> QED BY <1>1, <1>10, <2>1 DEF Sound, Card, card
  <1>12. Table(t)'
    <2>1. itab'[s].cnt = Cardinality(Users(s)) + (IF Keeps(t, s)' THEN 1 ELSE 0)
      BY <1>2, <1>3, <1>4, <1>8, <1>9
    <2>2. \A x \in Slot \ {s} : itab[x].cnt # 0 => itab[x].num # itab'[s].num
      BY <1>3, <1>8 DEF Sound, Table
    <2>3. itab'[s].num \in 1 .. Size
      BY <1>2, <1>3, <1>8
    <2>4. dinode[itab'[s].num] = Inode(itab'[s].size, itab'[s].start)
      BY <1>2, <1>3, <1>8 DEF Sound, Table
    <2>5. Table(t) /\ UNCHANGED <<dinode, fdt>>
      BY <1>1 DEF Sound, card
    <2>6. s \in Slot \ {0} /\ (Grown(t)' <=> Grown(t)) /\ (Pending(t) => Pending(t)')
      BY <1>2, <1>3, <1>4, <1>10
    <2>7. /\ \A x \in Slot \ {s} : Keeps(t, x)' <=> Keeps(t, x)
          /\ \A x \in Slot \ {s} : Ahead(t, x)' <=> Ahead(t, x)
      BY <1>2, <1>9, <1>10
    <2>8. itab' \in [Slot -> Slots] /\ \A x \in Slot \ {s} : itab'[x] = itab[x]
      BY <1>8
    <2> QED BY <2>1, <2>2, <2>3, <2>4, <2>5, <2>6, <2>7, <2>8, SlotChanged
  <1>13. Descriptors' /\ Reserved(t)'
    BY <1>1, <1>7, DescriptorsKept, ReservedKept DEF Sound
  <1>14. Ext2Types' /\ Lone(t)'
    BY <1>1, <1>6, <1>8, StaysLone DEF Ext2Types, card
  <1>15. Claiming(t)'
    <2>1. Size' = Size /\ dir' = dir
      BY <1>1 DEF Size, card
    <2>2. dir[c.ino - 1].name = c.name
      BY <1>1, <1>4 DEF Sound, Where, Getting
    <2>3. itab'[s].cnt # 0
      <3>1. itab[s].cnt \in Nat
        BY <1>3 DEF Ext2Types, Slots
      <3> QED BY <1>8, <3>1
    <2> QED BY <1>2, <1>4, <1>7, <1>8, <2>1, <2>2, <2>3 DEF Claiming
  <1> QED BY <1>1, <1>7, <1>11, <1>12, <1>13, <1>14, <1>15, Vacuous, Concludes DEF Where, Syncing

LEMMA CardKept ==
    ASSUME NEW t \in Task, Card(t), UNCHANGED card, Pending(t)' <=> Pending(t)
    PROVE  Card(t)' /\ Size' = Size /\ Old' = Old /\ \A g : First(g)' = First(g)
  <1>1. Size' = Size /\ Old' = Old /\ (\A g : First(g)' = First(g)) /\ Bits' /\ Entries'
    BY FilesKept DEF Card, card
  <1> QED BY <1>1 DEF Card, card

\* What the call knows of the card stays true with the card.
LEMMA KnownKept ==
    ASSUME NEW t, UNCHANGED card, call'[t].name = call[t].name, call'[t].create = call[t].create,
           call'[t].ino = call[t].ino, call'[t].start = call[t].start
    PROVE  /\ Fresh(t) => Fresh(t)'
           /\ New(t) => New(t)'
           /\ Placed(t) => Placed(t)'
           /\ OnCard(t) => OnCard(t)'
  <1>1. Size' = Size /\ Old' = Old /\ (\A g : First(g)' = First(g))
    BY DEF Size, Old, First, card
  <1>2. Fresh(t) => Fresh(t)'
    BY <1>1 DEF Fresh, card
  <1>3. Placed(t) => Placed(t)'
    BY <1>1 DEF Placed, Behind, card
  <1> QED BY <1>1, <1>2, <1>3 DEF New, OnCard, card

LEMMA GetSlotKeeps ==
    ASSUME Ext2Types, NEW t \in Task, Lone(t), Sound(t), ~wild, breach' = {}, GetSlot(t)
    PROVE  Ext2State'
  <1> DEFINE c == call[t]
  <1>0. PICK s : s = Least(FreeSlots)
    OBVIOUS
  <1> DEFINE e == [c EXCEPT !.pin = s]
  <1>1. /\ c.at = "get" /\ HitSlots(c.ino) = {} /\ FreeSlots # {}
        /\ UNCHANGED <<card, fdt, filp>> /\ wild' = wild
        /\ itab' = [itab EXCEPT ![s].num = c.ino, ![s].cnt = 1]
        /\ Goto(t, "load", e)
    BY <1>0 DEF GetSlot, At, ghosts
  <1>2. /\ \A x \in Slot : ~Keeps(t, x) /\ ~Ahead(t, x)
        /\ ~Grown(t)
        /\ \A x \in Slot : itab[x].cnt # 0 => itab[x].num \in 1 .. Size
        /\ \A x \in Slot \ {0} : itab[x].cnt = Cardinality(Users(x))
        /\ itab[0].num = 1 /\ itab[0].cnt = 1
        /\ c.ino \in 2 .. Size + 1 /\ (c.ino \in 2 .. Size <=> ~c.create)
        /\ c.name \in Name /\ c.then = "idle" /\ Size \in Nat
        /\ c \in Calls
    BY <1>1, TableAtGet
  <1>3. s \in Slot /\ itab[s].cnt = 0 /\ s # 0
    <2>1. FreeSlots \in SUBSET Nat
      BY Constants DEF FreeSlots
    <2>2. s \in FreeSlots
      BY <1>0, <1>1, <2>1, LeastIn
    <2> QED BY <1>2, <2>2 DEF FreeSlots
  <1>4. /\ e \in Calls /\ e.name = c.name /\ e.fd = c.fd /\ e.d = c.d /\ e.create = c.create
        /\ e.pin = s /\ e.then = c.then /\ e.ino = c.ino /\ e.start = c.start
    BY <1>2, <1>3 DEF Calls
  <1> HIDE DEF e
  <1>5. call' \in [Task -> Calls] /\ (\A u \in Task \ {t} : call'[u] = call[u]) /\ call'[t] = [e EXCEPT !.at = "load"]
    <2>1. "load" \in Point
      BY DEF Point
    <2> QED BY <1>1, <1>4, <2>1, Goes
  <1>6. /\ call'[t].at = "load" /\ call'[t].name = c.name /\ call'[t].create = c.create
        /\ call'[t].fd = c.fd /\ call'[t].d = c.d /\ call'[t].pin = s
        /\ call'[t].ino = c.ino /\ call'[t].then = c.then /\ call'[t].start = c.start
    BY <1>4, <1>5 DEF Calls
  <1>7. /\ itab' \in [Slot -> Slots] /\ \A x \in Slot \ {s} : itab'[x] = itab[x]
        /\ itab'[s].num = c.ino /\ itab'[s].cnt = 1
    <2>1. itab[s] \in Slots /\ itab \in [Slot -> Slots] /\ c.ino \in Nat
      BY <1>2, <1>3 DEF Ext2Types, Calls
    <2>2. itab' = [itab EXCEPT ![s] = [itab[s] EXCEPT !.num = c.ino, !.cnt = 1]]
      BY <1>1, <2>1
    <2>3. [itab[s] EXCEPT !.num = c.ino, !.cnt = 1] \in Slots
      BY <2>1 DEF Slots
    <2> QED BY <1>3, <2>1, <2>2, <2>3 DEF Slots
  <1>8. Keeps(t, s)' /\ \A x \in Slot \ {s} : ~Keeps(t, x)'
    BY <1>6 DEF Keeps, Syncing
  <1>9. ~Grown(t)' /\ (Pending(t)' <=> c.create) /\ (Pending(t) <=> c.create)
    BY <1>1, <1>6 DEF Grown, Pending, Syncing
  <1>10. Ahead(t, s)' /\ \A x \in Slot \ {s} : ~Ahead(t, x)'
    BY <1>6 DEF Ahead, Syncing
  <1>11. Card(t)' /\ Size' = Size
    BY <1>1, <1>9, CardKept DEF Sound
  <1>12. Table(t)'
    <2>1. itab'[s].cnt = Cardinality(Users(s)) + (IF Keeps(t, s)' THEN 1 ELSE 0)
      BY <1>2, <1>3, <1>7, <1>8
    <2>2. \A x \in Slot \ {s} : itab[x].cnt # 0 => itab[x].num # itab'[s].num
      BY <1>1, <1>7 DEF HitSlots
    <2>3. itab'[s].num \in 1 .. Size \/ (Pending(t)' /\ Keeps(t, s)')
      BY <1>2, <1>7, <1>8, <1>9
    <2>5. Table(t) /\ UNCHANGED <<dinode, fdt>>
      BY <1>1 DEF Sound, card
    <2>6. s \in Slot \ {0} /\ (Grown(t)' <=> Grown(t)) /\ (Pending(t) => Pending(t)')
      BY <1>2, <1>3, <1>9
    <2>7. /\ \A x \in Slot \ {s} : Keeps(t, x)' <=> Keeps(t, x)
          /\ \A x \in Slot \ {s} : Ahead(t, x)' <=> Ahead(t, x)
      BY <1>2, <1>8, <1>10
    <2>8. itab' \in [Slot -> Slots] /\ \A x \in Slot \ {s} : itab'[x] = itab[x]
      BY <1>7
    <2> QED BY <1>10, <2>1, <2>2, <2>3, <2>5, <2>6, <2>7, <2>8, SlotChanged
  <1>13. Descriptors' /\ Reserved(t)'
    BY <1>1, <1>6, DescriptorsKept, ReservedKept DEF Sound
  <1>14. Ext2Types' /\ Lone(t)'
    BY <1>1, <1>5, <1>7, StaysLone DEF Ext2Types, card
  <1>15. Getting(t)'
    <2>1. dir' = dir
      BY <1>1 DEF card
    <2>2. IF c.create THEN New(t) /\ Placed(t) ELSE c.ino \in 2 .. Size /\ dir[c.ino - 1].name = c.name
      BY <1>1 DEF Sound, Where, Getting
    <2>3. c.create => New(t)' /\ Placed(t)'
      BY <1>1, <1>6, <2>2, KnownKept
    <2> QED BY <1>2, <1>3, <1>6, <1>7, <1>11, <2>1, <2>2, <2>3 DEF Getting
  <1> QED BY <1>1, <1>6, <1>11, <1>12, <1>13, <1>14, <1>15, Vacuous, Concludes DEF Where, Syncing

\* A call never asks for inode 0.
LEMMA GetNullNever ==
    ASSUME Ext2Types, NEW t \in Task, Sound(t), ~wild, breach' = {}, GetNull(t)
    PROVE  FALSE
  <1>1. call[t].at = "get" /\ call[t].ino = 0
    BY DEF GetNull, At, Breaks, Only
  <1> QED BY <1>1, TableAtGet

\* The card's inode numbers
LEMMA Numbers ==
    ASSUME Ext2Types, NEW t \in Task, Sound(t)
    PROVE  /\ 0 .. Size \subseteq Ino /\ (Pending(t) => Size + 1 \in Ino)
           /\ Size \in Nat /\ Size # 0 /\ Old \subseteq Index
           /\ \A g \in Old : First(g) \in Nat
  <1>1. imap \subseteq Ino /\ imap = 0 .. (IF Pending(t) THEN Size + 1 ELSE Size) /\ Size # 0
    BY DEF Ext2Types, Sound, Card
  <1>2. Size \in Nat
    BY SizeType
  <1>3. 0 .. Size \subseteq Ino /\ (Pending(t) => Size + 1 \in Ino)
    BY <1>1, <1>2
  <1>4. Size \in 0 .. ImapBits
    BY <1>2, <1>3, Constants DEF Ino
  <1>5. Old \subseteq 0 .. ImapBits
    BY <1>2, <1>4, Constants DEF Old
  <1>6. \A g \in Old : g + 1 \in Ino
    BY <1>2, <1>3 DEF Old
  <1>7. \A g \in Old : First(g) \in Nat
    BY <1>6 DEF First, Ext2Types, Inodes
  <1> QED BY <1>1, <1>2, <1>3, <1>5, <1>7, Indices

\* The slot a call has been given
LEMMA TableAtTake ==
    ASSUME Ext2Types, NEW t \in Task, Sound(t), call[t].at \in {"take", "new"}
    PROVE  /\ call[t].pin \in Slot \ {0} /\ call[t].ino \in Ino /\ call[t].name \in Name
           /\ call[t].then = "idle" /\ itab[call[t].pin].num = call[t].ino /\ itab[call[t].pin].cnt = 1
           /\ \A s \in Slot : (Keeps(t, s) <=> s = call[t].pin) /\ (Ahead(t, s) <=> s = call[t].pin)
           /\ ~Grown(t) /\ (Pending(t) <=> call[t].create)
           /\ Cardinality(Users(call[t].pin)) = 0
           /\ \A s \in Slot \ {call[t].pin} : itab[s].cnt # 0 => itab[s].num # call[t].ino
           /\ IF call[t].create THEN New(t) /\ Placed(t)
              ELSE call[t].at = "take" /\ call[t].ino \in 2 .. Size /\ dir[call[t].ino - 1].name = call[t].name
  <1> DEFINE c == call[t]
  <1>1. /\ c.name \in Name /\ c.then = "idle" /\ c.pin # 0 /\ itab[c.pin].num = c.ino /\ itab[c.pin].cnt = 1
        /\ IF c.create THEN New(t) /\ Placed(t)
           ELSE c.at # "new" /\ c.ino \in 2 .. Size /\ dir[c.ino - 1].name = c.name
    BY DEF Sound, Where, Getting
  <1>2. c.pin \in Slot \ {0}
    BY <1>1, CallType DEF Calls
  <1>3. \A s \in Slot : (Keeps(t, s) <=> s = c.pin) /\ (Ahead(t, s) <=> s = c.pin)
    BY DEF Keeps, Ahead, Syncing
  <1>4. ~Grown(t) /\ (Pending(t) <=> c.create)
    BY DEF Grown, Pending, Syncing
  <1>5. Cardinality(Users(c.pin)) = 0
    <2>1. itab[c.pin].cnt = Cardinality(Users(c.pin)) + 1
      BY <1>2, <1>3 DEF Sound, Table
    <2> QED BY <1>1, <2>1, UsersFinite
  <1>6. c.ino \in Ino
    <2>1. CASE c.create
      BY <1>1, <1>4, <2>1, Numbers DEF New
    <2>2. CASE ~c.create
      BY <1>1, <2>2, Numbers
    <2> QED BY <2>1, <2>2
  <1>7. \A s \in Slot \ {c.pin} : itab[s].cnt # 0 => itab[s].num # c.ino
    BY <1>1, <1>2 DEF Sound, Table
  <1> QED BY <1>1, <1>2, <1>3, <1>4, <1>5, <1>6, <1>7

LEMMA LoadTakeKeeps ==
    ASSUME Ext2Types, NEW t \in Task, Lone(t), Sound(t), ~wild, breach' = {}, LoadTake(t)
    PROVE  Ext2State'
  <1> DEFINE c == call[t]
             l == IF c.create THEN "new" ELSE "claim"
  <1>1. /\ c.at = "take" /\ UNCHANGED <<card, fdt, filp>> /\ wild' = wild
        /\ itab' = [itab EXCEPT ![c.pin].size = buf.val[c.ino].size, ![c.pin].start = buf.val[c.ino].start]
        /\ Goto(t, l, c)
    BY DEF LoadTake, Uses, At, ghosts
  <1>2. /\ c.pin \in Slot \ {0} /\ c.ino \in Ino /\ c.name \in Name
        /\ c.then = "idle" /\ itab[c.pin].num = c.ino /\ itab[c.pin].cnt = 1
        /\ \A s \in Slot : (Keeps(t, s) <=> s = c.pin) /\ (Ahead(t, s) <=> s = c.pin)
        /\ ~Grown(t) /\ (Pending(t) <=> c.create)
        /\ Cardinality(Users(c.pin)) = 0
        /\ \A s \in Slot \ {c.pin} : itab[s].cnt # 0 => itab[s].num # c.ino
        /\ IF c.create THEN New(t) /\ Placed(t)
           ELSE c.ino \in 2 .. Size /\ dir[c.ino - 1].name = c.name
    BY <1>1, TableAtTake
  <1>3. PICK s \in Slot \ {0} : s = c.pin
    BY <1>2
  <1>4. c \in Calls /\ buf.val = dinode /\ dinode[c.ino] \in Inodes
    BY <1>1, <1>2, CallType DEF Sound, Where, Getting, BufIs, Ext2Types
  <1>5. call' \in [Task -> Calls] /\ (\A u \in Task \ {t} : call'[u] = call[u]) /\ call'[t] = [c EXCEPT !.at = l]
    <2>1. l \in Point
      BY DEF Point
    <2> HIDE DEF l
    <2> QED BY <1>1, <1>4, <2>1, Goes
  <1>6. /\ call'[t].at = l /\ call'[t].name = c.name /\ call'[t].create = c.create
        /\ call'[t].fd = c.fd /\ call'[t].d = c.d /\ call'[t].pin = s
        /\ call'[t].ino = c.ino /\ call'[t].then = c.then /\ call'[t].start = c.start
    BY <1>3, <1>4, <1>5 DEF Calls
  <1>7. /\ itab' \in [Slot -> Slots] /\ \A x \in Slot \ {s} : itab'[x] = itab[x]
        /\ itab'[s].num = c.ino /\ itab'[s].cnt = 1
        /\ dinode[c.ino] = Inode(itab'[s].size, itab'[s].start)
    <2>1. itab[s] \in Slots /\ itab \in [Slot -> Slots]
      BY DEF Ext2Types
    <2>2. itab' = [itab EXCEPT ![s] = [itab[s] EXCEPT !.size = dinode[c.ino].size, !.start = dinode[c.ino].start]]
      BY <1>1, <1>3, <1>4, <2>1
    <2>3. [itab[s] EXCEPT !.size = dinode[c.ino].size, !.start = dinode[c.ino].start] \in Slots
      BY <1>4, <2>1 DEF Slots, Inodes
    <2> QED BY <1>2, <1>3, <1>4, <2>1, <2>2, <2>3 DEF Slots, Inodes, Inode
  <1>8. Keeps(t, s)' /\ \A x \in Slot \ {s} : ~Keeps(t, x)'
    BY <1>6 DEF Keeps, Syncing
  <1>9. ~Grown(t)' /\ (Pending(t)' <=> c.create)
    BY <1>6 DEF Grown, Pending, Syncing
  <1>10. \A x \in Slot \ {s} : ~Ahead(t, x)'
    BY <1>6 DEF Ahead, Syncing
  <1>11. Card(t)' /\ Size' = Size
    BY <1>1, <1>2, <1>9, CardKept DEF Sound
  <1>12. Table(t)'
    <2>1. itab'[s].cnt = Cardinality(Users(s)) + (IF Keeps(t, s)' THEN 1 ELSE 0)
      BY <1>2, <1>3, <1>7, <1>8
    <2>2. \A x \in Slot \ {s} : itab[x].cnt # 0 => itab[x].num # itab'[s].num
      BY <1>2, <1>3, <1>7
    <2>3. itab'[s].num \in 1 .. Size \/ (Pending(t)' /\ Keeps(t, s)')
      <3>1. ~c.create => c.ino \in 1 .. Size
        BY <1>2, SizeType
      <3> QED BY <1>7, <1>8, <1>9, <3>1
    <2>5. Table(t) /\ UNCHANGED <<dinode, fdt>>
      BY <1>1 DEF Sound, card
    <2>6. (Grown(t)' <=> Grown(t)) /\ (Pending(t) => Pending(t)')
      BY <1>2, <1>9
    <2>7. /\ \A x \in Slot \ {s} : Keeps(t, x)' <=> Keeps(t, x)
          /\ \A x \in Slot \ {s} : Ahead(t, x)' <=> Ahead(t, x)
      BY <1>2, <1>3, <1>8, <1>10
    <2>8. itab' \in [Slot -> Slots] /\ \A x \in Slot \ {s} : itab'[x] = itab[x]
      BY <1>7
    <2>9. dinode[itab'[s].num] = Inode(itab'[s].size, itab'[s].start)
      BY <1>7
    <2> QED BY <2>1, <2>2, <2>3, <2>5, <2>6, <2>7, <2>8, <2>9, SlotChanged
  <1>13. Descriptors' /\ Reserved(t)'
    BY <1>1, <1>6, DescriptorsKept, ReservedKept DEF Sound
  <1>14. Ext2Types' /\ Lone(t)'
    BY <1>1, <1>5, <1>7, StaysLone DEF Ext2Types, card
  <1>15. CASE c.create
    <2>1. New(t)' /\ Placed(t)'
      BY <1>1, <1>2, <1>6, <1>15, KnownKept
    <2>2. Getting(t)'
      BY <1>2, <1>6, <1>7, <1>15, <2>1 DEF Getting
    <2> QED BY <1>1, <1>6, <1>11, <1>12, <1>13, <1>14, <1>15, <2>2, Vacuous, Concludes DEF Where, Syncing
  <1>16. CASE ~c.create
    <2>1. Claiming(t)'
      <3>1. dir' = dir
        BY <1>1 DEF card
      <3> QED BY <1>2, <1>6, <1>7, <1>11, <1>16, <3>1 DEF Claiming
    <2> QED BY <1>1, <1>6, <1>11, <1>12, <1>13, <1>14, <1>16, <2>1, Vacuous, Concludes DEF Where, Syncing
  <1> QED BY <1>15, <1>16

LEMMA NewInodeKeeps ==
    ASSUME Ext2Types, NEW t \in Task, Lone(t), Sound(t), ~wild, breach' = {}, NewInode(t)
    PROVE  Ext2State'
  <1> DEFINE c == call[t]
             e == [c EXCEPT !.then = "dir", !.i = 0]
  <1>1. /\ c.at = "new" /\ UNCHANGED <<card, fdt, filp>> /\ wild' = wild
        /\ itab' = [itab EXCEPT ![c.pin] = [num |-> c.ino, cnt |-> 1, size |-> 0, start |-> c.start]]
        /\ Goto(t, "sync", e)
    BY DEF NewInode, At, ghosts
  <1>2. /\ c.pin \in Slot \ {0} /\ c.ino \in Ino /\ c.name \in Name
        /\ c.then = "idle" /\ itab[c.pin].num = c.ino /\ itab[c.pin].cnt = 1
        /\ \A s \in Slot : (Keeps(t, s) <=> s = c.pin) /\ (Ahead(t, s) <=> s = c.pin)
        /\ ~Grown(t) /\ (Pending(t) <=> c.create)
        /\ Cardinality(Users(c.pin)) = 0
        /\ \A s \in Slot \ {c.pin} : itab[s].cnt # 0 => itab[s].num # c.ino
        /\ c.create /\ New(t) /\ Placed(t)
    BY <1>1, TableAtTake
  <1>3. PICK s \in Slot \ {0} : s = c.pin
    BY <1>2
  <1>4. c \in Calls
    BY CallType
  <1>a. /\ e \in Calls /\ e.name = c.name /\ e.fd = c.fd /\ e.d = c.d /\ e.create = c.create
        /\ e.pin = c.pin /\ e.then = "dir" /\ e.ino = c.ino /\ e.start = c.start /\ e.i = 0
    BY <1>4 DEF Calls
  <1> HIDE DEF e
  <1>5. call' \in [Task -> Calls] /\ (\A u \in Task \ {t} : call'[u] = call[u]) /\ call'[t] = [e EXCEPT !.at = "sync"]
    <2>1. "sync" \in Point
      BY DEF Point, Syncing
    <2> QED BY <1>1, <1>a, <2>1, Goes
  <1>6. /\ call'[t].at = "sync" /\ call'[t].name = c.name /\ call'[t].create = c.create
        /\ call'[t].fd = c.fd /\ call'[t].d = c.d /\ call'[t].pin = s /\ call'[t].i = 0
        /\ call'[t].ino = c.ino /\ call'[t].then = "dir" /\ call'[t].start = c.start
    BY <1>3, <1>a, <1>5 DEF Calls
  <1>7. /\ itab' \in [Slot -> Slots] /\ \A x \in Slot \ {s} : itab'[x] = itab[x]
        /\ itab'[s] = [num |-> c.ino, cnt |-> 1, size |-> 0, start |-> c.start]
    <2>1. itab \in [Slot -> Slots]
      BY DEF Ext2Types
    <2>2. [num |-> c.ino, cnt |-> 1, size |-> 0, start |-> c.start] \in Slots
      BY <1>4 DEF Slots, Calls
    <2> QED BY <1>1, <1>3, <2>1, <2>2
  <1>b. itab'[s].num = c.ino /\ itab'[s].cnt = 1
    BY <1>7
  <1>8. Keeps(t, s)' /\ \A x \in Slot \ {s} : ~Keeps(t, x)'
    BY <1>6 DEF Keeps, Syncing
  <1>9. ~Grown(t)' /\ Pending(t)'
    BY <1>2, <1>6 DEF Grown, Pending, Syncing
  <1>10. Ahead(t, s)' /\ \A x \in Slot \ {s} : ~Ahead(t, x)'
    BY <1>6 DEF Ahead, Syncing
  <1>11. Card(t)' /\ Size' = Size
    BY <1>1, <1>2, <1>9, CardKept DEF Sound
  <1>12. Table(t)'
    <2>1. itab'[s].cnt = Cardinality(Users(s)) + (IF Keeps(t, s)' THEN 1 ELSE 0)
      BY <1>2, <1>3, <1>b, <1>8
    <2>2. \A x \in Slot \ {s} : itab[x].cnt # 0 => itab[x].num # itab'[s].num
      BY <1>2, <1>3, <1>b
    <2>5. Table(t) /\ UNCHANGED <<dinode, fdt>>
      BY <1>1 DEF Sound, card
    <2>6. (Grown(t)' <=> Grown(t)) /\ (Pending(t) => Pending(t)')
      BY <1>2, <1>9
    <2>7. /\ \A x \in Slot \ {s} : Keeps(t, x)' <=> Keeps(t, x)
          /\ \A x \in Slot \ {s} : Ahead(t, x)' <=> Ahead(t, x)
      BY <1>2, <1>3, <1>8, <1>10
    <2>8. itab' \in [Slot -> Slots] /\ \A x \in Slot \ {s} : itab'[x] = itab[x]
      BY <1>7
    <2> QED BY <1>8, <1>9, <1>10, <2>1, <2>2, <2>5, <2>6, <2>7, <2>8, SlotChanged
  <1>13. Descriptors' /\ Reserved(t)'
    BY <1>1, <1>6, DescriptorsKept, ReservedKept DEF Sound
  <1>14. Ext2Types' /\ Lone(t)'
    BY <1>1, <1>5, <1>7, StaysLone DEF Ext2Types, card
  <1>15. Syncs(t)'
    <2>1. New(t)' /\ Placed(t)'
      BY <1>1, <1>2, <1>6, KnownKept
    <2>2. InSlot(t, s)' /\ s = call'[t].pin
      BY <1>6, <1>7 DEF InSlot
    <2> QED BY <1>2, <1>6, <2>1, <2>2 DEF Syncs
  <1> QED BY <1>1, <1>6, <1>11, <1>12, <1>13, <1>14, <1>15, Vacuous, Concludes DEF Where, Syncing

-----------------------------------------------------------------------------
(* The inodes on the card                                                  *)

LEMMA SyncSetKeeps ==
    ASSUME Ext2Types, NEW t \in Task, Lone(t), Sound(t), ~wild, breach' = {}, SyncSet(t)
    PROVE  Ext2State'
  <1> DEFINE c == call[t]
             p == itab[c.pin]
  <1>1. /\ c.at = "syncset" /\ UNCHANGED <<card, tables>> /\ wild' = wild /\ Goto(t, "syncwrite", c)
        /\ buf' = [kind |-> "ino", i |-> 0, val |-> [buf.val EXCEPT ![p.num] = Inode(p.size, p.start)]]
    BY DEF SyncSet, Uses, At, Load, ghosts
  <1>2. buf.val = dinode
    BY <1>1 DEF Sound, Where, Syncs, Syncing, BufIs
  <1>3. /\ Ext2Types' /\ Lone(t)' /\ Card(t)' /\ Descriptors' /\ Table(t)' /\ Reserved(t)' /\ ~wild'
        /\ call'[t].at = "syncwrite" /\ call'[t].name = c.name /\ Size' = Size
        /\ call'[t].create = c.create /\ call'[t].ino = c.ino /\ call'[t].pin = c.pin
        /\ call'[t].i = c.i /\ call'[t].start = c.start /\ call'[t].left = c.left
        /\ call'[t].then = c.then /\ New(t)' = New(t) /\ Placed(t)' = Placed(t)
    <2>1. "syncwrite" \in Point /\ "syncwrite" \in Syncing /\ c.at \in Syncing
      BY <1>1 DEF Point, Syncing
    <2> QED BY <1>1, <2>1, Advances
  <1>4. Syncs(t)'
    BY <1>1, <1>2, <1>3 DEF Syncs, Syncing, InSlot, OnCard, Entry, BufIs, Sound, Where, card, tables
  <1> QED BY <1>3, <1>4, Vacuous, Concludes DEF Where, Syncing

\* The inode of one slot is written: no slot is ahead of the card any more.
LEMMA InodeWritten ==
    ASSUME Ext2Types, NEW t \in Task, Sound(t), NEW s \in Slot, itab[s].cnt # 0,
           \A x \in Slot \ {s} : ~Ahead(t, x), itab' = itab,
           dinode' = [dinode EXCEPT ![itab[s].num] = Inode(itab[s].size, itab[s].start)]
    PROVE  /\ itab[s].num \in Ino /\ dinode' \in [Ino -> Inodes]
           /\ dinode'[itab[s].num] = Inode(itab[s].size, itab[s].start)
           /\ \A n \in Ino \ {itab[s].num} : dinode'[n] = dinode[n]
           /\ \A x \in Slot : itab[x].cnt # 0 => dinode'[itab[x].num] = Inode(itab[x].size, itab[x].start)
  <1>1. \A x \in Slot : itab[x].cnt # 0 => itab[x].num \in Ino
    <2> SUFFICES ASSUME NEW x \in Slot, itab[x].cnt # 0 PROVE itab[x].num \in Ino
      OBVIOUS
    <2>1. CASE itab[x].num \in 1 .. Size
      BY <2>1, Numbers
    <2>2. CASE Pending(t) /\ Keeps(t, x)
      <3>1. Size + 1 \in Ino /\ call[t].create
        BY <2>2, Numbers DEF Pending
      <3>2. itab[x].num = call[t].ino /\ call[t].ino = Size + 1
        BY <2>2, <3>1 DEF Pending, Keeps, Sound, Where, Getting, Syncs, Entering, New, InSlot, Syncing
      <3> QED BY <3>1, <3>2
    <2> QED BY <2>1, <2>2 DEF Sound, Table
  <1>2. itab[s].size \in Nat /\ itab[s].start \in Nat /\ dinode \in [Ino -> Inodes]
    BY DEF Ext2Types, Slots
  <1>3. Inode(itab[s].size, itab[s].start) \in Inodes
    BY <1>2 DEF Inode, Inodes
  <1>4. /\ dinode' \in [Ino -> Inodes]
        /\ dinode'[itab[s].num] = Inode(itab[s].size, itab[s].start)
        /\ \A n \in Ino \ {itab[s].num} : dinode'[n] = dinode[n]
    BY <1>1, <1>2, <1>3
  <1>5. ASSUME NEW x \in Slot, itab[x].cnt # 0
        PROVE  dinode'[itab[x].num] = Inode(itab[x].size, itab[x].start)
    <2>1. CASE x = s
      BY <1>4, <2>1
    <2>2. CASE x # s
      <3>1. itab[x].num # itab[s].num
        BY <1>5, <2>2 DEF Sound, Table
      <3>2. dinode[itab[x].num] = Inode(itab[x].size, itab[x].start)
        BY <1>5, <2>2 DEF Sound, Table
      <3> QED BY <1>1, <1>4, <1>5, <3>1, <3>2
    <2> QED BY <2>1, <2>2
  <1> QED BY <1>1, <1>4, <1>5

\* The written inode is the new file's, ...
LEMMA SyncDirKeeps ==
    ASSUME Ext2Types, NEW t \in Task, Lone(t), Sound(t), ~wild, breach' = {}, SyncWrite(t),
           call[t].then = "dir"
    PROVE  Ext2State'
  <1> DEFINE c == call[t]
  <1>1. PICK s : s = c.pin
    OBVIOUS
  <1> DEFINE e == [c EXCEPT !.n = itab[0].size]
  <1>2. /\ c.at = "syncwrite" /\ UNCHANGED <<imap, smap, dir, tables>> /\ wild' = wild
        /\ dinode' = buf.val /\ Goto(t, "dir", e)
    BY DEF SyncWrite, Uses, At, ghosts
  <1>3. /\ c.name \in Name /\ New(t) /\ Placed(t) /\ InSlot(t, s) /\ c.i = 0 /\ c.create
        /\ buf.val = [dinode EXCEPT ![itab[s].num] = Inode(itab[s].size, itab[s].start)]
    BY <1>1, <1>2 DEF Sound, Where, Syncs, Syncing, BufIs, New, Fresh
  <1>4. /\ c \in Calls /\ s \in Slot \ {0} /\ itab[s].num = c.ino /\ itab[s].cnt = 1
        /\ itab[s].size = 0 /\ itab[s].start = c.start /\ c.ino = Size + 1
    BY <1>1, <1>3, CallType DEF InSlot, Calls, New
  <1>5. /\ \A x \in Slot : (Keeps(t, x) <=> x = s) /\ (Ahead(t, x) <=> x = s)
        /\ ~Grown(t) /\ Pending(t)
    BY <1>1, <1>2, <1>3 DEF Keeps, Ahead, Grown, Pending, Syncing
  <1>6. /\ itab[s].num \in Ino /\ dinode' \in [Ino -> Inodes]
        /\ dinode'[itab[s].num] = Inode(itab[s].size, itab[s].start)
        /\ \A n \in Ino \ {itab[s].num} : dinode'[n] = dinode[n]
        /\ \A x \in Slot : itab[x].cnt # 0 => dinode'[itab[x].num] = Inode(itab[x].size, itab[x].start)
    <2>1. itab' = itab /\ itab[s].cnt # 0 /\ \A x \in Slot \ {s} : ~Ahead(t, x)
      BY <1>2, <1>4, <1>5 DEF tables
    <2>2. s \in Slot /\ dinode' = [dinode EXCEPT ![itab[s].num] = Inode(itab[s].size, itab[s].start)]
      BY <1>2, <1>3, <1>4
    <2> QED BY <2>1, <2>2, InodeWritten
  <1>7. itab[0].size = Size
    BY <1>5 DEF Sound, Table
  <1>8. /\ e \in Calls /\ e.name = c.name /\ e.fd = c.fd /\ e.d = c.d /\ e.create = c.create
        /\ e.pin = c.pin /\ e.then = c.then /\ e.ino = c.ino /\ e.start = c.start /\ e.i = c.i
        /\ e.n = Size
    BY <1>4, <1>7, SizeType DEF Calls
  <1> HIDE DEF e
  <1>9. call' \in [Task -> Calls] /\ (\A u \in Task \ {t} : call'[u] = call[u]) /\ call'[t] = [e EXCEPT !.at = "dir"]
    <2>1. "dir" \in Point
      BY DEF Point
    <2> QED BY <1>2, <1>8, <2>1, Goes
  <1>10. /\ call'[t].at = "dir" /\ call'[t].name = c.name /\ call'[t].create = c.create
         /\ call'[t].fd = c.fd /\ call'[t].d = c.d /\ call'[t].pin = s /\ call'[t].i = 0
         /\ call'[t].ino = c.ino /\ call'[t].then = "dir" /\ call'[t].start = c.start
         /\ call'[t].n = Size
    BY <1>1, <1>3, <1>8, <1>9 DEF Calls
  <1>11. /\ \A x \in Slot : (Keeps(t, x)' <=> x = s) /\ ~Ahead(t, x)'
         /\ ~Grown(t)' /\ Pending(t)'
    BY <1>3, <1>10 DEF Keeps, Ahead, Grown, Pending, Syncing
  <1>12. Size' = Size /\ Old' = Old /\ dinode'[Root] = dinode[Root] /\ \A g \in Old : First(g)' = First(g)
    <2>1. /\ Size \in Nat /\ Size # 0 /\ 0 .. Size \subseteq Ino
      BY Numbers
    <2>2. Root \in Ino /\ Root # c.ino
      BY <1>4, <2>1 DEF Root
    <2>3. dinode'[Root] = dinode[Root]
      BY <1>4, <1>6, <2>2
    <2>4. \A g \in Old : g + 1 \in Ino /\ g + 1 # c.ino
      BY <1>4, <2>1 DEF Old
    <2>5. \A g \in Old : First(g)' = First(g)
      BY <1>4, <1>6, <2>4 DEF First
    <2> QED BY <2>3, <2>5 DEF Size, Old
  <1>13. Card(t)'
    <2>1. Bits'
      BY <1>2, <1>12 DEF Sound, Card, Bits
    <2>2. Entries'
      BY <1>2, <1>12 DEF Sound, Card, Entries
    <2> QED BY <1>2, <1>5, <1>11, <1>12, <2>1, <2>2 DEF Sound, Card
  <1>14. Table(t)'
    <2>1. /\ itab[0] = [num |-> Root, cnt |-> 1, size |-> Size, start |-> 1]
          /\ \A x \in Slot \ {0} : itab[x].cnt = Cardinality(Users(x)) + (IF x = s THEN 1 ELSE 0)
          /\ \A r, x \in Slot : itab[r].cnt # 0 /\ itab[x].cnt # 0 /\ itab[r].num = itab[x].num => r = x
          /\ \A x \in Slot : itab[x].cnt # 0 => itab[x].num \in 1 .. Size \/ x = s
      BY <1>5 DEF Sound, Table
    <2>2. itab' = itab /\ \A x : Users(x)' = Users(x)
      BY <1>2 DEF tables, Users
    <2> QED BY <1>6, <1>11, <1>12, <2>1, <2>2 DEF Table
  <1>15. Descriptors' /\ Reserved(t)'
    BY <1>2, <1>10, DescriptorsKept, ReservedKept DEF Sound, tables
  <1>16. Ext2Types' /\ Lone(t)'
    BY <1>2, <1>6, <1>9, StaysLone DEF Ext2Types, tables
  <1>17. Entering(t)'
    <2>1. New(t)' /\ Placed(t)'
      BY <1>2, <1>3, <1>10, <1>12 DEF New, Fresh, Placed, Behind
    <2>2. InSlot(t, s)' /\ OnCard(t)'
      BY <1>2, <1>3, <1>4, <1>6, <1>10 DEF InSlot, OnCard, tables
    <2>3. 0 * SectEntries = 0 /\ 0 <= Size
      BY SizeType, Constants
    <2> QED BY <1>3, <1>10, <1>12, <2>1, <2>2, <2>3 DEF Entering
  <1> QED BY <1>2, <1>10, <1>13, <1>14, <1>15, <1>16, <1>17, Vacuous, Concludes DEF Where, Syncing

\* ... the directory's own, which then lists the new file, ...
LEMMA SyncOpenKeeps ==
    ASSUME Ext2Types, NEW t \in Task, Lone(t), Sound(t), ~wild, breach' = {}, SyncWrite(t),
           call[t].then = "open"
    PROVE  Ext2State'
  <1> DEFINE c == call[t]
  <1>0. PICK n : n = Size
    OBVIOUS
  <1>1. PICK s : s = c.left
    OBVIOUS
  <1> DEFINE e == [c EXCEPT !.pin = c.left]
  <1>2. /\ c.at = "syncwrite" /\ UNCHANGED <<imap, smap, dir, tables>> /\ wild' = wild
        /\ dinode' = buf.val /\ Goto(t, "claim", e)
    BY DEF SyncWrite, Uses, At, ghosts
  <1>3. /\ c.name \in Name /\ New(t) /\ Placed(t) /\ InSlot(t, s) /\ c.create /\ c.pin = 0
        /\ s \in Slot /\ OnCard(t) /\ Size \in Index /\ dir[Size] = Entry(t)
        /\ buf.val = [dinode EXCEPT ![itab[0].num] = Inode(itab[0].size, itab[0].start)]
    BY <1>1, <1>2 DEF Sound, Where, Syncs, Syncing, BufIs, New, Fresh
  <1>4. /\ c \in Calls /\ s \in Slot \ {0} /\ itab[s].num = c.ino /\ itab[s].cnt = 1
        /\ c.ino = Size + 1 /\ dinode[c.ino] = Inode(0, c.start)
    BY <1>3, CallType DEF InSlot, New, OnCard
  <1>5. /\ \A x \in Slot : (Keeps(t, x) <=> x = s) /\ (Ahead(t, x) <=> x = 0)
        /\ Grown(t) /\ Pending(t)
    BY <1>1, <1>2, <1>3 DEF Keeps, Ahead, Grown, Pending, Syncing
  <1>6. /\ itab[0] = [num |-> Root, cnt |-> 1, size |-> Size + 1, start |-> 1]
        /\ itab[0].num = Root /\ itab[0].cnt = 1 /\ itab[0].size = Size + 1 /\ itab[0].start = 1
    BY <1>5 DEF Sound, Table
  <1>7. /\ dinode' \in [Ino -> Inodes] /\ dinode'[Root] = Inode(Size + 1, 1)
        /\ \A m \in Ino \ {Root} : dinode'[m] = dinode[m]
        /\ \A x \in Slot : itab[x].cnt # 0 => dinode'[itab[x].num] = Inode(itab[x].size, itab[x].start)
    <2>1. itab' = itab /\ itab[0].cnt # 0 /\ \A x \in Slot \ {0} : ~Ahead(t, x)
      BY <1>2, <1>5, <1>6 DEF tables
    <2>2. 0 \in Slot /\ dinode' = [dinode EXCEPT ![itab[0].num] = Inode(itab[0].size, itab[0].start)]
      BY <1>2, <1>3, Constants
    <2>3. /\ itab[0].num \in Ino /\ dinode' \in [Ino -> Inodes]
          /\ dinode'[itab[0].num] = Inode(itab[0].size, itab[0].start)
          /\ \A m \in Ino \ {itab[0].num} : dinode'[m] = dinode[m]
          /\ \A x \in Slot : itab[x].cnt # 0 => dinode'[itab[x].num] = Inode(itab[x].size, itab[x].start)
      BY <2>1, <2>2, InodeWritten
    <2> QED BY <1>6, <2>3
  <1>8. /\ e \in Calls /\ e.name = c.name /\ e.fd = c.fd /\ e.d = c.d /\ e.create = c.create
        /\ e.pin = s /\ e.then = c.then
    BY <1>1, <1>4 DEF Calls
  <1> HIDE DEF e
  <1>9. call' \in [Task -> Calls] /\ (\A u \in Task \ {t} : call'[u] = call[u]) /\ call'[t] = [e EXCEPT !.at = "claim"]
    <2>1. "claim" \in Point
      BY DEF Point
    <2> QED BY <1>2, <1>8, <2>1, Goes
  <1>10. /\ call'[t].at = "claim" /\ call'[t].name = c.name /\ call'[t].create = c.create
         /\ call'[t].fd = c.fd /\ call'[t].d = c.d /\ call'[t].pin = s /\ call'[t].then = "open"
    BY <1>8, <1>9 DEF Calls
  <1>11. /\ \A x \in Slot : (Keeps(t, x)' <=> x = s) /\ ~Ahead(t, x)'
         /\ ~Grown(t)' /\ ~Pending(t)'
    BY <1>10 DEF Keeps, Ahead, Grown, Pending, Syncing
  <1>12. /\ Size \in Nat /\ Size # 0 /\ 0 .. Size \subseteq Ino /\ Size + 1 \in Ino
         /\ \A g \in Old : First(g) \in Nat
    BY <1>5, Numbers
  <1>13. /\ Size' = n + 1 /\ dinode'[Root].start = 1 /\ Old' = Old \cup {n}
         /\ First(n)' = c.start /\ \A g \in Old : First(g)' = First(g)
    <2>1. dinode'[Root].size = n + 1 /\ dinode'[Root].start = 1
      BY <1>0, <1>7 DEF Inode
    <2>2. Size' = n + 1
      BY <2>1 DEF Size
    <2>3. Old' = Old \cup {n}
      BY <1>0, <1>12, <2>2 DEF Old
    <2>4. First(n)' = c.start
      <3>1. First(n)' = dinode'[n + 1].start /\ n + 1 \in Ino \ {Root}
        BY <1>0, <1>12 DEF First, Root
      <3>2. dinode'[n + 1].start = c.start
        BY <1>0, <1>4, <1>7, <3>1 DEF Inode
      <3> QED BY <3>1, <3>2
    <2>5. ASSUME NEW g \in Old PROVE First(g)' = First(g)
      <3>1. First(g)' = dinode'[g + 1].start /\ First(g) = dinode[g + 1].start
        BY DEF First
      <3>2. CASE g = 0
        <4>1. dinode[1].start = 1 /\ dinode'[1].start = 1
          BY <2>1 DEF Sound, Card, Root
        <4> QED BY <3>1, <3>2, <4>1
      <3>3. CASE g # 0
        <4>1. g + 1 \in Ino \ {Root}
          BY <1>12, <3>3 DEF Old, Root
        <4> QED BY <1>7, <3>1, <4>1
      <3> QED BY <3>2, <3>3
    <2> QED BY <2>1, <2>2, <2>3, <2>4, <2>5
  <1>14. /\ 0 .. FileSects \subseteq smap
         /\ \A g \in Old : First(g) # 0 /\ 0 .. First(g) + FileSects - 1 \subseteq smap
         /\ \A g, h \in Old : g < h => First(g) + FileSects <= First(h)
         /\ c.start # 0 /\ 0 .. c.start + FileSects - 1 \subseteq smap
         /\ \A g \in Old : First(g) + FileSects <= c.start
    BY <1>3 DEF Sound, Card, Bits, Placed, Behind
  <1>15. Bits'
    <2>1. smap' = smap
      BY <1>2
    <2>2. \A g \in Old' : First(g)' # 0 /\ 0 .. First(g)' + FileSects - 1 \subseteq smap
      BY <1>13, <1>14
    <2>3. ASSUME NEW g \in Old', NEW h \in Old', g < h
          PROVE  First(g)' + FileSects <= First(h)'
      <3>1. g \in Old
        BY <1>0, <1>12, <1>13, <2>3 DEF Old
      <3>2. CASE h = n
        BY <1>13, <1>14, <3>1, <3>2
      <3>3. CASE h # n
        <4>1. h \in Old
          BY <1>13, <3>3
        <4> QED BY <1>13, <1>14, <2>3, <3>1, <4>1
      <3> QED BY <3>2, <3>3
    <2> QED BY <1>14, <2>1, <2>2, <2>3 DEF Bits
  <1>16. Entries'
    <2>1. dir[n] # Blank /\ dir[n].last = NameLen[dir[n].name] /\ dir[n].name = c.name
      BY <1>0, <1>3, Constants DEF Entry, Blank
    <2>2. \A g \in Old' : dir[g] # Blank /\ dir[g].last = NameLen[dir[g].name]
      BY <1>13, <2>1 DEF Sound, Card, Entries
    <2>3. ASSUME NEW g \in Old', NEW h \in Old', dir[g].name = dir[h].name
          PROVE  g = h
      <3>1. \A x \in Old : dir[x].name # c.name
        BY <1>3 DEF New, Fresh
      <3>2. (g \in Old \/ g = n) /\ (h \in Old \/ h = n)
        BY <1>13
      <3> QED BY <2>1, <2>3, <3>1, <3>2 DEF Sound, Card, Entries
    <2>4. dir' = dir
      BY <1>2
    <2> QED BY <2>2, <2>3, <2>4 DEF Sound, Card, Entries
  <1>17. Card(t)'
    <2>1. imap' = 0 .. n + 1
      BY <1>0, <1>2, <1>5 DEF Sound, Card
    <2>2. n + 1 # 0
      BY <1>0, <1>12
    <2> QED BY <1>11, <1>13, <1>15, <1>16, <2>1, <2>2 DEF Card
  <1>18. Table(t)'
    <2>1. /\ \A x \in Slot \ {0} : itab[x].cnt = Cardinality(Users(x)) + (IF x = s THEN 1 ELSE 0)
          /\ \A r, x \in Slot : itab[r].cnt # 0 /\ itab[x].cnt # 0 /\ itab[r].num = itab[x].num => r = x
          /\ \A x \in Slot : itab[x].cnt # 0 => itab[x].num \in 1 .. Size \/ x = s
      BY <1>5 DEF Sound, Table
    <2>2. itab' = itab /\ \A x : Users(x)' = Users(x)
      BY <1>2 DEF tables, Users
    <2>3. \A x \in Slot : itab[x].cnt # 0 => itab[x].num \in 1 .. n + 1
      <3>1. \A x : x \in 1 .. Size => x \in 1 .. n + 1
        BY <1>0, <1>12
      <3>2. itab[s].num \in 1 .. n + 1
        BY <1>0, <1>4, <1>12
      <3> QED BY <2>1, <3>1, <3>2
    <2>4. itab[0] = [num |-> Root, cnt |-> 1, size |-> n + 1, start |-> 1]
      BY <1>0, <1>6
    <2> QED BY <1>7, <1>11, <1>13, <2>1, <2>2, <2>3, <2>4 DEF Table
  <1>19. Descriptors' /\ Reserved(t)'
    BY <1>2, <1>10, DescriptorsKept, ReservedKept DEF Sound, tables
  <1>20. Ext2Types' /\ Lone(t)'
    BY <1>2, <1>7, <1>9, StaysLone DEF Ext2Types, tables
  <1>21. Claiming(t)'
    <2>1. itab' = itab /\ dir' = dir
      BY <1>2 DEF tables
    <2>2. itab[s].num = n + 1 /\ n + 1 \in 2 .. n + 1 /\ (n + 1) - 1 = n
      BY <1>0, <1>4, <1>12
    <2>3. dir[n].name = c.name
      BY <1>0, <1>3 DEF Entry
    <2>4. s # 0 /\ itab[s].cnt # 0
      BY <1>4
    <2> QED BY <1>3, <1>10, <1>13, <2>1, <2>2, <2>3, <2>4 DEF Claiming
  <1> QED BY <1>2, <1>10, <1>17, <1>18, <1>19, <1>20, <1>21, Vacuous, Concludes DEF Where, Syncing

\* ... or that of an open file, whose size has changed.
LEMMA SyncIdleKeeps ==
    ASSUME Ext2Types, NEW t \in Task, Lone(t), Sound(t), ~wild, breach' = {}, SyncWrite(t),
           call[t].then = "idle"
    PROVE  Ext2State'
  <1> DEFINE c == call[t]
  <1>1. PICK s : s = c.pin
    OBVIOUS
  <1>2. /\ c.at = "syncwrite" /\ UNCHANGED <<imap, smap, dir, tables>> /\ wild' = wild
        /\ dinode' = buf.val /\ call' = [call EXCEPT ![t] = Idle]
    BY DEF SyncWrite, Uses, At, ghosts
  <1>3. /\ c.name = None /\ ~c.create /\ s # 0 /\ itab[s].cnt # 0
        /\ dinode[itab[s].num].start = itab[s].start
        /\ buf.val = [dinode EXCEPT ![itab[s].num] = Inode(itab[s].size, itab[s].start)]
    BY <1>1, <1>2 DEF Sound, Where, Syncs, Syncing, BufIs
  <1>4. s \in Slot
    BY <1>1, CallType DEF Calls
  <1>5. /\ \A x \in Slot : ~Keeps(t, x) /\ (Ahead(t, x) <=> x = s)
        /\ ~Grown(t) /\ ~Pending(t)
    BY <1>1, <1>2, <1>3 DEF Keeps, Ahead, Grown, Pending, Syncing
  <1>6. /\ dinode' \in [Ino -> Inodes] /\ itab[s].num \in Ino
        /\ dinode'[itab[s].num] = Inode(itab[s].size, itab[s].start)
        /\ \A n \in Ino \ {itab[s].num} : dinode'[n] = dinode[n]
        /\ \A x \in Slot : itab[x].cnt # 0 => dinode'[itab[x].num] = Inode(itab[x].size, itab[x].start)
    <2>1. itab' = itab /\ itab[s].cnt # 0 /\ \A x \in Slot \ {s} : ~Ahead(t, x)
      BY <1>2, <1>3, <1>5 DEF tables
    <2>2. dinode' = [dinode EXCEPT ![itab[s].num] = Inode(itab[s].size, itab[s].start)]
      BY <1>2, <1>3
    <2> QED BY <1>4, <2>1, <2>2, InodeWritten
  <1>7. itab[s].num # Root
    <2>1. itab[0].num = Root /\ itab[0].cnt # 0 /\ 0 \in Slot
      BY Constants DEF Sound, Table
    <2> QED BY <1>3, <1>4, <2>1 DEF Sound, Table
  <1>8. /\ call' \in [Task -> Calls] /\ call'[t] = Idle /\ \A u \in Task \ {t} : call'[u] = call[u]
    BY <1>2, Returns
  <1>9. call'[t].at = "idle" /\ call'[t].name = None /\ ~call'[t].create
    BY <1>8 DEF Idle
  <1>10. /\ \A x \in Slot : ~Keeps(t, x)' /\ ~Ahead(t, x)'
         /\ ~Grown(t)' /\ ~Pending(t)'
    BY <1>9 DEF Keeps, Ahead, Grown, Pending, Syncing
  <1>11. Size' = Size /\ Old' = Old /\ dinode'[Root] = dinode[Root] /\ \A g \in Old : First(g)' = First(g)
    <2>1. dinode'[Root] = dinode[Root]
      BY <1>6, <1>7, Constants
    <2>2. \A n \in Ino : dinode'[n].start = dinode[n].start
      BY <1>3, <1>6 DEF Inode
    <2>3. \A g \in Old : g + 1 \in Ino
      BY Numbers DEF Old
    <2> QED BY <2>1, <2>2, <2>3 DEF Size, Old, First
  <1>12. Card(t)'
    <2>1. Bits'
      BY <1>2, <1>11 DEF Sound, Card, Bits
    <2>2. Entries'
      BY <1>2, <1>11 DEF Sound, Card, Entries
    <2> QED BY <1>2, <1>5, <1>10, <1>11, <2>1, <2>2 DEF Sound, Card
  <1>13. Table(t)'
    <2>1. /\ itab[0] = [num |-> Root, cnt |-> 1, size |-> Size, start |-> 1]
          /\ \A x \in Slot \ {0} : itab[x].cnt = Cardinality(Users(x)) + 0
          /\ \A r, x \in Slot : itab[r].cnt # 0 /\ itab[x].cnt # 0 /\ itab[r].num = itab[x].num => r = x
          /\ \A x \in Slot : itab[x].cnt # 0 => itab[x].num \in 1 .. Size
      BY <1>5 DEF Sound, Table
    <2>2. itab' = itab /\ \A x : Users(x)' = Users(x)
      BY <1>2 DEF tables, Users
    <2> QED BY <1>6, <1>10, <1>11, <2>1, <2>2 DEF Table
  <1>14. Descriptors' /\ Reserved(t)'
    BY <1>2, <1>9, DescriptorsKept DEF Sound, Reserved, tables
  <1>15. Ext2Types' /\ Lone(t)'
    BY <1>2, <1>6, <1>8, StaysLone DEF Ext2Types, tables
  <1>16. Where(t)'
    BY <1>8, <1>9, Vacuous DEF Where, Idling, Syncing
  <1> QED BY <1>2, <1>12, <1>13, <1>14, <1>15, <1>16, Concludes

LEMMA SyncWriteKeeps ==
    ASSUME Ext2Types, NEW t \in Task, Lone(t), Sound(t), ~wild, breach' = {}, SyncWrite(t)
    PROVE  Ext2State'
  <1>1. call[t].then \in {"idle", "dir", "open"}
    BY CallType DEF Calls
  <1> QED BY <1>1, SyncDirKeeps, SyncOpenKeeps, SyncIdleKeeps

-----------------------------------------------------------------------------
(* The directory                                                           *)

\* What a call knows while it looks for the place of its entry
LEMMA TableAtDir ==
    ASSUME Ext2Types, NEW t \in Task, Sound(t), call[t].at \in {"dirset", "dirwrite"}
    PROVE  LET c == call[t] IN
           /\ c \in Calls /\ c.name \in Name /\ c.create /\ New(t) /\ Placed(t) /\ InSlot(t, c.pin)
           /\ OnCard(t) /\ c.then = "dir" /\ c.n = Size /\ c.i * SectEntries <= Size
           /\ c.pin \in Slot \ {0} /\ Pending(t) /\ \A x \in Slot : Keeps(t, x) <=> x = c.pin
           /\ Size \in Index /\ Size \in Nat /\ Size # 0 /\ Old \subseteq Index
  <1> DEFINE c == call[t]
  <1>1. /\ c \in Calls /\ c.name \in Name /\ c.create /\ New(t) /\ Placed(t) /\ InSlot(t, c.pin)
        /\ OnCard(t) /\ c.then = "dir" /\ c.n = Size /\ c.i * SectEntries <= Size
    BY CallType DEF Sound, Where, Entering, New, Fresh
  <1>2. c.pin \in Slot \ {0}
    BY <1>1 DEF Calls, InSlot
  <1>3. Pending(t) /\ \A x \in Slot : Keeps(t, x) <=> x = c.pin
    BY <1>1 DEF Pending, Keeps, Syncing
  <1>4. Size \in Nat /\ Size # 0 /\ Size + 1 \in Ino /\ Old \subseteq Index
    BY <1>3, Numbers
  <1>5. Size \in 0 .. ImapBits
    BY <1>4, Constants DEF Ino
  <1> QED BY <1>1, <1>2, <1>3, <1>4, <1>5, Indices

\* All entries before the end of the directory are in use, and the one behind
\* it is blank.
LEMMA PlaceIsNext ==
    ASSUME Ext2Types, NEW t \in Task, Sound(t), call[t].at = "dirset"
    PROVE  LET c == call[t]
               here == {g \in EntriesOf(c.i) : g = c.n \/ (g < c.n /\ buf.val[g].ino = 0)} IN
           /\ here = IF Size \in EntriesOf(c.i) THEN {Size} ELSE {}
           /\ buf.val = Sector(c.i)
           /\ Size \in EntriesOf(c.i) => dir[Size] = Blank /\ Onto(buf.val[Size], c.ino, c.name) = Entry(t)
           /\ Size \notin EntriesOf(c.i) => (c.i + 1) * SectEntries <= Size
  <1> DEFINE c == call[t]
             here == {g \in EntriesOf(c.i) : g = c.n \/ (g < c.n /\ buf.val[g].ino = 0)}
  <1>1. /\ c \in Calls /\ c.name \in Name /\ c.n = Size /\ c.i * SectEntries <= Size
        /\ Size \in Index /\ Size \in Nat
    BY TableAtDir
  <1>2. buf.val = Sector(c.i) /\ \A g \in EntriesOf(c.i) : g >= Size => dir[g] = Blank
    BY DEF Sound, Where, Entering, NotStale, BufIs
  <1>3. \A g \in EntriesOf(c.i) : buf.val[g] = dir[g] /\ g \in Index
    BY <1>2 DEF Sector, EntriesOf
  <1>4. ASSUME NEW g \in EntriesOf(c.i), g < Size PROVE buf.val[g].ino # 0
    <2>a. g \in Nat
      BY <1>3, Indices
    <2>1. g \in Old
      BY <1>1, <1>4, <2>a DEF Old
    <2>2. dir[g].ino = g + 1 /\ g \in Nat
      BY <1>3, <2>1, SizeType DEF Sound, Card, Entries
    <2> QED BY <1>3, <2>2
  <1>5. here = IF Size \in EntriesOf(c.i) THEN {Size} ELSE {}
    BY <1>1, <1>4
  <1>6. ASSUME Size \in EntriesOf(c.i)
        PROVE  dir[Size] = Blank /\ Onto(buf.val[Size], c.ino, c.name) = Entry(t)
    <2>1. Size >= Size
      BY <1>1
    <2>2. dir[Size] = Blank /\ buf.val[Size] = Blank
      BY <1>2, <1>3, <1>6, <2>1
    <2>3. NameLen[c.name] \in Nat /\ Blank.last = 0
      BY <1>1, Constants DEF Blank
    <2>4. ~(Blank.last > NameLen[c.name] + 1)
      BY <2>3
    <2> QED BY <2>2, <2>4 DEF Onto, Entry
  <1>7. ASSUME Size \notin EntriesOf(c.i)
        PROVE  (c.i + 1) * SectEntries <= Size
    <2>1. c.i \in Nat /\ c.i + 1 \in Nat
      BY <1>1 DEF Calls
    <2>2. (c.i + 1) * SectEntries \in Nat
      BY <2>1, Times, Constants
    <2>3. ~(Size < (c.i + 1) * SectEntries)
      BY <1>1, <1>7, <2>1, EntriesHere
    <2> DEFINE m == (c.i + 1) * SectEntries
    <2> HIDE DEF m
    <2>4. m <= Size
      BY <1>1, <2>2, <2>3 DEF m
    <2> QED BY <2>4 DEF m
  <1> QED BY <1>2, <1>5, <1>6, <1>7

LEMMA DirOnKeeps ==
    ASSUME Ext2Types, NEW t \in Task, Lone(t), Sound(t), ~wild, breach' = {}, DirSet(t),
           Size \notin EntriesOf(call[t].i)
    PROVE  Ext2State'
  <1> DEFINE c == call[t]
             e == [c EXCEPT !.i = @ + 1]
  <1>0. c.at = "dirset"
    BY DEF DirSet, Uses, At
  <1>1. /\ UNCHANGED <<card, tables>> /\ wild' = wild /\ Goto(t, "dir", e)
    BY <1>0, PlaceIsNext DEF DirSet, tables, ghosts
  <1>2. /\ c \in Calls /\ c.name \in Name /\ c.create /\ New(t) /\ Placed(t) /\ InSlot(t, c.pin)
        /\ OnCard(t) /\ c.then = "dir" /\ c.n = Size
        /\ \A x \in Slot : Keeps(t, x) <=> x = c.pin
        /\ (c.i + 1) * SectEntries <= Size
    BY <1>0, TableAtDir, PlaceIsNext
  <1>3. /\ e \in Calls /\ e.name = c.name /\ e.fd = c.fd /\ e.d = c.d /\ e.create = c.create
        /\ e.pin = c.pin /\ e.then = c.then /\ e.ino = c.ino /\ e.start = c.start /\ e.n = c.n
        /\ e.i = c.i + 1
    <2>1. c \in Calls
      BY <1>2
    <2> QED BY <2>1 DEF Calls
  <1> HIDE DEF e
  <1>4. call' \in [Task -> Calls] /\ (\A u \in Task \ {t} : call'[u] = call[u]) /\ call'[t] = [e EXCEPT !.at = "dir"]
    <2>1. "dir" \in Point
      BY DEF Point
    <2> QED BY <1>1, <1>3, <2>1, Goes
  <1>5. /\ call'[t].at = "dir" /\ call'[t].name = c.name /\ call'[t].create = c.create
        /\ call'[t].fd = c.fd /\ call'[t].d = c.d /\ call'[t].pin = c.pin /\ call'[t].i = c.i + 1
        /\ call'[t].ino = c.ino /\ call'[t].then = "dir" /\ call'[t].start = c.start
        /\ call'[t].n = Size
    BY <1>2, <1>3, <1>4 DEF Calls
  <1>6. Pending(t)' = Pending(t)
    BY <1>0, <1>5 DEF Pending, Syncing
  <1>7. Grown(t)' = Grown(t)
    BY <1>0, <1>5 DEF Grown, Syncing
  <1>8. \A s \in Slot : Keeps(t, s)' = Keeps(t, s)
    BY <1>0, <1>5 DEF Keeps, Syncing
  <1>9. \A s \in Slot : Ahead(t, s)' = Ahead(t, s)
    BY <1>0, <1>5 DEF Ahead, Syncing
  <1>10. Card(t)' /\ Descriptors' /\ Table(t)' /\ Reserved(t)'
    BY <1>1, <1>5, <1>6, <1>7, <1>8, <1>9, AllKept DEF Sound
  <1>11. Ext2Types' /\ Lone(t)'
    BY <1>1, <1>4, TypesKept, StaysLone
  <1>12. Entering(t)'
    <2>1. New(t)' /\ Placed(t)' /\ OnCard(t)'
      BY <1>1, <1>2, <1>5, KnownKept
    <2>2. Size' = Size /\ itab' = itab
      BY <1>1 DEF Size, card, tables
    <2> QED BY <1>2, <1>5, <2>1, <2>2 DEF Entering, InSlot
  <1> QED BY <1>1, <1>5, <1>10, <1>11, <1>12, Vacuous, Concludes DEF Where, Syncing

LEMMA DirSetKeeps ==
    ASSUME Ext2Types, NEW t \in Task, Lone(t), Sound(t), ~wild, breach' = {}, DirSet(t)
    PROVE  Ext2State'
  <1> DEFINE c == call[t]
  <1>0. c.at = "dirset"
    BY DEF DirSet, Uses, At
  <1>1. CASE Size \notin EntriesOf(c.i)
    BY <1>1, DirOnKeeps
  <1>2. CASE Size \in EntriesOf(c.i)
    <2>1. /\ UNCHANGED <<card, fdt, filp>> /\ wild' = wild /\ Goto(t, "dirwrite", c)
          /\ buf' = [kind |-> "dir", i |-> c.i, val |-> [Sector(c.i) EXCEPT ![Size] = Entry(t)]]
          /\ itab' = [itab EXCEPT ![0].size = @ + 1]
          /\ dir[Size] = Blank
      <3>1. /\ {g \in EntriesOf(c.i) : g = c.n \/ (g < c.n /\ buf.val[g].ino = 0)} = {Size}
            /\ buf.val = Sector(c.i) /\ dir[Size] = Blank
            /\ Onto(buf.val[Size], c.ino, c.name) = Entry(t)
        BY <1>0, <1>2, PlaceIsNext
      <3>2. Least({Size}) = Size /\ c.n = Size
        <4>1. Size \in Nat /\ c.n = Size
          BY <1>0, TableAtDir
        <4>2. Least({Size}) \in {Size}
          BY <4>1, LeastIn
        <4> QED BY <4>1, <4>2
      <3>3. /\ UNCHANGED <<card, fdt, filp>> /\ wild' = wild /\ Goto(t, "dirwrite", c)
            /\ Load("dir", c.i, [buf.val EXCEPT ![Size] = Onto(buf.val[Size], c.ino, c.name)])
            /\ itab' = [itab EXCEPT ![0].size = @ + 1]
        <4> DEFINE here == {g \in EntriesOf(c.i) : g = c.n \/ (g < c.n /\ buf.val[g].ino = 0)}
        <4>1. /\ IF here = {}
                 THEN Goto(t, "dir", [c EXCEPT !.i = @ + 1]) /\ UNCHANGED <<buf, itab>>
                 ELSE /\ Load("dir", c.i, [buf.val EXCEPT ![Least(here)] = Onto(@, c.ino, c.name)])
                      /\ itab' = IF Least(here) = c.n THEN [itab EXCEPT ![0].size = @ + 1] ELSE itab
                      /\ Goto(t, "dirwrite", c)
              /\ UNCHANGED <<card, fdt, filp>> /\ wild' = wild
          BY DEF DirSet, ghosts
        <4>2. here = {Size}
          BY <3>1
        <4> HIDE DEF here
        <4> QED BY <3>2, <4>1, <4>2
      <3> QED BY <3>1, <3>3 DEF Load
    <2>2. /\ c \in Calls /\ c.name \in Name /\ c.create /\ New(t) /\ Placed(t) /\ InSlot(t, c.pin)
          /\ OnCard(t) /\ c.then = "dir" /\ c.n = Size /\ c.i * SectEntries <= Size
          /\ c.pin \in Slot \ {0} /\ Pending(t) /\ \A x \in Slot : Keeps(t, x) <=> x = c.pin
          /\ Size \in Index /\ Size \in Nat
      BY <1>0, TableAtDir
    <2>3. call' \in [Task -> Calls] /\ (\A u \in Task \ {t} : call'[u] = call[u]) /\ call'[t] = [c EXCEPT !.at = "dirwrite"]
      <3>1. "dirwrite" \in Point
        BY DEF Point
      <3> QED BY <2>1, <2>2, <3>1, Goes
    <2>4. /\ call'[t].at = "dirwrite" /\ call'[t].name = c.name /\ call'[t].create = c.create
          /\ call'[t].fd = c.fd /\ call'[t].d = c.d /\ call'[t].pin = c.pin /\ call'[t].i = c.i
          /\ call'[t].ino = c.ino /\ call'[t].then = "dir" /\ call'[t].start = c.start
          /\ call'[t].n = Size
      <3>1. c \in Calls /\ c.n = Size /\ c.then = "dir"
        BY <2>2
      <3> QED BY <2>3, <3>1 DEF Calls
    <2>5. /\ itab' \in [Slot -> Slots] /\ \A x \in Slot \ {0} : itab'[x] = itab[x]
          /\ itab'[0] = [num |-> Root, cnt |-> 1, size |-> Size + 1, start |-> 1]
          /\ itab[0] = [num |-> Root, cnt |-> 1, size |-> Size, start |-> 1]
      <3>1. itab[0] = [num |-> Root, cnt |-> 1, size |-> Size, start |-> 1]
        BY <1>0 DEF Sound, Table, Grown, Syncing
      <3>2. itab \in [Slot -> Slots] /\ 0 \in Slot
        BY Constants DEF Ext2Types
      <3>3. itab'[0] = [num |-> Root, cnt |-> 1, size |-> Size + 1, start |-> 1]
        BY <2>1, <3>1, <3>2
      <3>4. [num |-> Root, cnt |-> 1, size |-> Size + 1, start |-> 1] \in Slots
        BY <2>2 DEF Slots, Root
      <3>5. itab' = [itab EXCEPT ![0] = [num |-> Root, cnt |-> 1, size |-> Size + 1, start |-> 1]]
        <4>1. itab' = [itab EXCEPT ![0] = [itab[0] EXCEPT !.size = itab[0].size + 1]]
          BY <2>1
        <4>2. [itab[0] EXCEPT !.size = itab[0].size + 1] = [num |-> Root, cnt |-> 1, size |-> Size + 1, start |-> 1]
          BY <3>1
        <4> QED BY <4>1, <4>2
      <3> QED BY <3>1, <3>2, <3>3, <3>4, <3>5
    <2>6. /\ \A x \in Slot : (Keeps(t, x)' <=> x = c.pin) /\ (Ahead(t, x)' <=> x = 0) /\ ~Ahead(t, x)
          /\ Grown(t)' /\ ~Grown(t) /\ Pending(t)'
      <3>1. \A x \in Slot : Keeps(t, x)' <=> x = call'[t].pin
        BY <2>4 DEF Keeps, Syncing
      <3>2. \A x \in Slot : (Ahead(t, x)' <=> x = 0) /\ ~Ahead(t, x)
        BY <1>0, <2>4 DEF Ahead, Syncing
      <3>3. Grown(t)' /\ ~Grown(t) /\ Pending(t)'
        BY <1>0, <2>2, <2>4 DEF Grown, Pending, Syncing
      <3> QED BY <2>4, <3>1, <3>2, <3>3
    <2>7. Card(t)' /\ Size' = Size
      BY <2>1, <2>2, <2>6, CardKept DEF Sound
    <2>8. Table(t)'
      <3>1. /\ \A x \in Slot \ {0} : itab[x].cnt = Cardinality(Users(x)) + (IF x = c.pin THEN 1 ELSE 0)
            /\ \A r, x \in Slot : itab[r].cnt # 0 /\ itab[x].cnt # 0 /\ itab[r].num = itab[x].num => r = x
            /\ \A x \in Slot : itab[x].cnt # 0 => itab[x].num \in 1 .. Size \/ x = c.pin
            /\ \A x \in Slot : itab[x].cnt # 0 => dinode[itab[x].num] = Inode(itab[x].size, itab[x].start)
        BY <2>2, <2>6 DEF Sound, Table
      <3>2. (\A x : Users(x)' = Users(x)) /\ dinode' = dinode
        BY <2>1 DEF card, Users
      <3>3. \A x \in Slot : itab'[x].cnt = itab[x].cnt /\ itab'[x].num = itab[x].num
        BY <2>5
      <3> QED BY <2>5, <2>6, <2>7, <3>1, <3>2, <3>3 DEF Table
    <2>9. Descriptors' /\ Reserved(t)'
      BY <2>1, <2>4, DescriptorsKept, ReservedKept DEF Sound
    <2>10. Ext2Types' /\ Lone(t)'
      BY <2>1, <2>3, <2>5, StaysLone DEF Ext2Types, card
    <2>11. Entering(t)'
      <3>1. New(t)' /\ Placed(t)' /\ OnCard(t)'
        BY <2>1, <2>2, <2>4, KnownKept
      <3>2. itab'[c.pin] = itab[c.pin]
        BY <2>2, <2>5
      <3>3. dir' = dir /\ (\A i : Sector(i)' = Sector(i)) /\ Entry(t)' = Entry(t)
        BY <2>1, <2>4 DEF card, Sector, Entry
      <3>4. BufIs("dir", call[t].i, [Sector(call[t].i) EXCEPT ![Size] = Entry(t)])'
        BY <2>1, <2>4, <2>7, <3>3 DEF BufIs, Sector
      <3>5. InSlot(t, call[t].pin)'
        BY <2>2, <2>4, <3>2 DEF InSlot
      <3> QED BY <1>2, <2>1, <2>2, <2>4, <2>7, <3>1, <3>3, <3>4, <3>5 DEF Entering
    <2> QED BY <2>1, <2>4, <2>7, <2>8, <2>9, <2>10, <2>11, Vacuous, Concludes DEF Where, Syncing
  <1> QED BY <1>1, <1>2

LEMMA DirWriteKeeps ==
    ASSUME Ext2Types, NEW t \in Task, Lone(t), Sound(t), ~wild, breach' = {}, DirWrite(t)
    PROVE  Ext2State'
  <1> DEFINE c == call[t]
  <1>0. PICK s, n : s = c.pin /\ n = Size
    OBVIOUS
  <1> DEFINE e == [c EXCEPT !.then = "open", !.left = c.pin, !.pin = 0]
  <1>1. /\ c.at = "dirwrite" /\ UNCHANGED <<imap, smap, dinode, tables>> /\ wild' = wild
        /\ dir' = [g \in Index |-> IF g \in EntriesOf(c.i) THEN buf.val[g] ELSE dir[g]]
        /\ Goto(t, "sync", e)
    BY DEF DirWrite, Uses, At, ghosts
  <1>a. /\ c \in Calls /\ c.name \in Name /\ c.create /\ New(t) /\ Placed(t) /\ InSlot(t, s)
        /\ OnCard(t) /\ s \in Slot \ {0} /\ Pending(t) /\ \A x \in Slot : Keeps(t, x) <=> x = s
        /\ n \in Index /\ n \in Nat /\ n # 0
    BY <1>0, <1>1, TableAtDir
  <1>2. /\ n \in EntriesOf(c.i) /\ dir[n] = Blank
        /\ buf.val = [Sector(c.i) EXCEPT ![n] = Entry(t)]
    BY <1>0, <1>1 DEF Sound, Where, Entering, BufIs
  <1>3. dir' = [dir EXCEPT ![n] = Entry(t)]
    <2>1. \A g \in EntriesOf(c.i) : buf.val[g] = IF g = n THEN Entry(t) ELSE dir[g]
      BY <1>2 DEF Sector
    <2>2. dir \in [Index -> DirEntry]
      BY DEF Ext2Types
    <2> QED BY <1>1, <1>2, <1>a, <2>1, <2>2
  <1>4. /\ Entry(t) \in DirEntry /\ Entry(t).ino = n + 1 /\ Entry(t).name = c.name
        /\ Entry(t).last = NameLen[c.name] /\ Entry(t).last # 0 /\ Entry(t) # Blank
    <2>1. c.ino = n + 1 /\ NameLen[c.name] \in Nat \ {0}
      BY <1>0, <1>a, Constants DEF New
    <2> QED BY <1>a, <2>1 DEF Entry, DirEntry, Blank
  <1>5. /\ dir' \in [Index -> DirEntry] /\ dir'[n] = Entry(t)
        /\ \A g \in Index \ {n} : dir'[g] = dir[g]
    BY <1>3, <1>4, <1>a DEF Ext2Types
  <1>6. /\ e \in Calls /\ e.name = c.name /\ e.fd = c.fd /\ e.d = c.d /\ e.create = c.create
        /\ e.pin = 0 /\ e.then = "open" /\ e.ino = c.ino /\ e.start = c.start /\ e.left = s
    <2>1. c \in Calls /\ s = c.pin /\ s \in Slot /\ 0 \in Slot /\ Slot \subseteq Nat
      BY <1>0, <1>a, Constants
    <2> QED BY <2>1 DEF Calls
  <1> HIDE DEF e
  <1>7. call' \in [Task -> Calls] /\ (\A u \in Task \ {t} : call'[u] = call[u]) /\ call'[t] = [e EXCEPT !.at = "sync"]
    <2>1. "sync" \in Point
      BY DEF Point, Syncing
    <2> QED BY <1>1, <1>6, <2>1, Goes
  <1>8. /\ call'[t].at = "sync" /\ call'[t].name = c.name /\ call'[t].create = c.create
        /\ call'[t].fd = c.fd /\ call'[t].d = c.d /\ call'[t].pin = 0 /\ call'[t].left = s
        /\ call'[t].ino = c.ino /\ call'[t].then = "open" /\ call'[t].start = c.start
    BY <1>6, <1>7 DEF Calls
  <1>9. /\ \A x \in Slot : (Keeps(t, x)' <=> x = s) /\ (Ahead(t, x)' <=> x = 0) /\ (Ahead(t, x) <=> x = 0)
        /\ Grown(t)' /\ Grown(t) /\ Pending(t)'
    <2>1. \A x \in Slot : Keeps(t, x)' <=> x = s
      BY <1>8 DEF Keeps, Syncing
    <2>2. \A x \in Slot : (Ahead(t, x)' <=> x = 0) /\ (Ahead(t, x) <=> x = 0)
      BY <1>1, <1>8 DEF Ahead, Syncing
    <2>3. Grown(t)' /\ Grown(t) /\ Pending(t)'
      BY <1>1, <1>8, <1>a DEF Grown, Pending, Syncing
    <2> QED BY <2>1, <2>2, <2>3
  <1>10. Size' = Size /\ Old' = Old /\ (\A g : First(g)' = First(g)) /\ \A g \in Old : dir'[g] = dir[g]
    <2>1. Size' = Size /\ Old' = Old /\ (\A g : First(g)' = First(g))
      BY <1>1 DEF Size, Old, First
    <2>2. n \notin Old
      BY <1>0, <1>a DEF Old
    <2>3. Old \subseteq Index
      BY Numbers
    <2> QED BY <1>5, <2>1, <2>2, <2>3
  <1>11. Card(t)'
    <2>1. Bits'
      BY <1>1, <1>10 DEF Sound, Card, Bits
    <2>2. Entries'
      <3>1. 0 \in Index /\ dir'[0] = dir[0]
        BY <1>5, <1>a, Indices, Constants
      <3>2. \A g \in Index : dir'[g] = Blank \/ (dir'[g].ino = g + 1 /\ dir'[g].name # None /\ dir'[g].last # 0)
        <4>1. Entry(t).name # None
          BY <1>4, <1>a, Constants
        <4> QED BY <1>4, <1>5, <4>1 DEF Sound, Card, Entries
      <3>3. /\ \A g \in Old : dir'[g] # Blank /\ dir'[g].last = NameLen[dir'[g].name]
            /\ \A g, h \in Old : dir'[g].name = dir'[h].name => g = h
        BY <1>10 DEF Sound, Card, Entries
      <3> QED BY <1>10, <3>1, <3>2, <3>3 DEF Sound, Card, Entries
    <2> QED BY <1>1, <1>9, <1>10, <1>a, <2>1, <2>2 DEF Sound, Card
  <1>12. Table(t)'
    <2>1. UNCHANGED <<itab, fdt, dinode>> /\ (Grown(t)' <=> Grown(t)) /\ (Pending(t) => Pending(t)')
      BY <1>1, <1>9 DEF tables
    <2>2. /\ \A x \in Slot : Keeps(t, x)' <=> Keeps(t, x)
          /\ \A x \in Slot : Ahead(t, x)' <=> Ahead(t, x)
      BY <1>9, <1>a
    <2> QED BY <2>1, <2>2, TableKept DEF Sound
  <1>13. Descriptors' /\ Reserved(t)'
    BY <1>1, <1>8, DescriptorsKept, ReservedKept DEF Sound, tables
  <1>14. Ext2Types' /\ Lone(t)'
    BY <1>1, <1>5, <1>7, StaysLone DEF Ext2Types, tables
  <1>15. Syncs(t)'
    <2>1. Fresh(t)'
      BY <1>8, <1>10, <1>a DEF New, Fresh
    <2>2. New(t)' /\ Placed(t)' /\ OnCard(t)'
      BY <1>1, <1>8, <1>10, <1>a, <2>1 DEF New, Placed, Behind, OnCard
    <2>3. InSlot(t, s)'
      BY <1>1, <1>8, <1>a DEF InSlot, tables
    <2>4. n = Size' /\ dir'[n] = Entry(t)'
      <3>1. Entry(t)' = Entry(t)
        BY <1>8 DEF Entry
      <3> QED BY <1>0, <1>5, <1>10, <3>1
    <2> QED BY <1>8, <1>a, <2>2, <2>3, <2>4 DEF Syncs
  <1> QED BY <1>1, <1>8, <1>11, <1>12, <1>13, <1>14, <1>15, Vacuous, Concludes DEF Where, Syncing

-----------------------------------------------------------------------------
(* Descriptors                                                             *)

LEMMA ClaimKeeps ==
    ASSUME Ext2Types, NEW t \in Task, Lone(t), Sound(t), ~wild, breach' = {}, Claim(t)
    PROVE  Ext2State'
  <1> DEFINE c == call[t]
  <1>0. PICK s, d, fd : s = c.pin /\ d = c.d /\ fd = c.fd
    OBVIOUS
  <1>1. /\ c.at = "claim" /\ s \in Slot \ {0} /\ itab[s].num \in 2 .. Size /\ itab[s].cnt # 0
        /\ c.name # None
    BY <1>0, CallType, Constants DEF Claim, At, Sound, Where, Claiming, Calls
  <1>2. fd \in File /\ d \in Desc /\ fdt[d] = None /\ filp[t][fd] = None
    BY <1>0, <1>1 DEF Sound, Reserved
  <1>3. /\ filp' = [filp EXCEPT ![t][fd] = d] /\ fdt' = [fdt EXCEPT ![d] = s]
        /\ call' = [call EXCEPT ![t] = Idle] /\ wild' = wild /\ UNCHANGED <<card, itab>>
    <2>1. fd # None /\ d # None
      BY <1>2, Constants
    <2> QED BY <1>0, <2>1 DEF Claim
  <1>4. /\ call' \in [Task -> Calls] /\ call'[t] = Idle /\ \A u \in Task \ {t} : call'[u] = call[u]
    BY <1>3, Returns
  <1>5. call'[t].at = "idle" /\ call'[t].name = None
    BY <1>4 DEF Idle
  <1>6. /\ fdt' \in [Desc -> (Slot \ {0}) \cup {None}] /\ fdt'[d] = s
        /\ \A x \in Desc \ {d} : fdt'[x] = fdt[x]
    BY <1>1, <1>2, <1>3 DEF Ext2Types
  <1>7. /\ filp' \in [Task -> [File -> Desc \cup {None}]] /\ filp'[t][fd] = d
        /\ \A u \in Task, f \in File : u # t \/ f # fd => filp'[u][f] = filp[u][f]
    BY <1>2, <1>3 DEF Ext2Types
  <1>8. /\ \A x \in Slot : (Keeps(t, x) <=> x = s) /\ ~Ahead(t, x)
        /\ ~Grown(t) /\ ~Pending(t)
    BY <1>0, <1>1 DEF Keeps, Ahead, Grown, Pending, Syncing
  <1>9. /\ \A x \in Slot : ~Keeps(t, x)' /\ ~Ahead(t, x)'
        /\ ~Grown(t)' /\ ~Pending(t)'
    BY <1>5 DEF Keeps, Ahead, Grown, Pending, Syncing
  <1>10. Card(t)' /\ Size' = Size
    BY <1>3, <1>8, <1>9, CardKept DEF Sound
  <1>11. Descriptors'
    <2>1. d # None /\ s # None
      BY <1>1, <1>2, Constants
    <2>2. \A u \in Task, f \in File : filp[u][f] # d
      BY <1>2, <2>1 DEF Sound, Descriptors
    <2>3. \A u \in Task, f \in File : filp[u][f] \in Desc \cup {None}
      BY DEF Ext2Types
    <2>4. ASSUME NEW u \in Task, NEW f \in File, filp'[u][f] # None PROVE fdt'[filp'[u][f]] # None
      <3>1. CASE u = t /\ f = fd
        BY <1>6, <1>7, <2>1, <3>1
      <3>2. CASE u # t \/ f # fd
        BY <1>6, <1>7, <2>2, <2>3, <2>4, <3>2 DEF Sound, Descriptors
      <3> QED BY <3>1, <3>2
    <2>5. ASSUME NEW x \in Desc, fdt'[x] # None PROVE \E u \in Task, f \in File : filp'[u][f] = x
      <3>1. CASE x = d
        BY <1>2, <1>7, <3>1
      <3>2. CASE x # d
        <4>1. fdt[x] # None
          BY <1>6, <2>5, <3>2
        <4>2. PICK u \in Task, f \in File : filp[u][f] = x
          BY <4>1 DEF Sound, Descriptors
        <4>3. u # t \/ f # fd
          BY <1>2, <4>2, Constants
        <4> QED BY <1>7, <4>2, <4>3
      <3> QED BY <3>1, <3>2
    <2>6. ASSUME NEW u \in Task, NEW v \in Task, NEW f \in File, NEW h \in File,
                 filp'[u][f] # None, filp'[u][f] = filp'[v][h]
          PROVE  u = v /\ f = h
      <3>1. CASE (u = t /\ f = fd) \/ (v = t /\ h = fd)
        BY <1>7, <2>2, <2>6, <3>1
      <3>2. CASE ~((u = t /\ f = fd) \/ (v = t /\ h = fd))
        BY <1>7, <2>6, <3>2 DEF Sound, Descriptors
      <3> QED BY <3>1, <3>2
    <2> QED BY <2>4, <2>5, <2>6 DEF Descriptors
  <1>12. Table(t)'
    <2>1. /\ itab[0] = [num |-> Root, cnt |-> 1, size |-> Size, start |-> 1]
          /\ \A x \in Slot \ {0} : itab[x].cnt = Cardinality(Users(x)) + (IF x = s THEN 1 ELSE 0)
          /\ \A r, x \in Slot : itab[r].cnt # 0 /\ itab[x].cnt # 0 /\ itab[r].num = itab[x].num => r = x
          /\ \A x \in Slot : itab[x].cnt # 0 => itab[x].num \in 1 .. Size
          /\ \A x \in Slot : itab[x].cnt # 0 => dinode[itab[x].num] = Inode(itab[x].size, itab[x].start)
      BY <1>8 DEF Sound, Table
    <2>2. Users(s)' = Users(s) \cup {d} /\ d \notin Users(s)
      <3>1. s # None
        BY <1>1, Constants
      <3> QED BY <1>2, <1>6, <3>1 DEF Users
    <2>3. \A x \in Slot : x # s => Users(x)' = Users(x)
      <3>1. \A x \in Slot : x # None
        BY Constants
      <3> QED BY <1>2, <1>6, <3>1 DEF Users
    <2>4. Cardinality(Users(s))' = Cardinality(Users(s)) + 1
      BY <2>2, UsersFinite, FS_AddElement
    <2>5. \A x \in Slot \ {0} : itab[x].cnt = Cardinality(Users(x))' + 0
      <3> SUFFICES ASSUME NEW x \in Slot \ {0} PROVE itab[x].cnt = Cardinality(Users(x))' + 0
        OBVIOUS
      <3>1. CASE x = s
        BY <2>1, <2>4, <3>1, UsersFinite
      <3>2. CASE x # s
        BY <2>1, <2>3, <3>2
      <3> QED BY <3>1, <3>2
    <2>6. itab' = itab /\ dinode' = dinode
      BY <1>3 DEF card
    <2> QED BY <1>9, <1>10, <2>1, <2>5, <2>6 DEF Table
  <1>13. Reserved(t)'
    BY <1>5 DEF Reserved
  <1>14. Ext2Types' /\ Lone(t)'
    BY <1>3, <1>4, <1>6, <1>7, StaysLone DEF Ext2Types, card
  <1>15. Where(t)'
    BY <1>4, <1>5, Vacuous DEF Where, Idling, Syncing
  <1> QED BY <1>3, <1>10, <1>11, <1>12, <1>13, <1>14, <1>15, Concludes

LEMMA CloseKeeps ==
    ASSUME Ext2Types, NEW t \in Task, Lone(t), Sound(t), ~wild, breach' = {},
           NEW f \in File, Close(t, f)
    PROVE  Ext2State'
  <1> DEFINE c == call[t]
  <1>0. PICK d : d = filp[t][f]
    OBVIOUS
  <1>1. c = Idle /\ c.at = "idle" /\ d \in Desc /\ d # None /\ fdt[d] # None
    BY <1>0 DEF Close, Begin, At, Sound, Where, Idling, Descriptors, Ext2Types
  <1>2. PICK s \in Slot \ {0} : s = fdt[d]
    BY <1>1 DEF Ext2Types
  <1>3. /\ itab' = [itab EXCEPT ![s].cnt = @ - 1] /\ fdt' = [fdt EXCEPT ![d] = None]
        /\ filp' = [filp EXCEPT ![t][f] = None]
        /\ UNCHANGED <<card, call>> /\ wild' = wild
    BY <1>0, <1>1, <1>2 DEF Close
  <1>4. /\ fdt' \in [Desc -> (Slot \ {0}) \cup {None}] /\ fdt'[d] = None
        /\ \A x \in Desc \ {d} : fdt'[x] = fdt[x]
    BY <1>1, <1>3 DEF Ext2Types
  <1>5. /\ filp' \in [Task -> [File -> Desc \cup {None}]] /\ filp'[t][f] = None
        /\ \A u \in Task, g \in File : u # t \/ g # f => filp'[u][g] = filp[u][g]
    BY <1>3 DEF Ext2Types
  <1>6. /\ \A x \in Slot : ~Keeps(t, x) /\ ~Ahead(t, x) /\ ~Keeps(t, x)' /\ ~Ahead(t, x)'
        /\ ~Grown(t) /\ ~Pending(t) /\ ~Grown(t)' /\ ~Pending(t)'
    BY <1>1, <1>3 DEF Keeps, Ahead, Grown, Pending, Syncing
  <1>7. Card(t)' /\ Size' = Size
    BY <1>3, <1>6, CardKept DEF Sound
  <1>8. Descriptors'
    <2>1. \A u \in Task, g \in File : (u # t \/ g # f) => filp[u][g] # d
      BY <1>0, <1>1 DEF Sound, Descriptors
    <2>2. \A u \in Task, g \in File : filp[u][g] \in Desc \cup {None}
      BY DEF Ext2Types
    <2>3. ASSUME NEW u \in Task, NEW g \in File, filp'[u][g] # None PROVE fdt'[filp'[u][g]] # None
      BY <1>4, <1>5, <2>1, <2>2, <2>3 DEF Sound, Descriptors
    <2>4. ASSUME NEW x \in Desc, fdt'[x] # None PROVE \E u \in Task, g \in File : filp'[u][g] = x
      <3>1. x # d /\ fdt[x] # None
        BY <1>4, <2>4
      <3>2. PICK u \in Task, g \in File : filp[u][g] = x
        BY <3>1 DEF Sound, Descriptors
      <3> QED BY <1>0, <1>5, <3>1, <3>2
    <2>5. ASSUME NEW u \in Task, NEW v \in Task, NEW g \in File, NEW h \in File,
                 filp'[u][g] # None, filp'[u][g] = filp'[v][h]
          PROVE  u = v /\ g = h
      BY <1>5, <2>5 DEF Sound, Descriptors
    <2> QED BY <2>3, <2>4, <2>5 DEF Descriptors
  <1>9. /\ Users(s)' = Users(s) \ {d} /\ d \in Users(s)
        /\ \A x \in Slot : x # s => Users(x)' = Users(x)
    <2>1. \A x \in Slot : x # None
      BY Constants
    <2>2. Users(s)' = Users(s) \ {d} /\ d \in Users(s)
      BY <1>1, <1>2, <1>4, <2>1 DEF Users
    <2>3. \A x \in Slot : x # s => Users(x)' = Users(x)
      BY <1>1, <1>2, <1>4, <2>1 DEF Users
    <2> QED BY <2>2, <2>3
  <1>10. /\ itab[s].cnt = Cardinality(Users(s)) /\ itab[s].cnt - 1 \in Nat
         /\ Cardinality(Users(s))' = itab[s].cnt - 1
    <2>1. itab[s].cnt = Cardinality(Users(s)) + 0
      BY <1>6 DEF Sound, Table
    <2>2. IsFiniteSet(Users(s)) /\ Cardinality(Users(s)) \in Nat
      BY UsersFinite
    <2>3. Cardinality(Users(s))' = Cardinality(Users(s)) - 1
      BY <1>9, <2>2, FS_RemoveElement
    <2>4. Cardinality(Users(s)) # 0
      BY <1>9, <2>2, FS_EmptySet
    <2> QED BY <2>1, <2>2, <2>3, <2>4
  <1>11. /\ itab' \in [Slot -> Slots] /\ \A x \in Slot \ {s} : itab'[x] = itab[x]
         /\ itab'[s].cnt = itab[s].cnt - 1 /\ itab'[s].num = itab[s].num
         /\ itab'[s].size = itab[s].size /\ itab'[s].start = itab[s].start
    <2>1. itab[s] \in Slots /\ itab \in [Slot -> Slots]
      BY DEF Ext2Types
    <2>2. itab' = [itab EXCEPT ![s] = [itab[s] EXCEPT !.cnt = itab[s].cnt - 1]]
      BY <1>3, <2>1
    <2>3. [itab[s] EXCEPT !.cnt = itab[s].cnt - 1] \in Slots
      BY <1>10, <2>1 DEF Slots
    <2> QED BY <2>1, <2>2, <2>3 DEF Slots
  <1>12. Table(t)'
    <2>1. /\ itab[0] = [num |-> Root, cnt |-> 1, size |-> Size, start |-> 1]
          /\ \A x \in Slot \ {0} : itab[x].cnt = Cardinality(Users(x)) + 0
          /\ \A r, x \in Slot : itab[r].cnt # 0 /\ itab[x].cnt # 0 /\ itab[r].num = itab[x].num => r = x
          /\ \A x \in Slot : itab[x].cnt # 0 => itab[x].num \in 1 .. Size
          /\ \A x \in Slot : itab[x].cnt # 0 => dinode[itab[x].num] = Inode(itab[x].size, itab[x].start)
      BY <1>6 DEF Sound, Table
    <2>2. itab'[0] = itab[0]
      BY <1>11, Constants
    <2>3. \A x \in Slot \ {0} : itab'[x].cnt = Cardinality(Users(x))' + 0
      <3> SUFFICES ASSUME NEW x \in Slot \ {0} PROVE itab'[x].cnt = Cardinality(Users(x))' + 0
        OBVIOUS
      <3>1. CASE x = s
        BY <1>10, <1>11, <3>1
      <3>2. CASE x # s
        BY <1>9, <1>11, <2>1, <3>2
      <3> QED BY <3>1, <3>2
    <2>4. \A x \in Slot : /\ itab'[x].cnt # 0 => itab[x].cnt # 0
                          /\ itab'[x].num = itab[x].num /\ itab'[x].size = itab[x].size
                          /\ itab'[x].start = itab[x].start
      <3>1. itab[s].cnt # 0
        BY <1>10
      <3> QED BY <1>11, <3>1
    <2>5. dinode' = dinode
      BY <1>3 DEF card
    <2> QED BY <1>6, <1>7, <2>1, <2>2, <2>3, <2>4, <2>5 DEF Table
  <1>13. Reserved(t)'
    BY <1>1, <1>3 DEF Reserved, Idle
  <1>14. Ext2Types' /\ Lone(t)'
    BY <1>3, <1>4, <1>5, <1>11, StaysLone DEF Ext2Types, card
  <1>15. Where(t)'
    BY <1>1, <1>3, Vacuous DEF Where, Idling, Syncing
  <1> QED BY <1>3, <1>7, <1>8, <1>12, <1>13, <1>14, <1>15, Concludes

-----------------------------------------------------------------------------
(* Reading and writing                                                     *)

LEMMA DataUseKeeps ==
    ASSUME Ext2Types, NEW t \in Task, Lone(t), Sound(t), ~wild, breach' = {}, DataUse(t)
    PROVE  Ext2State'
  <1> DEFINE c == call[t]
             e == [c EXCEPT !.then = "idle"]
  <1>0. PICK s : s = c.pin
    OBVIOUS
  <1>1. /\ c.at = "datause" /\ UNCHANGED <<card, fdt, filp>> /\ wild' = wild
        /\ \/ call' = [call EXCEPT ![t] = Idle] /\ UNCHANGED itab
           \/ itab' = [itab EXCEPT ![s].size = @ + 1] /\ Goto(t, "sync", e)
    BY <1>0 DEF DataUse, Uses, At, ghosts
  <1>2. CASE call' = [call EXCEPT ![t] = Idle] /\ UNCHANGED itab
    <2>1. UNCHANGED <<card, tables>>
      BY <1>1, <1>2 DEF tables
    <2> QED BY <1>1, <1>2, <2>1, Ends
  <1>3. CASE itab' = [itab EXCEPT ![s].size = @ + 1] /\ Goto(t, "sync", e)
    <2>1. c \in Calls /\ c.name = None /\ ~c.create /\ s \in Slot \ {0} /\ itab[s].cnt # 0
      BY <1>0, <1>1, CallType DEF Sound, Where, Using, Calls
    <2>2. /\ e \in Calls /\ e.name = c.name /\ e.fd = c.fd /\ e.d = c.d /\ e.create = c.create
          /\ e.pin = s /\ e.then = "idle"
      BY <1>0, <2>1 DEF Calls
    <2> HIDE DEF e
    <2>3. call' \in [Task -> Calls] /\ (\A u \in Task \ {t} : call'[u] = call[u]) /\ call'[t] = [e EXCEPT !.at = "sync"]
      <3>1. "sync" \in Point
        BY DEF Point, Syncing
      <3> QED BY <1>3, <2>2, <3>1, Goes
    <2>4. /\ call'[t].at = "sync" /\ call'[t].name = None /\ ~call'[t].create
          /\ call'[t].pin = s /\ call'[t].then = "idle"
      BY <2>1, <2>2, <2>3 DEF Calls
    <2>5. /\ itab' \in [Slot -> Slots] /\ \A x \in Slot \ {s} : itab'[x] = itab[x]
          /\ itab'[s].num = itab[s].num /\ itab'[s].cnt = itab[s].cnt /\ itab'[s].start = itab[s].start
      <3>1. itab[s] \in Slots /\ itab \in [Slot -> Slots]
        BY <2>1 DEF Ext2Types
      <3>2. itab' = [itab EXCEPT ![s] = [itab[s] EXCEPT !.size = itab[s].size + 1]]
        BY <1>3
      <3>3. [itab[s] EXCEPT !.size = itab[s].size + 1] \in Slots
        BY <3>1 DEF Slots
      <3> QED BY <2>1, <3>1, <3>2, <3>3 DEF Slots
    <2>6. /\ \A x \in Slot : ~Keeps(t, x) /\ ~Keeps(t, x)' /\ ~Ahead(t, x) /\ (Ahead(t, x)' <=> x = s)
          /\ ~Grown(t) /\ ~Pending(t) /\ ~Grown(t)' /\ ~Pending(t)'
      <3>1. \A x \in Slot : ~Keeps(t, x) /\ ~Keeps(t, x)'
        BY <1>1, <2>4 DEF Keeps, Syncing
      <3>2. \A x \in Slot : ~Ahead(t, x) /\ (Ahead(t, x)' <=> x = s)
        BY <1>1, <2>4 DEF Ahead, Syncing
      <3>3. ~Grown(t) /\ ~Pending(t) /\ ~Grown(t)' /\ ~Pending(t)'
        BY <1>1, <2>4 DEF Grown, Pending, Syncing
      <3> QED BY <3>1, <3>2, <3>3
    <2>7. Card(t)' /\ Size' = Size
      BY <1>1, <2>6, CardKept DEF Sound
    <2>8. Table(t)'
      <3>1. /\ itab[0] = [num |-> Root, cnt |-> 1, size |-> Size, start |-> 1]
            /\ \A x \in Slot \ {0} : itab[x].cnt = Cardinality(Users(x)) + 0
            /\ \A r, x \in Slot : itab[r].cnt # 0 /\ itab[x].cnt # 0 /\ itab[r].num = itab[x].num => r = x
            /\ \A x \in Slot : itab[x].cnt # 0 => itab[x].num \in 1 .. Size
            /\ \A x \in Slot : itab[x].cnt # 0 => dinode[itab[x].num] = Inode(itab[x].size, itab[x].start)
        BY <2>6 DEF Sound, Table
      <3>2. \A x \in Slot : itab'[x].cnt = itab[x].cnt /\ itab'[x].num = itab[x].num
        BY <2>5
      <3>3. itab'[0] = itab[0]
        BY <2>1, <2>5, Constants
      <3>4. (\A x : Users(x)' = Users(x)) /\ dinode' = dinode
        BY <1>1 DEF Users, card
      <3> QED BY <2>5, <2>6, <2>7, <3>1, <3>2, <3>3, <3>4 DEF Table
    <2>9. Descriptors'
      BY <1>1, DescriptorsKept DEF Sound
    <2>10. Reserved(t)'
      BY <2>4 DEF Reserved
    <2>11. Ext2Types' /\ Lone(t)'
      BY <1>1, <2>3, <2>5, StaysLone DEF Ext2Types, card
    <2>12. Syncs(t)'
      <3>1. dinode[itab[s].num] = Inode(itab[s].size, itab[s].start) /\ dinode' = dinode
        BY <1>1, <2>1, <2>6 DEF Sound, Table, card
      <3>2. dinode'[itab'[s].num].start = itab'[s].start /\ itab'[s].cnt # 0
        BY <2>1, <2>5, <3>1 DEF Inode
      <3> QED BY <2>1, <2>4, <3>2 DEF Syncs
    <2> QED BY <1>1, <2>4, <2>7, <2>8, <2>9, <2>10, <2>11, <2>12, Vacuous, Concludes DEF Where, Syncing
  <1> QED BY <1>1, <1>2, <1>3

-----------------------------------------------------------------------------
(* buf holds what its user has read                                        *)

LEMMA LostNever ==
    ASSUME NEW t \in Task, Sound(t), Lost(t)
    PROVE  FALSE
  <1> DEFINE c == call[t]
  <1>1. /\ c.at \in {"look", "dirset", "dirwrite"} => Holds("dir", c.i)
        /\ c.at \in {"imapset", "imapwrite"} => Holds("imap", 0)
        /\ c.at \in {"smapset", "smapwrite"} => Holds("smap", c.i)
        /\ c.at \in {"take", "syncset", "syncwrite"} => Holds("ino", 0)
        /\ c.at = "datause" => Holds("data", c.pin)
    <2>1. c.at \in {"look", "dirset", "dirwrite"} => Holds("dir", c.i)
      BY DEF Sound, Where, Searching, Entering, NotStale, BufIs, Holds
    <2>2. c.at \in {"imapset", "imapwrite"} => Holds("imap", 0)
      BY DEF Sound, Where, Marking, BufIs, Holds
    <2>3. c.at \in {"smapset", "smapwrite"} => Holds("smap", c.i)
      BY DEF Sound, Where, Taking, BufIs, Holds
    <2>4. c.at \in {"take", "syncset", "syncwrite"} => Holds("ino", 0)
      BY DEF Sound, Where, Getting, Syncs, Syncing, BufIs, Holds
    <2>5. c.at = "datause" => Holds("data", c.pin)
      BY DEF Sound, Where, Using
    <2> QED BY <2>1, <2>2, <2>3, <2>4, <2>5
  <1> QED BY <1>1 DEF Lost, Astray, At

-----------------------------------------------------------------------------
(* A card that has just been formatted                                     *)

Formatted ==
    /\ ~wild
    /\ imap = FormatImap /\ 0 .. FileSects \subseteq smap /\ smap \subseteq Bit
    /\ dinode = FormatIno
    /\ dir \in [Index -> DirEntry] /\ dir[0] = Onto(Blank, Root, Dot)
    /\ \A g \in Index \ {0} : dir[g] = Blank \/ (dir[g].ino = g + 1 /\ dir[g].name # None /\ dir[g].last # 0)
    /\ itab = [s \in Slot |-> IF s = 0 THEN [num |-> Root, cnt |-> 1, size |-> 1, start |-> 1]
                              ELSE EmptySlot]
    /\ fdt = [d \in Desc |-> None]
    /\ filp = [t \in Task |-> [f \in File |-> None]]
    /\ call = [t \in Task |-> Idle]

LEMMA RootEntry ==
    /\ Onto(Blank, Root, Dot) = [ino |-> 1, name |-> Dot, last |-> NameLen[Dot]]
    /\ NameLen[Dot] \in Nat \ {0} /\ Onto(Blank, Root, Dot) # Blank
    /\ Onto(Blank, Root, Dot) \in DirEntry /\ Blank \in DirEntry
  <1>1. NameLen[Dot] \in Nat \ {0} /\ Blank.last = 0
    BY Constants DEF Blank
  <1>2. ~(Blank.last > NameLen[Dot] + 1)
    BY <1>1
  <1>3. Onto(Blank, Root, Dot) = [ino |-> 1, name |-> Dot, last |-> NameLen[Dot]]
    BY <1>2 DEF Onto, Root
  <1> QED BY <1>1, <1>3 DEF Blank, DirEntry

LEMMA FormattedIsSound == Formatted => Ext2State
  <1> SUFFICES ASSUME Formatted PROVE Ext2State
    OBVIOUS
  <1>1. PICK t \in Task : TRUE
    BY Ext2Assumption
  <1>2. dinode \in [Ino -> Inodes] /\ Size = 1 /\ dinode[Root].start = 1 /\ Old = {0} /\ First(0) = 1
    <2>1. dinode = [n \in Ino |-> IF n = Root THEN Inode(1, 1) ELSE Inode(0, 0)]
      BY DEF Formatted, FormatIno
    <2>2. dinode \in [Ino -> Inodes] /\ dinode[Root] = Inode(1, 1)
      BY <2>1, Constants DEF Inodes, Inode
    <2>3. Size = 1 /\ dinode[Root].start = 1
      BY <2>2 DEF Size, Inode
    <2>4. First(0) = 1
      BY <2>3 DEF First, Root
    <2>5. Old = {0}
      BY <2>3 DEF Old
    <2> QED BY <2>2, <2>3, <2>4, <2>5
  <1>3. /\ itab \in [Slot -> Slots] /\ itab[0] = [num |-> Root, cnt |-> 1, size |-> 1, start |-> 1]
        /\ \A s \in Slot \ {0} : itab[s].cnt = 0
    BY Constants DEF Formatted, Slots, EmptySlot, Root
  <1>4. /\ \A d \in Desc : fdt[d] = None
        /\ \A u \in Task, f \in File : filp[u][f] = None
        /\ \A u \in Task : call[u] = Idle
    BY DEF Formatted
  <1>5. Idle.at = "idle" /\ Idle.name = None /\ ~Idle.create
    BY DEF Idle
  <1>6. Ext2Types
    <2>1. imap \subseteq Ino
      BY Constants DEF Formatted, FormatImap
    <2>2. /\ fdt \in [Desc -> (Slot \ {0}) \cup {None}]
          /\ filp \in [Task -> [File -> Desc \cup {None}]]
      BY DEF Formatted
    <2>3. call \in [Task -> Calls]
      BY IdleCall DEF Formatted
    <2> QED BY <1>2, <1>3, <2>1, <2>2, <2>3 DEF Ext2Types, Formatted
  <1>7. Lone(t)
    BY <1>4 DEF Lone
  <1>8. /\ \A s \in Slot : ~Keeps(t, s) /\ ~Ahead(t, s)
        /\ ~Grown(t) /\ ~Pending(t)
    BY <1>4, <1>5 DEF Keeps, Ahead, Grown, Pending, Syncing
  <1>9. Card(t)
    <2>1. Bits
      <3>1. 0 .. 1 + FileSects - 1 = 0 .. FileSects
        BY Constants
      <3>2. \A g \in Old : g = 0 /\ First(g) = 1
        BY <1>2
      <3>3. 0 .. FileSects \subseteq smap
        BY DEF Formatted
      <3>4. \A g \in Old : First(g) # 0 /\ 0 .. First(g) + FileSects - 1 \subseteq smap
        <4> SUFFICES ASSUME NEW g \in Old PROVE First(g) # 0 /\ 0 .. First(g) + FileSects - 1 \subseteq smap
          OBVIOUS
        <4>1. First(g) = 1
          BY <3>2
        <4>2. 0 .. First(g) + FileSects - 1 = 0 .. FileSects
          BY <3>1, <4>1, Zenon
        <4>3. First(g) # 0
          BY <4>1
        <4>4. 0 .. First(g) + FileSects - 1 \subseteq smap
          BY <3>3, <4>2, Zenon
        <4> QED BY <4>3, <4>4
      <3>5. \A g, h \in Old : ~(g < h)
        BY <3>2
      <3> QED BY <3>3, <3>4, <3>5 DEF Bits
    <2>2. Entries
      <3>1. dir[0] = Onto(Blank, Root, Dot) /\ dir[0].ino = 0 + 1 /\ dir[0].name = Dot
            /\ dir[0].last = NameLen[Dot] /\ dir[0].last # 0 /\ dir[0] # Blank
        BY RootEntry DEF Formatted
      <3> QED BY <1>2, <3>1, Constants DEF Entries, Formatted
    <2>3. imap = 0 .. Size
      BY <1>2 DEF Formatted, FormatImap, Root
    <2> QED BY <1>2, <1>8, <2>1, <2>2, <2>3 DEF Card
  <1>10. Descriptors
    BY <1>4 DEF Descriptors
  <1>11. Table(t)
    <2>1. \A s \in Slot \ {0} : Users(s) = {}
      BY <1>4, Constants DEF Users
    <2>2. \A s \in Slot \ {0} : itab[s].cnt = Cardinality(Users(s)) + 0
      BY <1>3, <2>1, FS_EmptySet
    <2>3. \A s \in Slot : itab[s].cnt # 0 => s = 0
      BY <1>3
    <2>4. itab[0].num \in 1 .. Size
      BY <1>2, <1>3 DEF Root
    <2>5. dinode[itab[0].num] = Inode(itab[0].size, itab[0].start)
      <3>1. dinode[Root] = Inode(1, 1)
        BY Constants DEF Formatted, FormatIno
      <3> QED BY <1>3, <3>1
    <2> QED BY <1>2, <1>3, <1>8, <2>2, <2>3, <2>4, <2>5 DEF Table
  <1>12. Reserved(t)
    BY <1>4, <1>5 DEF Reserved
  <1>13. Where(t)
    BY <1>4, <1>5 DEF Where, Idling, Searching, Marking, Taking, Getting, Syncs, Entering, Claiming,
                      Using, Syncing
  <1> QED BY <1>6, <1>7, <1>9, <1>10, <1>11, <1>12, <1>13 DEF Ext2State, Sound, Formatted

LEMMA FormattedIsSoundNext == Formatted' => Ext2State'
  BY FormattedIsSound, PTL

\* The bits of the sectors a format takes
LEMMA FormatBits == 0 .. FileSects \subseteq Bit
  <1>1. Edge(0) = 0 /\ Edge(0 + 1) = Edge(0) + SectBits /\ Edge(0 + 1) <= Edge(SmapSects)
    <2>1. 0 \in Nat /\ 0 < SmapSects
      BY Constants
    <2> QED BY <2>1, Edges, Zenon
  <1>2. Bit = 0 .. Edge(SmapSects) - 1 /\ Edge(SmapSects) \in Nat
    BY Edges, Constants
  <1> DEFINE top == Edge(SmapSects)
  <1> HIDE DEF top
  <1>3. SectBits <= top /\ top \in Nat /\ Bit = 0 .. top - 1
    BY <1>1, <1>2, Constants DEF top
  <1> QED BY <1>3, Constants

LEMMA InitIsSound == Init => Ext2State
  <1> SUFFICES ASSUME Init PROVE Formatted
    BY FormattedIsSound
  <1>1. 0 .. FileSects \subseteq smap /\ smap \subseteq Bit
    BY FormatBits DEF Init
  <1>2. /\ dir \in [Index -> DirEntry] /\ dir[0] = Onto(Blank, Root, Dot)
        /\ \A g \in Index \ {0} : dir[g] = Blank
    <2>1. 0 \in Index
      BY Indices, Constants
    <2> QED BY <2>1, RootEntry DEF Init
  <1> QED BY <1>1, <1>2 DEF Init, Formatted

LEMMA BootKeeps ==
    ASSUME Ext2State, Boot
    PROVE  Ext2State'
  <1> SUFFICES Formatted'
    BY FormattedIsSoundNext
  <1>1. Ext2Types /\ Entries
    BY DEF Ext2State, Sound, Card
  <1>2. 0 .. FileSects \subseteq smap' /\ smap' \subseteq Bit
    BY <1>1, FormatBits DEF Boot, FormatSmap, Ext2Types
  <1>3. /\ dir' \in [Index -> DirEntry] /\ dir'[0] = Onto(Blank, Root, Dot)
        /\ \A g \in Index \ {0} : dir'[g] = Blank \/ dir'[g] = dir[g]
    <2>1. 0 \in Index
      BY Indices, Constants
    <2> QED BY <1>1, <2>1, RootEntry DEF Boot, FormatDir, Ext2Types
  <1>4. \A g \in Index \ {0} : dir'[g] = Blank \/ (dir'[g].ino = g + 1 /\ dir'[g].name # None /\ dir'[g].last # 0)
    BY <1>1, <1>3 DEF Entries
  <1>5. /\ imap' = FormatImap /\ dinode' = FormatIno /\ ~wild'
    BY DEF Boot
  <1>6. FormatImap' = FormatImap /\ FormatIno' = FormatIno /\ Onto(Blank, Root, Dot)' = Onto(Blank, Root, Dot)
    BY DEF FormatImap, FormatIno
  <1> QED BY <1>2, <1>3, <1>4, <1>5, <1>6 DEF Boot, Memory, Formatted

-----------------------------------------------------------------------------
(* The invariant                                                           *)

\* What has been broken stays so.
LEMMA BreachGrows == [Next]_vars => breach \subseteq breach'
  <1> SUFFICES ASSUME [Next]_vars PROVE breach \subseteq breach'
    OBVIOUS
  <1> USE DEF Breaks, Reads, ReadDir, ghosts
  <1>1. ASSUME NEW t \in Task, OpenSteps(t) PROVE breach \subseteq breach'
    BY <1>1 DEF OpenSteps, OpenStart, SearchRead, SearchHit, SearchOn, Claim
  <1>2. ASSUME NEW t \in Task, CreateSteps(t) PROVE breach \subseteq breach'
    BY <1>2 DEF CreateSteps, ImapRead, ImapSet, ImapWrite, SmapRead, SmapSet, SmapWrite,
                NewInode, DirRead, DirSet, DirWrite
  <1>3. ASSUME NEW t \in Task, InodeSteps(t) PROVE breach \subseteq breach'
    BY <1>3 DEF InodeSteps, GetHit, GetSlot, GetNull, LoadRead, LoadTake, SyncRead, SyncSet, SyncWrite
  <1>4. ASSUME NEW t \in Task, FileSteps(t) PROVE breach \subseteq breach'
    BY <1>4 DEF FileSteps, UseStart, Close, DataRead, DataUse
  <1>5. ASSUME NEW t \in Task, Lost(t) PROVE breach \subseteq breach'
    BY <1>5 DEF Lost, Astray
  <1>6. Boot \/ Wild \/ UNCHANGED vars => breach \subseteq breach'
    BY DEF Boot, Wild, vars
  <1> QED BY <1>1, <1>2, <1>3, <1>4, <1>5, <1>6 DEF Next

\* The steps inside a call
LEMMA InsideIsBusy ==
    ASSUME NEW t \in Task,
           \/ SearchRead(t) \/ SearchHit(t) \/ SearchOn(t) \/ Claim(t)
           \/ CreateSteps(t) \/ InodeSteps(t) \/ DataRead(t) \/ DataUse(t) \/ Lost(t)
    PROVE  call[t].at # "idle"
  <1> USE DEF At, Uses, Reads, ReadDir
  <1>1. SearchRead(t) \/ SearchHit(t) \/ SearchOn(t) \/ Claim(t) => call[t].at # "idle"
    BY DEF SearchRead, SearchHit, SearchOn, Claim
  <1>2. CreateSteps(t) => call[t].at # "idle"
    BY DEF CreateSteps, ImapRead, ImapSet, ImapWrite, SmapRead, SmapSet, SmapWrite,
           NewInode, DirRead, DirSet, DirWrite
  <1>3. InodeSteps(t) => call[t].at # "idle"
    BY DEF InodeSteps, GetHit, GetSlot, GetNull, LoadRead, LoadTake, SyncRead, SyncSet, SyncWrite
  <1>4. DataRead(t) \/ DataUse(t) \/ Lost(t) => call[t].at # "idle"
    BY DEF DataRead, DataUse, Lost, Astray
  <1> QED BY <1>1, <1>2, <1>3, <1>4

LEMMA TaskKeeps ==
    ASSUME Ext2State, breach' = {}, NEW t \in Task,
           OpenSteps(t) \/ CreateSteps(t) \/ InodeSteps(t) \/ FileSteps(t) \/ Lost(t)
    PROVE  Ext2State'
  <1>1. CASE /\ call[t].at # "idle"
             /\ \/ SearchRead(t) \/ SearchHit(t) \/ SearchOn(t) \/ Claim(t)
                \/ CreateSteps(t) \/ InodeSteps(t) \/ DataRead(t) \/ DataUse(t) \/ Lost(t)
    <2>1. ~wild /\ Ext2Types /\ Lone(t) /\ Sound(t)
      BY <1>1, Owner
    <2>2. CASE \/ SearchRead(t) \/ ImapRead(t) \/ SmapRead(t) \/ LoadRead(t)
               \/ SyncRead(t) \/ DirRead(t) \/ DataRead(t)
      BY <2>1, <2>2, ReadKeeps
    <2>3. CASE SearchHit(t)
      BY <2>1, <2>3, SearchHitKeeps
    <2>4. CASE SearchOn(t)
      BY <2>1, <2>4, SearchOnKeeps
    <2>5. CASE Claim(t)
      BY <2>1, <2>5, ClaimKeeps
    <2>6. CASE ImapSet(t)
      BY <2>1, <2>6, ImapSetKeeps
    <2>7. CASE ImapWrite(t)
      BY <2>1, <2>7, ImapWriteKeeps
    <2>8. CASE SmapSet(t)
      BY <2>1, <2>8, SmapSetKeeps
    <2>9. CASE SmapWrite(t)
      BY <2>1, <2>9, SmapWriteKeeps
    <2>10. CASE NewInode(t)
      BY <2>1, <2>10, NewInodeKeeps
    <2>11. CASE DirSet(t)
      BY <2>1, <2>11, DirSetKeeps
    <2>12. CASE DirWrite(t)
      BY <2>1, <2>12, DirWriteKeeps
    <2>13. CASE GetHit(t)
      BY <2>1, <2>13, GetHitKeeps
    <2>14. CASE GetSlot(t)
      BY <2>1, <2>14, GetSlotKeeps
    <2>15. CASE GetNull(t)
      BY <2>1, <2>15, GetNullNever
    <2>16. CASE LoadTake(t)
      BY <2>1, <2>16, LoadTakeKeeps
    <2>17. CASE SyncSet(t)
      BY <2>1, <2>17, SyncSetKeeps
    <2>18. CASE SyncWrite(t)
      BY <2>1, <2>18, SyncWriteKeeps
    <2>19. CASE DataUse(t)
      BY <2>1, <2>19, DataUseKeeps
    <2>20. CASE Lost(t)
      BY <2>1, <2>20, LostNever
    <2> QED BY <1>1, <2>2, <2>3, <2>4, <2>5, <2>6, <2>7, <2>8, <2>9, <2>10, <2>11, <2>12, <2>13,
               <2>14, <2>15, <2>16, <2>17, <2>18, <2>19, <2>20 DEF CreateSteps, InodeSteps
  <1>2. CASE \E n \in Name, create \in BOOLEAN : OpenStart(t, n, create)
    <2>1. PICK n \in Name, create \in BOOLEAN : OpenStart(t, n, create)
      BY <1>2
    <2>2. Alone(t)
      BY <2>1 DEF OpenStart, Breaks, Only
    <2>3. ~wild /\ Ext2Types /\ Lone(t) /\ Sound(t)
      BY <2>2, Owner
    <2> QED BY <2>1, <2>3, OpenStartKeeps
  <1>3. CASE \E f \in File : UseStart(t, f)
    <2>1. PICK f \in File : UseStart(t, f)
      BY <1>3
    <2>2. Alone(t)
      BY <2>1 DEF UseStart, Breaks, Only
    <2>3. ~wild /\ Ext2Types /\ Lone(t) /\ Sound(t)
      BY <2>2, Owner
    <2> QED BY <2>1, <2>3, UseStartKeeps
  <1>4. CASE \E f \in File : Close(t, f)
    <2>1. PICK f \in File : Close(t, f)
      BY <1>4
    <2>2. Alone(t)
      BY <2>1 DEF Close, Breaks, Only
    <2>3. ~wild /\ Ext2Types /\ Lone(t) /\ Sound(t)
      BY <2>2, Owner
    <2> QED BY <2>1, <2>3, CloseKeeps
  <1>5. (\/ SearchRead(t) \/ SearchHit(t) \/ SearchOn(t) \/ Claim(t)
         \/ CreateSteps(t) \/ InodeSteps(t) \/ DataRead(t) \/ DataUse(t) \/ Lost(t)) => call[t].at # "idle"
    BY InsideIsBusy
  <1> QED BY <1>1, <1>2, <1>3, <1>4, <1>5 DEF OpenSteps, FileSteps

LEMMA Stutters == Ext2State /\ UNCHANGED vars => Ext2State'
  <1> SUFFICES ASSUME Ext2State, UNCHANGED vars PROVE Ext2State'
    OBVIOUS
  <1> USE DEF vars, card, tables, ghosts
  <1>1. PICK t \in Task : Lone(t) /\ Sound(t)
    BY DEF Ext2State
  <1>2. ~wild' /\ Ext2Types'
    BY DEF Ext2State, Ext2Types
  <1>3. Lone(t)'
    BY <1>1 DEF Lone
  <1>4. Size' = Size /\ Old' = Old /\ (\A g : First(g)' = First(g)) /\ (Pending(t)' <=> Pending(t)) /\ (Grown(t)' <=> Grown(t))
    BY DEF Size, Old, First, Pending, Grown
  <1>5. \A s : (Keeps(t, s)' <=> Keeps(t, s)) /\ (Ahead(t, s)' <=> Ahead(t, s)) /\ Users(s)' = Users(s)
    BY DEF Keeps, Ahead, Users
  <1>6. Card(t)'
    BY <1>1, <1>4, CardKept DEF Sound
  <1>7. Descriptors' /\ Table(t)' /\ Reserved(t)'
    BY <1>1, <1>4, <1>5 DEF Sound, Descriptors, Table, Reserved
  <1>8. /\ Fresh(t)' <=> Fresh(t)
        /\ New(t)' <=> New(t)
        /\ Behind(t)' <=> Behind(t)
        /\ Placed(t)' <=> Placed(t)
        /\ OnCard(t)' <=> OnCard(t)
        /\ NotStale(t)' <=> NotStale(t)
        /\ Entry(t)' = Entry(t) /\ Taken(t)' = Taken(t)
        /\ \A i : Sector(i)' = Sector(i)
        /\ \A s : InSlot(t, s)' <=> InSlot(t, s)
    BY <1>4 DEF Fresh, New, Behind, Placed, OnCard, NotStale, BufIs, Sector, Entry, Taken, InSlot
  <1>9. Idling(t)' /\ Searching(t)' /\ Marking(t)'
    BY <1>1, <1>4, <1>8 DEF Sound, Where, Idling, Searching, Marking, BufIs
  <1>10. Taking(t)' /\ Getting(t)'
    BY <1>1, <1>4, <1>8 DEF Sound, Where, Taking, Getting, BufIs
  <1>11. Syncs(t)' /\ Entering(t)'
    BY <1>1, <1>4, <1>8 DEF Sound, Where, Syncs, Entering, BufIs
  <1>12. Claiming(t)' /\ Using(t)'
    BY <1>1, <1>4 DEF Sound, Where, Claiming, Using, Holds
  <1> QED BY <1>1, <1>2, <1>3, <1>6, <1>7, <1>9, <1>10, <1>11, <1>12, Concludes DEF Where

LEMMA Ext2Step == Ext2Inv /\ [Next]_vars => Ext2Inv'
  <1> SUFFICES ASSUME Ext2Inv, [Next]_vars, breach' = {} PROVE Ext2State'
    BY DEF Ext2Inv
  <1>1. Ext2State
    BY BreachGrows DEF Ext2Inv
  <1>2. ASSUME NEW t \in Task, OpenSteps(t) \/ CreateSteps(t) \/ InodeSteps(t) \/ FileSteps(t) \/ Lost(t)
        PROVE  Ext2State'
    BY <1>1, <1>2, TaskKeeps
  <1>3. CASE Boot
    BY <1>1, <1>3, BootKeeps
  <1>4. ~Wild
    BY <1>1 DEF Wild, Ext2State
  <1>5. CASE UNCHANGED vars
    BY <1>1, <1>5, Stutters
  <1> QED BY <1>2, <1>3, <1>4, <1>5 DEF Next

\* As long as no call has begun during another, no table or bitmap has been
\* used up and no stale sector used, the state is the one each call relies on:
\* what it has read into buf is there when it uses it, and card and tables
\* agree as its point in the call says.
THEOREM Ext2Invariant == Spec => []Ext2Inv
  <1>1. Init => Ext2Inv
    BY InitIsSound DEF Ext2Inv
  <1> QED BY <1>1, Ext2Step, PTL DEF Spec

-----------------------------------------------------------------------------
(* What it says of the card and of the tables                              *)

LEMMA CardIsSound == Ext2Inv => CardSound
  <1> SUFFICES ASSUME Ext2State
               PROVE  /\ ~wild
                      /\ \A g \in Listed : dir[g].ino \in imap /\ Extent(dir[g].ino) \subseteq smap
                      /\ \A g, h \in Listed : g # h =>
                            /\ dir[g].ino # dir[h].ino /\ dir[g].name # dir[h].name
                            /\ Extent(dir[g].ino) \cap Extent(dir[h].ino) = {}
    BY DEF Ext2Inv, CardSound
  <1>1. PICK t \in Task : Sound(t)
    BY DEF Ext2State
  <1>2. Ext2Types /\ ~wild
    BY DEF Ext2State
  <1>3. /\ Size \in Nat /\ Old \subseteq Index /\ \A g \in Old : First(g) \in Nat
    BY <1>1, <1>2, Numbers
  <1>4. Listed \subseteq Old
    <2>1. Index \subseteq Nat /\ Listed = {g \in Index : g < Size}
      BY Indices DEF Listed, Size
    <2>2. ASSUME NEW g \in Listed PROVE g \in Old
      <3>1. g \in Nat /\ g < Size /\ Size \in Nat
        BY <1>3, <2>1
      <3> QED BY <3>1 DEF Old
    <2> QED BY <2>2
  <1>5. \A g \in Old : dir[g].ino = g + 1 /\ Extent(dir[g].ino) = First(g) .. First(g) + FileSects - 1
    BY <1>1, <1>3 DEF Sound, Card, Entries, Extent, First
  <1>6. ASSUME NEW g \in Listed PROVE dir[g].ino \in imap /\ Extent(dir[g].ino) \subseteq smap
    <2>1. g \in Old /\ dir[g].ino = g + 1
      BY <1>4, <1>5
    <2>2. g + 1 \in imap
      <3>1. imap = 0 .. (IF Pending(t) THEN Size + 1 ELSE Size)
        BY <1>1 DEF Sound, Card
      <3> QED BY <1>3, <2>1, <3>1 DEF Old
    <2>3. Extent(dir[g].ino) \subseteq smap
      <3>1. 0 .. First(g) + FileSects - 1 \subseteq smap /\ First(g) \in Nat
        BY <1>1, <1>3, <2>1 DEF Sound, Card, Bits
      <3>2. First(g) .. First(g) + FileSects - 1 \subseteq 0 .. First(g) + FileSects - 1
        BY <3>1, Constants
      <3>3. Extent(dir[g].ino) = First(g) .. First(g) + FileSects - 1
        BY <1>5, <2>1
      <3> QED BY <3>1, <3>2, <3>3, Zenon
    <2> QED BY <2>1, <2>2, <2>3
  <1>7. ASSUME NEW g \in Listed, NEW h \in Listed, g # h
        PROVE  /\ dir[g].ino # dir[h].ino /\ dir[g].name # dir[h].name
               /\ Extent(dir[g].ino) \cap Extent(dir[h].ino) = {}
    <2>1. g \in Old /\ h \in Old /\ g \in Nat /\ h \in Nat
      BY <1>3, <1>4 DEF Old
    <2>2. dir[g].ino # dir[h].ino
      BY <1>5, <1>7, <2>1
    <2>3. dir[g].name # dir[h].name
      BY <1>1, <1>7, <2>1 DEF Sound, Card, Entries
    <2>4. First(g) + FileSects <= First(h) \/ First(h) + FileSects <= First(g)
      <3>1. g < h \/ h < g
        BY <1>7, <2>1
      <3> QED BY <1>1, <2>1, <3>1 DEF Sound, Card, Bits
    <2>5. (First(g) .. First(g) + FileSects - 1) \cap (First(h) .. First(h) + FileSects - 1) = {}
      <3>1. First(g) \in Nat /\ First(h) \in Nat
        BY <1>3, <2>1
      <3> DEFINE a == First(g)
                 b == First(h)
      <3> HIDE DEF a, b
      <3>2. (a .. a + FileSects - 1) \cap (b .. b + FileSects - 1) = {}
        BY <2>4, <3>1, Constants DEF a, b
      <3> QED BY <3>2 DEF a, b
    <2>6. Extent(dir[g].ino) \cap Extent(dir[h].ino) = {}
      BY <1>5, <2>1, <2>5, Zenon
    <2> QED BY <2>2, <2>3, <2>6
  <1> QED BY <1>2, <1>6, <1>7

\* Between any two sectors that create_file and sync_inode write, each name the
\* card lists leads to an inode and to sectors of its own, all marked as taken;
\* no memory outside the tables is used and buf is not another call's.
THEOREM CardAlwaysSound == Spec => []CardSound
  BY Ext2Invariant, CardIsSound, PTL

\* Between calls no task holds a slot that no descriptor stands for.
LEMMA QuietTables ==
    ASSUME Ext2State, Quiet
    PROVE  \E t \in Task : /\ Descriptors /\ Table(t)
                           /\ \A s \in Slot : ~Keeps(t, s) /\ ~Ahead(t, s)
  <1>1. PICK t \in Task : Sound(t)
    BY DEF Ext2State
  <1>2. call[t].at = "idle"
    BY DEF Quiet
  <1>3. \A s \in Slot : ~Keeps(t, s) /\ ~Ahead(t, s)
    BY <1>2 DEF Keeps, Ahead, Syncing
  <1> QED BY <1>1, <1>3 DEF Sound

LEMMA TablesAreSound == Ext2Inv => TablesSound
  <1> SUFFICES ASSUME Ext2State, Quiet
               PROVE  /\ \A r, s \in Slot : itab[r].cnt # 0 /\ itab[s].cnt # 0 /\ itab[r].num = itab[s].num => r = s
                      /\ \A s \in Slot \ {0} : itab[s].cnt = Cardinality({d \in Desc : fdt[d] = s})
                      /\ \A d \in Desc : Cardinality({x \in Task \X File : filp[x[1]][x[2]] = d})
                                            = IF fdt[d] = None THEN 0 ELSE 1
    BY DEF Ext2Inv, TablesSound
  <1>1. PICK t \in Task : /\ Descriptors /\ Table(t)
                          /\ \A s \in Slot : ~Keeps(t, s) /\ ~Ahead(t, s)
    BY QuietTables
  <1>2. \A r, s \in Slot : itab[r].cnt # 0 /\ itab[s].cnt # 0 /\ itab[r].num = itab[s].num => r = s
    BY <1>1 DEF Table
  <1>3. ASSUME NEW s \in Slot \ {0} PROVE itab[s].cnt = Cardinality({d \in Desc : fdt[d] = s})
    <2>1. itab[s].cnt = Cardinality(Users(s)) + 0
      BY <1>1 DEF Table
    <2>2. itab[s].cnt = Cardinality(Users(s))
      BY <2>1, UsersFinite
    <2> QED BY <2>2 DEF Users
  <1>4. ASSUME NEW d \in Desc
        PROVE  Cardinality({x \in Task \X File : filp[x[1]][x[2]] = d}) = IF fdt[d] = None THEN 0 ELSE 1
    <2> DEFINE refs == {x \in Task \X File : filp[x[1]][x[2]] = d}
    <2>1. d # None
      BY Constants
    <2>2. CASE fdt[d] = None
      <3>1. refs = {}
        BY <1>1, <2>1, <2>2 DEF Descriptors
      <3> QED BY <2>2, <3>1, FS_EmptySet
    <2>3. CASE fdt[d] # None
      <3>1. PICK u \in Task, f \in File : filp[u][f] = d
        BY <1>1, <2>3 DEF Descriptors
      <3>2. ASSUME NEW x \in refs PROVE x = <<u, f>>
        <4>1. PICK v \in Task, h \in File : x = <<v, h>>
          BY <3>2
        <4>2. filp[v][h] = d
          BY <3>2, <4>1
        <4> QED BY <1>1, <2>1, <3>1, <4>1, <4>2 DEF Descriptors
      <3>3. refs = {<<u, f>>}
        BY <3>1, <3>2
      <3> QED BY <2>3, <3>3, FS_Singleton
    <2> QED BY <2>2, <2>3
  <1> QED BY <1>2, <1>3, <1>4

\* Between calls, get_inode, put_inode, simple_ext2_open and simple_ext2_close
\* have left the tables in agreement: an inode is in memory once and counts its
\* descriptors, and a descriptor belongs to one open file.
THEOREM TablesAlwaysSound == Spec => []TablesSound
  BY Ext2Invariant, TablesAreSound, PTL

LEMMA TableIsOnCard == Ext2Inv => TableOnCard
  <1> SUFFICES ASSUME Ext2State, Quiet, NEW s \in Slot, itab[s].cnt # 0
               PROVE  dinode[itab[s].num] = Inode(itab[s].size, itab[s].start)
    BY DEF Ext2Inv, TableOnCard
  <1> QED BY QuietTables DEF Table

\* Between calls, the card has what memory has: simple_ext2_close may drop an
\* inode without writing it.
THEOREM TableAlwaysOnCard == Spec => []TableOnCard
  BY Ext2Invariant, TableIsOnCard, PTL

-----------------------------------------------------------------------------
(* Files, as FileNames has them                                            *)

FilesNow == {dir[g].name : g \in {x \in Index : x < itab[0].size}}
                \ ({None, Dot} \cup {call[t].name : t \in {u \in Task : Making(u)}})
OpenNow  == [t \in Task |-> [f \in File |->
                IF filp[t][f] = None THEN None
                ELSE IF fdt[filp[t][f]] = None THEN None ELSE NameOf(fdt[filp[t][f]])]]
AskNow   == [t \in Task |-> IF call[t].name = None THEN None
                           ELSE [name |-> call[t].name, create |-> call[t].create]]

LEMMA FileActions ==
    /\ FileNames!FilesInit <=> /\ FilesNow = {}
                               /\ OpenNow = [t \in Task |-> [f \in File |-> None]]
                               /\ AskNow = [t \in Task |-> None]
    /\ \A t \in Task, n \in Name, create \in BOOLEAN :
          FileNames!Ask(t, n, create) <=>
              /\ AskNow[t] = None
              /\ AskNow' = [AskNow EXCEPT ![t] = [name |-> n, create |-> create]]
              /\ UNCHANGED <<FilesNow, OpenNow>>
    /\ \A t \in Task, f \in File :
          FileNames!Grant(t, f) <=>
              /\ AskNow[t] # None
              /\ AskNow[t].create <=> AskNow[t].name \notin FilesNow
              /\ OpenNow[t][f] = None
              /\ FilesNow' = FilesNow \cup {AskNow[t].name}
              /\ OpenNow' = [OpenNow EXCEPT ![t][f] = AskNow[t].name]
              /\ AskNow' = [AskNow EXCEPT ![t] = None]
    /\ \A t \in Task :
          FileNames!Refuse(t) <=>
              /\ AskNow[t] # None
              /\ AskNow[t].create <=> AskNow[t].name \in FilesNow
              /\ AskNow' = [AskNow EXCEPT ![t] = None]
              /\ UNCHANGED <<FilesNow, OpenNow>>
    /\ \A t \in Task, f \in File :
          FileNames!Close(t, f) <=>
              /\ AskNow[t] = None
              /\ OpenNow[t][f] # None
              /\ OpenNow' = [OpenNow EXCEPT ![t][f] = None]
              /\ UNCHANGED <<FilesNow, AskNow>>
    /\ FileNames!Format <=>
          /\ FilesNow' = {}
          /\ OpenNow' = [t \in Task |-> [f \in File |-> None]]
          /\ AskNow' = [t \in Task |-> None]
    /\ UNCHANGED FileNames!fileVars <=> UNCHANGED <<FilesNow, OpenNow, AskNow>>
  <1> USE DEF FilesNow, OpenNow, AskNow
  <1>1. FileNames!FilesInit <=> /\ FilesNow = {}
                                /\ OpenNow = [t \in Task |-> [f \in File |-> None]]
                                /\ AskNow = [t \in Task |-> None]
    BY Zenon DEF FileNames!FilesInit
  <1>2. \A t \in Task, n \in Name, create \in BOOLEAN :
           FileNames!Ask(t, n, create) <=>
              /\ AskNow[t] = None
              /\ AskNow' = [AskNow EXCEPT ![t] = [name |-> n, create |-> create]]
              /\ UNCHANGED <<FilesNow, OpenNow>>
    BY Zenon DEF FileNames!Ask
  <1>3. \A t \in Task, f \in File :
           FileNames!Grant(t, f) <=>
              /\ AskNow[t] # None
              /\ AskNow[t].create <=> AskNow[t].name \notin FilesNow
              /\ OpenNow[t][f] = None
              /\ FilesNow' = FilesNow \cup {AskNow[t].name}
              /\ OpenNow' = [OpenNow EXCEPT ![t][f] = AskNow[t].name]
              /\ AskNow' = [AskNow EXCEPT ![t] = None]
    BY Zenon DEF FileNames!Grant
  <1>4. \A t \in Task :
           FileNames!Refuse(t) <=>
              /\ AskNow[t] # None
              /\ AskNow[t].create <=> AskNow[t].name \in FilesNow
              /\ AskNow' = [AskNow EXCEPT ![t] = None]
              /\ UNCHANGED <<FilesNow, OpenNow>>
    BY Zenon DEF FileNames!Refuse
  <1>5. \A t \in Task, f \in File :
           FileNames!Close(t, f) <=>
              /\ AskNow[t] = None
              /\ OpenNow[t][f] # None
              /\ OpenNow' = [OpenNow EXCEPT ![t][f] = None]
              /\ UNCHANGED <<FilesNow, AskNow>>
    BY Zenon DEF FileNames!Close
  <1>6. FileNames!Format <=>
          /\ FilesNow' = {}
          /\ OpenNow' = [t \in Task |-> [f \in File |-> None]]
          /\ AskNow' = [t \in Task |-> None]
    BY Zenon DEF FileNames!Format
  <1>7. UNCHANGED FileNames!fileVars <=> UNCHANGED <<FilesNow, OpenNow, AskNow>>
    BY Zenon DEF FileNames!fileVars
  <1> QED BY <1>1, <1>2, <1>3, <1>4, <1>5, <1>6, <1>7

\* The files are what the card lists; one that is being made is not there yet.
Stored(t) == {dir[g].name : g \in Old}
                \ ({Dot} \cup {n \in {call[t].name} : call[t].create /\ call[t].at = "claim"})

LEMMA FilesAre ==
    ASSUME Ext2Types, NEW t \in Task, Lone(t), Sound(t)
    PROVE  FilesNow = Stored(t)
  <1> DEFINE c == call[t]
             all == {x \in Index : x < itab[0].size}
             made == {call[u].name : u \in {v \in Task : Making(v)}}
  <1>1. Size \in Nat /\ Old \subseteq Index /\ Index \subseteq Nat
    BY Numbers, Indices
  <1>2. itab[0].size = IF Grown(t) THEN Size + 1 ELSE Size
    BY DEF Sound, Table
  <1>3. \A n : n \in made <=> Making(t) /\ n = c.name
    <2>1. \A u \in Task \ {t} : ~Making(u)
      BY DEF Lone, Making, Idle
    <2> QED BY <2>1
  <1>4. \A g \in Old : dir[g].name # None
    BY <1>1, Constants DEF Sound, Card, Entries
  <1>5. CASE ~Grown(t)
    <2>1. all = Old
      <3>1. ASSUME NEW g \in Nat PROVE g < Size <=> g \in Old
        BY <1>1 DEF Old
      <3> QED BY <1>1, <1>2, <1>5, <3>1
    <2>2. Making(t) <=> c.create /\ c.at = "claim"
      <3>1. c.at = "claim" => (c.create <=> c.then = "open")
        BY DEF Sound, Where, Claiming
      <3>2. c.at # "claim" /\ c.create => c.then # "open"
        <4>1. c.at \in Point /\ c \in Calls
          BY CallType DEF Calls
        <4>2. c.at \in Syncing => c.then # "open"
          BY <1>5 DEF Grown
        <4>3. c.at = "idle" => ~c.create
          BY DEF Sound, Where, Idling, Idle
        <4>4. c.at \in {"search", "look", "imap", "imapset", "imapwrite", "smap", "smapset", "smapwrite"} => c.then = "idle"
          BY DEF Sound, Where, Searching, Marking, Taking
        <4>5. c.at \in {"get", "load", "take", "new", "dir", "dirset", "dirwrite"} => c.then # "open"
          BY DEF Sound, Where, Getting, Entering
        <4>6. c.at \in {"data", "datause"} => ~c.create
          BY DEF Sound, Where, Using
        <4> QED BY <4>1, <4>2, <4>3, <4>4, <4>5, <4>6 DEF Point
      <3> QED BY <3>1, <3>2 DEF Making
    <2> HIDE DEF all, made
    <2>3. FilesNow = {dir[g].name : g \in all} \ ({None, Dot} \cup made)
      BY DEF FilesNow, all, made
    <2> QED BY <1>3, <1>4, <2>1, <2>2, <2>3 DEF Stored
  <1>6. CASE Grown(t)
    <2>0. PICK n : n = Size
      OBVIOUS
    <2>1. c.create /\ c.at # "claim" /\ n \in Index
      <3>1. c.create /\ c.at # "claim"
        BY <1>6 DEF Grown, Sound, Where, Entering, Syncs, New, Fresh, Syncing
      <3>2. Pending(t)
        BY <1>6, <3>1 DEF Grown, Pending, Syncing
      <3>3. Size + 1 \in Ino
        BY <3>2, Numbers
      <3>4. n \in 0 .. ImapBits
        BY <1>1, <2>0, <3>3, Constants DEF Ino
      <3> QED BY <3>1, <3>4, Indices
    <2>2. all = Old \cup {n}
      <3>1. ASSUME NEW g \in Nat PROVE g < Size + 1 <=> g \in Old \cup {n}
        BY <1>1, <2>0 DEF Old
      <3> QED BY <1>1, <1>2, <1>6, <2>1, <3>1
    <2>3. CASE c.at = "dirwrite"
      <3>1. dir[n].name = None /\ c.then = "dir"
        BY <2>0, <2>3 DEF Sound, Where, Entering, Blank
      <3>2. ~Making(t)
        BY <2>3, <3>1 DEF Making
      <3> HIDE DEF all, made
      <3>3. FilesNow = {dir[g].name : g \in all} \ ({None, Dot} \cup made)
        BY DEF FilesNow, all, made
      <3> QED BY <1>3, <1>4, <2>1, <2>2, <3>1, <3>2, <3>3 DEF Stored
    <2>4. CASE c.at \in Syncing /\ c.then = "open"
      <3>1. dir[n].name = c.name /\ \A g \in Old : dir[g].name # c.name
        BY <2>0, <2>4 DEF Sound, Where, Syncs, Entry, New, Fresh
      <3>2. Making(t)
        BY <2>1, <2>4 DEF Making
      <3> HIDE DEF all, made
      <3>3. FilesNow = {dir[g].name : g \in all} \ ({None, Dot} \cup made)
        BY DEF FilesNow, all, made
      <3>4. \A x : x \in FilesNow <=> (\E g \in Old : x = dir[g].name) /\ x # Dot
        BY <1>3, <1>4, <2>2, <3>1, <3>2, <3>3
      <3>5. \A x : x \in Stored(t) <=> (\E g \in Old : x = dir[g].name) /\ x # Dot
        BY <2>1 DEF Stored
      <3> QED BY <3>3, <3>4, <3>5 DEF Stored
    <2> QED BY <1>6, <2>3, <2>4 DEF Grown
  <1> QED BY <1>5, <1>6

\* A slot that a descriptor stands for has a listed file.
LEMMA UsedSlot ==
    ASSUME Ext2Types, NEW t \in Task, Sound(t), NEW d \in Desc, fdt[d] # None
    PROVE  /\ fdt[d] \in Slot \ {0} /\ itab[fdt[d]].cnt # 0 /\ itab[fdt[d]].num \in 2 .. Size
           /\ itab[fdt[d]].num - 1 \in Old
  <1>1. PICK s \in Slot \ {0} : s = fdt[d]
    BY DEF Ext2Types
  <1>2. Cardinality(Users(s)) \in Nat /\ Cardinality(Users(s)) # 0
    <2>1. IsFiniteSet(Users(s)) /\ Users(s) # {} /\ Cardinality(Users(s)) \in Nat
      BY <1>1, UsersFinite DEF Users
    <2> QED BY <2>1, FS_EmptySet
  <1>3. itab[s].cnt = Cardinality(Users(s)) + (IF Keeps(t, s) THEN 1 ELSE 0)
    BY DEF Sound, Table
  <1>4. itab[s].cnt # 0
    BY <1>2, <1>3
  <1>5. ~(Pending(t) /\ Keeps(t, s))
    <2> SUFFICES ASSUME Pending(t), Keeps(t, s) PROVE FALSE
      OBVIOUS
    <2>1. itab[s].cnt = 1
      BY DEF Pending, Keeps, Sound, Where, Getting, Syncs, Entering, InSlot, Syncing
    <2> QED BY <1>2, <1>3, <2>1
  <1>6. itab[s].num \in 1 .. Size
    BY <1>4, <1>5 DEF Sound, Table
  <1>7. itab[s].num # 1
    <2>1. itab[0].num = 1 /\ itab[0].cnt # 0 /\ 0 \in Slot
      BY Constants DEF Sound, Table, Root
    <2> QED BY <1>4, <2>1 DEF Sound, Table
  <1>8. itab[s].num \in 2 .. Size /\ itab[s].num - 1 \in Old
    BY <1>6, <1>7, SizeType DEF Old
  <1> QED BY <1>1, <1>4, <1>8

\* The entry of a file is found by its inode number.
LEMMA NameIs ==
    ASSUME Ext2Types, NEW t \in Task, Sound(t), NEW s \in Slot, itab[s].num \in 2 .. Size
    PROVE  NameOf(s) = dir[itab[s].num - 1].name /\ NameOf(s) # None
  <1> DEFINE n == itab[s].num
             g == CHOOSE x \in Index : dir[x].ino = n
  <1>1. /\ \A x \in Index : x \in Nat /\ (dir[x].ino = 0 \/ dir[x].ino = x + 1)
        /\ \A x \in Old : dir[x].ino = x + 1 /\ dir[x].name # None /\ x \in Index
    <2>1. Index \subseteq Nat /\ Old \subseteq Index
      BY Indices, Numbers
    <2>2. Entries
      BY DEF Sound, Card
    <2>3. ASSUME NEW x \in Index PROVE dir[x].ino = 0 \/ dir[x].ino = x + 1
      <3>1. dir[x] = Blank \/ dir[x].ino = x + 1
        BY <2>2 DEF Entries
      <3>2. Blank.ino = 0
        BY DEF Blank
      <3> QED BY <3>1, <3>2
    <2>4. ASSUME NEW x \in Old PROVE dir[x].ino = x + 1 /\ dir[x].name # None
      BY <2>1, <2>2 DEF Entries
    <2> QED BY <2>1, <2>3, <2>4
  <1>2. n - 1 \in Old /\ n \in Nat /\ n # 0 /\ (n - 1) + 1 = n
    BY SizeType DEF Old
  <1>3. g \in Index /\ dir[g].ino = n
    BY <1>1, <1>2
  <1> HIDE DEF g, n
  <1>4. g = n - 1
    BY <1>1, <1>2, <1>3
  <1>5. NameOf(s) = dir[g].name
    BY DEF NameOf, g, n
  <1> QED BY <1>1, <1>2, <1>4, <1>5 DEF n

\* What each descriptor stands for
Opened(u, f) == IF filp[u][f] = None THEN None ELSE dir[itab[fdt[filp[u][f]]].num - 1].name
LEMMA OpenIs ==
    ASSUME Ext2Types, NEW t \in Task, Sound(t)
    PROVE  /\ OpenNow = [u \in Task |-> [f \in File |-> Opened(u, f)]]
           /\ \A u \in Task, f \in File : filp[u][f] # None => Opened(u, f) # None
  <1>1. ASSUME NEW u \in Task, NEW f \in File
        PROVE  /\ (IF filp[u][f] = None THEN None
                   ELSE IF fdt[filp[u][f]] = None THEN None ELSE NameOf(fdt[filp[u][f]])) = Opened(u, f)
               /\ filp[u][f] # None => Opened(u, f) # None
    <2>1. CASE filp[u][f] = None
      BY <2>1 DEF Opened
    <2>2. CASE filp[u][f] # None
      <3>1. PICK d \in Desc : d = filp[u][f]
        BY <2>2 DEF Ext2Types
      <3>2. fdt[d] # None
        BY <2>2, <3>1 DEF Sound, Descriptors
      <3>3. fdt[d] \in Slot /\ itab[fdt[d]].num \in 2 .. Size
        BY <3>2, UsedSlot
      <3>4. NameOf(fdt[d]) = dir[itab[fdt[d]].num - 1].name /\ NameOf(fdt[d]) # None
        BY <3>3, NameIs
      <3> QED BY <2>2, <3>1, <3>2, <3>4 DEF Opened
    <2> QED BY <2>1, <2>2
  <1> QED BY <1>1 DEF OpenNow

-----------------------------------------------------------------------------
(* Steps of open and close, as FileNames has them                          *)

Handles == [u \in Task |-> [f \in File |-> Opened(u, f)]]
Seen(t) == Ext2Types /\ Lone(t) /\ Sound(t) /\ FilesNow = Stored(t) /\ OpenNow = Handles
SeenByAll == \A t \in Task : Ext2State /\ (call[t].at # "idle" \/ Alone(t)) => ~wild /\ Seen(t)

LEMMA SeenAll == SeenByAll
  <1> SUFFICES ASSUME NEW t \in Task, Ext2State, call[t].at # "idle" \/ Alone(t)
               PROVE  ~wild /\ Seen(t)
    BY DEF SeenByAll
  <1>1. ~wild /\ Ext2Types /\ Lone(t) /\ Sound(t)
    BY Owner
  <1>2. FilesNow = Stored(t) /\ OpenNow = Handles
    BY <1>1, FilesAre, OpenIs DEF Handles
  <1> QED BY <1>1, <1>2 DEF Seen

LEMMA SeenAllNext == SeenByAll'
  BY SeenAll, PTL

\* The calls of all others are where they were.
Steps(t) == \A u \in Task \ {t} : call'[u] = call[u]

LEMMA SeenNext ==
    ASSUME Ext2State', NEW t \in Task, Seen(t), Steps(t)
    PROVE  Seen(t)'
  <1>1. Alone(t)'
    BY DEF Alone, Seen, Lone, Steps, Idle
  <1> QED BY <1>1, SeenAllNext DEF SeenByAll

Asked(e) == IF e.name = None THEN None ELSE [name |-> e.name, create |-> e.create]
LEMMA AskChange ==
    ASSUME NEW t \in Task, Steps(t)
    PROVE  AskNow' = [AskNow EXCEPT ![t] = Asked(call'[t])] /\ AskNow[t] = Asked(call[t])
  BY DEF AskNow, Steps, Asked

\* A new file counts from the moment its call returns.
Settling(e) == e.create /\ e.at = "claim"
LEMMA FilesSame ==
    ASSUME Ext2State', NEW t \in Task, Seen(t), Steps(t),
           Old' = Old, \A g \in Old : dir'[g].name = dir[g].name,
           ~Settling(call[t]), ~Settling(call'[t])
    PROVE  FilesNow' = FilesNow
  <1>1. FilesNow = Stored(t) /\ FilesNow' = Stored(t)'
    BY SeenNext DEF Seen
  <1>2. Stored(t)' = Stored(t)
    BY DEF Stored, Settling
  <1> QED BY <1>1, <1>2

LEMMA OpenSame ==
    ASSUME Ext2State', NEW t \in Task, Seen(t), Steps(t),
           \A g \in Old : dir'[g].name = dir[g].name, UNCHANGED <<fdt, filp>>,
           \A d \in Desc : fdt[d] # None => itab'[fdt[d]].num = itab[fdt[d]].num
    PROVE  OpenNow' = OpenNow
  <1>1. OpenNow = Handles /\ OpenNow' = Handles' /\ Ext2Types /\ Sound(t)
    BY SeenNext DEF Seen
  <1>2. ASSUME NEW u \in Task, NEW f \in File PROVE Opened(u, f)' = Opened(u, f)
    <2>1. CASE filp[u][f] = None
      BY <2>1 DEF Opened
    <2>2. CASE filp[u][f] # None
      <3>1. PICK d \in Desc : d = filp[u][f]
        BY <1>1, <2>2 DEF Ext2Types
      <3>2. fdt[d] # None
        BY <1>1, <2>2, <3>1 DEF Sound, Descriptors
      <3>3. itab[fdt[d]].num - 1 \in Old
        BY <1>1, <3>2, UsedSlot
      <3>4. dir'[itab'[fdt[d]].num - 1].name = dir[itab[fdt[d]].num - 1].name
        BY <3>2, <3>3
      <3> QED BY <2>2, <3>1, <3>4 DEF Opened
    <2> QED BY <2>1, <2>2
  <1> QED BY <1>1, <1>2 DEF Handles

Unseen == UNCHANGED <<FilesNow, OpenNow, AskNow>>
LEMMA Silent ==
    ASSUME Ext2State', NEW t \in Task, Seen(t), Steps(t),
           Old' = Old, \A g \in Old : dir'[g].name = dir[g].name, UNCHANGED <<fdt, filp>>,
           \A d \in Desc : fdt[d] # None => itab'[fdt[d]].num = itab[fdt[d]].num,
           ~Settling(call[t]), ~Settling(call'[t]), Asked(call'[t]) = Asked(call[t])
    PROVE  Unseen
  <1>1. AskNow' = [AskNow EXCEPT ![t] = AskNow[t]] /\ AskNow \in [Task -> {AskNow[u] : u \in Task}]
    <2>1. AskNow = [u \in Task |-> AskNow[u]]
      BY DEF AskNow
    <2> QED BY <2>1, AskChange
  <1>2. AskNow' = AskNow
    BY <1>1
  <1> QED BY <1>2, FilesSame, OpenSame DEF Unseen

\* Most steps of a call
LEMMA Moved ==
    ASSUME Ext2Types, NEW t \in Task, NEW l, NEW e, Goto(t, l, e),
           DOMAIN e = DOMAIN call[t], e.name = call[t].name, e.create = call[t].create
    PROVE  Steps(t) /\ call'[t].at = l /\ Asked(call'[t]) = Asked(call[t])
  <1>1. call[t] \in Calls
    BY CallType
  <1>2. DOMAIN call[t] = {"at", "name", "create", "fd", "d", "i", "n", "ino", "pin", "left", "start", "then"}
    BY <1>1 DEF Calls
  <1>3. call' = [call EXCEPT ![t] = [e EXCEPT !.at = l]] /\ DOMAIN call = Task
    BY DEF Goto, Ext2Types
  <1> QED BY <1>2, <1>3 DEF Steps, Asked

LEMMA SilentMove ==
    ASSUME Ext2State', NEW t \in Task, Seen(t), NEW l, NEW e, Goto(t, l, e),
           DOMAIN e = DOMAIN call[t], e.name = call[t].name, e.create = call[t].create,
           call[t].at # "claim", l # "claim" \/ ~call[t].create,
           Old' = Old, \A g \in Old : dir'[g].name = dir[g].name, UNCHANGED <<fdt, filp>>,
           \A d \in Desc : fdt[d] # None => itab'[fdt[d]].num = itab[fdt[d]].num
    PROVE  Unseen
  <1>1. Steps(t) /\ call'[t].at = l /\ Asked(call'[t]) = Asked(call[t])
    BY Moved DEF Seen
  <1>2. ~Settling(call[t]) /\ ~Settling(call'[t])
    <2>1. call'[t] = [e EXCEPT !.at = l]
      BY DEF Goto, Seen, Ext2Types
    <2>2. "create" \in DOMAIN e
      BY CallType DEF Seen, Calls
    <2>3. call'[t].create = call[t].create
      BY <2>1, <2>2
    <2> QED BY <1>1, <2>3 DEF Settling
  <1> QED BY <1>1, <1>2, Silent

\* Sectors are read, bits taken, the inode is fetched, made and written, and
\* the directory searched further and extended: no file is there yet, ...
LEMMA SameFiles ==
    UNCHANGED <<dinode, dir>> => Old' = Old /\ \A g \in Old : dir'[g].name = dir[g].name
  BY DEF Old, Size

LEMMA ReadsSilent ==
    ASSUME Ext2State', NEW t \in Task, Seen(t),
           \/ SearchRead(t) \/ ImapRead(t) \/ SmapRead(t) \/ LoadRead(t)
           \/ SyncRead(t) \/ DirRead(t) \/ DataRead(t)
    PROVE  Unseen
  <1>1. PICK l \in Point \ {"claim"} : Goto(t, l, call[t]) /\ call[t].at # "claim" /\ UNCHANGED <<card, tables>>
    BY DEF SearchRead, ImapRead, SmapRead, LoadRead, SyncRead, DirRead, DataRead, ReadDir, Reads, At,
           Point, Syncing
  <1> QED BY <1>1, SameFiles, SilentMove DEF card, tables

LEMMA BitsSilent ==
    ASSUME Ext2State', NEW t \in Task, Seen(t),
           ImapSet(t) \/ ImapWrite(t) \/ SmapSet(t) \/ SmapWrite(t)
    PROVE  Unseen
  <1> DEFINE c == call[t]
  <1>0. c \in Calls
    BY CallType DEF Seen
  <1>1. PICK l, e : /\ Goto(t, l, e) /\ l # "claim" /\ c.at # "claim" /\ UNCHANGED <<dinode, dir, tables>>
                    /\ DOMAIN e = DOMAIN c /\ e.name = c.name /\ e.create = c.create
    <2>1. CASE ImapSet(t)
      BY <1>0, <2>1 DEF ImapSet, Uses, At, card, Calls
    <2>2. CASE ImapWrite(t)
      BY <1>0, <2>2 DEF ImapWrite, Uses, At, Calls
    <2>3. CASE SmapSet(t)
      <3> DEFINE from == IF c.start # 0 THEN c.i * SectBits ELSE Least(BitsOf(c.i) \ buf.val)
                 take == {b \in BitsOf(c.i) : from <= b /\ b < from + c.left}
                 m    == Cardinality(take)
                 f    == [c EXCEPT !.start = IF @ = 0 THEN from ELSE @, !.left = @ - m]
                 h    == [c EXCEPT !.i = @ + 1]
      <3>1. /\ c.at = "smapset" /\ UNCHANGED <<dinode, dir, tables>>
            /\ Goto(t, "get", h) \/ Goto(t, "smap", h) \/ Goto(t, "smapwrite", f)
        BY <2>3, Zenon DEF SmapSet, Uses, At, card
      <3>2. DOMAIN h = DOMAIN c /\ h.name = c.name /\ h.create = c.create
        BY <1>0 DEF Calls
      <3>3. DOMAIN f = DOMAIN c /\ f.name = c.name /\ f.create = c.create
        <4> HIDE DEF from, m
        <4> QED BY <1>0 DEF Calls
      <3> HIDE DEF f, h
      <3> QED BY <3>1, <3>2, <3>3
    <2>4. CASE SmapWrite(t)
      BY <1>0, <2>4 DEF SmapWrite, Uses, At, Calls
    <2> QED BY <2>1, <2>2, <2>3, <2>4
  <1> QED BY <1>1, SameFiles, SilentMove DEF tables

LEMMA InodeSilent ==
    ASSUME Ext2State', NEW t \in Task, Seen(t),
           GetHit(t) \/ GetSlot(t) \/ LoadTake(t) \/ NewInode(t) \/ SyncSet(t)
    PROVE  Unseen
  <1> DEFINE c == call[t]
  <1>0. c \in Calls /\ Ext2Types /\ Sound(t)
    BY CallType DEF Seen
  <1>1. /\ UNCHANGED <<dinode, dir, fdt, filp>> /\ c.at # "claim"
        /\ \E l, e : /\ Goto(t, l, e) /\ (l # "claim" \/ ~c.create)
                     /\ DOMAIN e = DOMAIN c /\ e.name = c.name /\ e.create = c.create
    <2>1. CASE GetHit(t)
      BY <1>0, <2>1 DEF GetHit, At, card, Calls
    <2>2. CASE GetSlot(t)
      BY <1>0, <2>2 DEF GetSlot, At, card, Calls
    <2>3. CASE LoadTake(t)
      BY <1>0, <2>3 DEF LoadTake, Uses, At, card, Calls
    <2>4. CASE NewInode(t)
      <3> DEFINE e == [c EXCEPT !.then = "dir", !.i = 0]
      <3>1. /\ UNCHANGED <<dinode, dir, fdt, filp>> /\ c.at = "new" /\ Goto(t, "sync", e)
        BY <2>4 DEF NewInode, At, card
      <3>2. DOMAIN e = DOMAIN c /\ e.name = c.name /\ e.create = c.create
        BY <1>0 DEF Calls
      <3> HIDE DEF e
      <3> QED BY <3>1, <3>2
    <2>5. CASE SyncSet(t)
      BY <1>0, <2>5 DEF SyncSet, Uses, At, card, tables, Calls
    <2> QED BY <2>1, <2>2, <2>3, <2>4, <2>5
  <1>2. \A s \in Slot : itab[s].cnt # 0 => itab'[s].num = itab[s].num
    <2>0. itab \in [Slot -> Slots]
      BY <1>0 DEF Ext2Types
    <2>1. CASE GetHit(t)
      BY <2>0, <2>1 DEF GetHit, Slots
    <2>2. CASE GetSlot(t)
      <3>1. /\ FreeSlots # {}
            /\ itab' = [itab EXCEPT ![Least(FreeSlots)].num = c.ino, ![Least(FreeSlots)].cnt = 1]
        BY <2>2 DEF GetSlot
      <3>2. Least(FreeSlots) \in FreeSlots
        BY <3>1, LeastIn, Constants DEF FreeSlots
      <3>3. itab[Least(FreeSlots)].cnt = 0
        BY <3>2 DEF FreeSlots
      <3> QED BY <2>0, <3>1, <3>3 DEF Slots
    <2>3. CASE LoadTake(t)
      BY <2>0, <2>3 DEF LoadTake, Slots
    <2>4. CASE NewInode(t)
      <3>1. c.at = "new" /\ itab' = [itab EXCEPT ![c.pin] = [num |-> c.ino, cnt |-> 1, size |-> 0, start |-> c.start]]
        BY <2>4 DEF NewInode, At
      <3>2. itab[c.pin].num = c.ino
        BY <1>0, <3>1 DEF Sound, Where, Getting
      <3> QED BY <2>0, <3>1, <3>2
    <2>5. CASE SyncSet(t)
      BY <2>5 DEF SyncSet, tables
    <2> QED BY <2>1, <2>2, <2>3, <2>4, <2>5
  <1>3. \A d \in Desc : fdt[d] # None => itab'[fdt[d]].num = itab[fdt[d]].num
    BY <1>0, <1>2, UsedSlot
  <1> QED BY <1>1, <1>3, SameFiles, SilentMove

LEMMA DirSilent ==
    ASSUME Ext2State', NEW t \in Task, Seen(t), DirSet(t) \/ DirWrite(t)
    PROVE  Unseen
  <1> DEFINE c == call[t]
  <1>0. c \in Calls /\ Ext2Types /\ Sound(t) /\ itab \in [Slot -> Slots] /\ 0 \in Slot
    BY CallType, Constants DEF Seen, Ext2Types
  <1>1. CASE DirSet(t)
    <2>1. /\ UNCHANGED <<dinode, dir, fdt, filp>> /\ c.at # "claim"
          /\ \E l, e : /\ Goto(t, l, e) /\ l # "claim"
                       /\ DOMAIN e = DOMAIN c /\ e.name = c.name /\ e.create = c.create
      BY <1>0, <1>1 DEF DirSet, Uses, At, card, Calls
    <2>2. itab' = itab \/ itab' = [itab EXCEPT ![0].size = @ + 1]
      BY <1>1 DEF DirSet
    <2>3. \A s \in Slot : itab'[s].num = itab[s].num
      BY <1>0, <2>2 DEF Slots
    <2>4. \A d \in Desc : fdt[d] # None => itab'[fdt[d]].num = itab[fdt[d]].num
      BY <1>0, <2>3, UsedSlot
    <2> QED BY <2>1, <2>4, SameFiles, SilentMove
  <1>2. CASE DirWrite(t)
    <2> DEFINE e == [c EXCEPT !.then = "open", !.left = c.pin, !.pin = 0]
    <2>1. /\ UNCHANGED <<dinode, tables>> /\ c.at = "dirwrite" /\ Goto(t, "sync", e)
          /\ dir' = [g \in Index |-> IF g \in EntriesOf(c.i) THEN buf.val[g] ELSE dir[g]]
      BY <1>2 DEF DirWrite, Uses, At
    <2>2. DOMAIN e = DOMAIN c /\ e.name = c.name /\ e.create = c.create
      BY <1>0 DEF Calls
    <2>3. buf.val = [Sector(c.i) EXCEPT ![Size] = Entry(t)]
      BY <1>0, <2>1 DEF Sound, Where, Entering, BufIs
    <2>4. ASSUME NEW g \in Old PROVE dir'[g].name = dir[g].name
      <3>1. g \in Index /\ g # Size
        BY <1>0, Numbers DEF Old
      <3>2. g \in EntriesOf(c.i) => buf.val[g] = dir[g]
        BY <2>3, <3>1 DEF Sector
      <3> QED BY <2>1, <3>1, <3>2
    <2>5. Old' = Old
      BY <2>1 DEF Old, Size
    <2> HIDE DEF e
    <2> QED BY <2>1, <2>2, <2>4, <2>5, SilentMove DEF tables
  <1> QED BY <1>1, <1>2

LEMMA UsesSilent ==
    ASSUME Ext2State', NEW t \in Task, Seen(t), DataUse(t) \/ \E f \in File : UseStart(t, f)
    PROVE  Unseen
  <1> DEFINE c == call[t]
  <1>0. c \in Calls /\ Ext2Types /\ Sound(t) /\ itab \in [Slot -> Slots]
    BY CallType DEF Seen, Ext2Types
  <1>1. CASE DataUse(t)
    <2>1. /\ c.at = "datause" /\ UNCHANGED <<dinode, dir, fdt, filp>>
          /\ itab' = itab \/ itab' = [itab EXCEPT ![c.pin].size = @ + 1]
          /\ call' = [call EXCEPT ![t] = Idle] \/ Goto(t, "sync", [c EXCEPT !.then = "idle"])
      BY <1>1 DEF DataUse, Uses, At, card
    <2>2. c.name = None /\ ~c.create
      BY <1>0, <2>1 DEF Sound, Where, Using
    <2>3. Steps(t) /\ call'[t].name = None /\ ~call'[t].create
      <3>1. CASE call' = [call EXCEPT ![t] = Idle]
        BY <1>0, <3>1 DEF Steps, Ext2Types, Idle
      <3>2. CASE Goto(t, "sync", [c EXCEPT !.then = "idle"])
        <4> DEFINE e == [c EXCEPT !.then = "idle"]
        <4>1. e \in Calls /\ e.name = None /\ ~e.create /\ "sync" \in Point /\ Goto(t, "sync", e)
          BY <1>0, <2>2, <3>2 DEF Calls, Point, Syncing
        <4> HIDE DEF e
        <4>2. call' = [call EXCEPT ![t] = [e EXCEPT !.at = "sync"]]
          BY <4>1 DEF Goto
        <4>3. [e EXCEPT !.at = "sync"].name = e.name /\ [e EXCEPT !.at = "sync"].create = e.create
          BY <4>1 DEF Calls
        <4> QED BY <1>0, <4>1, <4>2, <4>3 DEF Ext2Types, Steps
      <3> QED BY <2>1, <3>1, <3>2
    <2>4. \A s \in Slot : itab'[s].num = itab[s].num
      BY <1>0, <2>1 DEF Slots
    <2>5. \A d \in Desc : fdt[d] # None => itab'[fdt[d]].num = itab[fdt[d]].num
      BY <1>0, <2>4, UsedSlot
    <2> QED BY <2>1, <2>2, <2>3, <2>5, SameFiles, Silent DEF Settling, Asked
  <1>2. CASE \E f \in File : UseStart(t, f)
    <2>1. PICK s : c.at = "idle" /\ Goto(t, "data", [Idle EXCEPT !.pin = s]) /\ UNCHANGED <<card, tables>>
      BY <1>2 DEF UseStart, Begin, At
    <2>2. c = Idle
      BY <1>0, <2>1 DEF Sound, Where, Idling
    <2>3. c.name = None /\ ~c.create /\ Steps(t) /\ call'[t].name = None /\ ~call'[t].create
      BY <1>0, <2>1, <2>2 DEF Goto, Steps, Ext2Types, Idle
    <2> QED BY <2>1, <2>3, SameFiles, Silent DEF Settling, Asked, card, tables
  <1> QED BY <1>1, <1>2

LEMMA SizeTypeNext == Ext2Types' => Size' \in Nat
  BY Constants DEF Ext2Types, Size, Inodes

\* ... and when the directory counts its entry in its own inode, the call has
\* still to return.
LEMMA SyncSilent ==
    ASSUME Ext2State', NEW t \in Task, Seen(t), SyncWrite(t)
    PROVE  Unseen
  <1> DEFINE c == call[t]
  <1>0. c \in Calls /\ Ext2Types /\ Sound(t) /\ Lone(t)
    BY CallType DEF Seen
  <1>1. c.at = "syncwrite" /\ UNCHANGED <<imap, dir, tables>>
    BY DEF SyncWrite, Uses, At
  <1>2. /\ c.then = "dir"  => Goto(t, "dir", [c EXCEPT !.n = itab[0].size])
        /\ c.then = "open" => Goto(t, "claim", [c EXCEPT !.pin = c.left])
        /\ c.then = "idle" => call' = [call EXCEPT ![t] = Idle]
    BY DEF SyncWrite
  <1>3. Steps(t)
    BY <1>0, <1>2 DEF Goto, Steps, Ext2Types, Calls
  <1>4. Seen(t)'
    BY <1>3, SeenNext
  <1>5. imap = 0 .. (IF Pending(t) THEN Size + 1 ELSE Size) /\ imap' = 0 .. (IF Pending(t)' THEN Size' + 1 ELSE Size')
    BY <1>0, <1>4 DEF Seen, Sound, Card
  <1>6. Size \in Nat /\ Size' \in Nat
    BY <1>0, <1>4, SizeType, SizeTypeNext DEF Seen
  <1>7. \A d \in Desc : fdt[d] # None => itab'[fdt[d]].num = itab[fdt[d]].num
    BY <1>1 DEF tables
  <1>8. CASE c.then = "dir"
    <2> DEFINE e == [c EXCEPT !.n = itab[0].size]
    <2>1. DOMAIN e = DOMAIN c /\ e.name = c.name /\ e.create = c.create /\ Goto(t, "dir", e)
      BY <1>0, <1>2, <1>8 DEF Calls
    <2> HIDE DEF e
    <2>2. c.create
      BY <1>0, <1>1, <1>8 DEF Sound, Where, Syncs, New, Fresh, Syncing
    <2>3. call'[t].at = "dir" /\ call'[t].create
      <3>1. call'[t] = [e EXCEPT !.at = "dir"] /\ DOMAIN e = DOMAIN c
        BY <1>0, <2>1 DEF Goto, Ext2Types
      <3> QED BY <1>0, <2>1, <2>2, <3>1 DEF Calls
    <2>4. Pending(t) /\ Pending(t)'
      BY <1>1, <2>2, <2>3 DEF Pending, Syncing
    <2>5. Old' = Old
      BY <1>1, <1>5, <1>6, <2>4 DEF Old
    <2> QED BY <1>1, <1>7, <2>1, <2>5, SilentMove DEF tables
  <1>9. CASE c.then = "idle"
    <2>1. c.name = None /\ ~c.create /\ call'[t] = Idle
      BY <1>0, <1>1, <1>2, <1>9 DEF Sound, Where, Syncs, Ext2Types, Syncing
    <2>2. ~Pending(t) /\ ~Pending(t)'
      BY <2>1 DEF Pending, Idle
    <2>3. Old' = Old
      BY <1>1, <1>5, <1>6, <2>2 DEF Old
    <2>4. ~Settling(c) /\ ~Settling(call'[t]) /\ Asked(call'[t]) = Asked(c)
      BY <2>1 DEF Settling, Asked, Idle
    <2> QED BY <1>1, <1>3, <1>7, <2>3, <2>4, Silent DEF tables
  <1>10. CASE c.then = "open"
    <2> DEFINE e == [c EXCEPT !.pin = c.left]
    <2>1. DOMAIN e = DOMAIN c /\ e.name = c.name /\ e.create = c.create /\ Goto(t, "claim", e)
      BY <1>0, <1>2, <1>10 DEF Calls
    <2> HIDE DEF e
    <2>2. PICK n : n = Size
      OBVIOUS
    <2>3. c.create /\ (\A g \in Old : dir[g].name # c.name) /\ dir[n].name = c.name
      BY <1>0, <1>1, <1>10, <2>2 DEF Sound, Where, Syncs, New, Fresh, Syncing, Entry
    <2>4. call'[t].at = "claim" /\ call'[t].create /\ call'[t].name = c.name
      <3>1. call'[t] = [e EXCEPT !.at = "claim"] /\ DOMAIN e = DOMAIN c
        BY <1>0, <2>1 DEF Goto, Ext2Types
      <3> QED BY <1>0, <2>1, <2>3, <3>1 DEF Calls
    <2>5. Pending(t) /\ ~Pending(t)'
      BY <1>1, <2>3, <2>4 DEF Pending, Syncing
    <2>6. Size' = n + 1 /\ n \in Nat /\ Old = 0 .. n - 1
      BY <1>1, <1>5, <1>6, <2>2, <2>5 DEF Old
    <2>7. Old' = Old \cup {n}
      <3>1. Old' = 0 .. n
        BY <2>6 DEF Old
      <3> QED BY <2>6, <3>1
    <2>8. FilesNow = Stored(t) /\ FilesNow' = Stored(t)'
      BY <1>4 DEF Seen
    <2>9. \A x : x \in Stored(t) <=> (\E g \in Old : x = dir[g].name) /\ x # Dot
      BY <1>1 DEF Stored
    <2>10. \A x : x \in Stored(t)' <=> (\E g \in Old \cup {n} : x = dir[g].name) /\ x # Dot /\ x # c.name
      BY <1>1, <2>4, <2>7 DEF Stored
    <2>11. FilesNow' = FilesNow
      <3>1. \A x : x \in Stored(t)' <=> x \in Stored(t)
        BY <2>3, <2>9, <2>10
      <3> QED BY <2>8, <3>1 DEF Stored
    <2>12. OpenNow' = OpenNow
      BY <1>1, <1>3, <1>7, OpenSame DEF tables
    <2>13. AskNow' = AskNow
      <3>0. Asked(call'[t]) = Asked(c)
        BY <2>3, <2>4 DEF Asked
      <3>1. AskNow' = [AskNow EXCEPT ![t] = AskNow[t]]
        BY <1>3, <3>0, AskChange
      <3>2. AskNow = [u \in Task |-> AskNow[u]]
        BY DEF AskNow
      <3> QED BY <3>1, <3>2
    <2> QED BY <2>11, <2>12, <2>13 DEF Unseen
  <1>11. c.then \in {"idle", "dir", "open"}
    BY <1>0 DEF Calls
  <1> QED BY <1>8, <1>9, <1>10, <1>11

\* open begins with a request, ...
LEMMA OpenAsks ==
    ASSUME Ext2State', NEW t \in Task, Seen(t), NEW n \in Name, NEW create \in BOOLEAN, OpenStart(t, n, create)
    PROVE  FileNames!Ask(t, n, create)
  <1> DEFINE e == [Idle EXCEPT !.name = n, !.create = create, !.fd = FirstOr(FreeFile(t)),
                               !.d = FirstOr(FreeDesc), !.n = itab[0].size]
  <1>1. call[t].at = "idle" /\ Goto(t, "search", e) /\ UNCHANGED <<card, tables>>
    BY DEF OpenStart, Begin, At
  <1>2. call[t] = Idle
    BY <1>1 DEF Seen, Sound, Where, Idling
  <1>3. call' = [call EXCEPT ![t] = [e EXCEPT !.at = "search"]]
    BY <1>1 DEF Goto
  <1>4. Steps(t) /\ call'[t].at = "search" /\ call'[t].name = n /\ call'[t].create = create
    BY <1>3 DEF Steps, Idle, Seen, Ext2Types
  <1> HIDE DEF e
  <1>5. ~Settling(call[t]) /\ ~Settling(call'[t])
    BY <1>2, <1>4 DEF Settling, Idle
  <1>6. Asked(call[t]) = None /\ Asked(call'[t]) = [name |-> n, create |-> create]
    BY <1>2, <1>4, Constants DEF Asked, Idle
  <1>7. FilesNow' = FilesNow /\ OpenNow' = OpenNow
    BY <1>1, <1>4, <1>5, SameFiles, FilesSame, OpenSame DEF card, tables
  <1>8. AskNow[t] = None /\ AskNow' = [AskNow EXCEPT ![t] = [name |-> n, create |-> create]]
    BY <1>4, <1>6, AskChange
  <1> QED BY <1>7, <1>8, FileActions

LEMMA Requests == \A n \in Name, create \in BOOLEAN :
                                 /\ [name |-> n, create |-> create] # None
                                 /\ [name |-> n, create |-> create].name = n
                                 /\ [name |-> n, create |-> create].create = create
  BY Ext2Assumption

\* ... that is refused when the name is listed but should be new, or the other
\* way round, ...
LEMMA SearchAnswers ==
    ASSUME Ext2State', NEW t \in Task, Seen(t), SearchHit(t) \/ SearchOn(t)
    PROVE  Unseen \/ FileNames!Refuse(t)
  <1> DEFINE c == call[t]
  <1>0. c \in Calls /\ Ext2Types /\ Sound(t) /\ FilesNow = Stored(t)
    BY CallType DEF Seen
  <1>1. c.at = "look" /\ UNCHANGED <<card, tables>>
    BY DEF SearchHit, SearchOn, Uses, At
  <1>2. c.name \in Name /\ c.name # None /\ c.name # Dot /\ c.n = Size
    BY <1>0, <1>1, Constants DEF Sound, Where, Searching
  <1>3. \A x : x \in FilesNow <=> (\E g \in Old : x = dir[g].name) /\ x # Dot
    BY <1>0, <1>1 DEF Stored
  <1>4. ASSUME NEW l, NEW e, Goto(t, l, e), l # "claim",
               DOMAIN e = DOMAIN c, e.name = c.name, e.create = c.create
        PROVE  Unseen
    BY <1>1, <1>4, SameFiles, SilentMove DEF card, tables
  <1>5. ASSUME call' = [call EXCEPT ![t] = Idle], c.create <=> c.name \in FilesNow
        PROVE  FileNames!Refuse(t)
    <2>1. Steps(t) /\ call'[t] = Idle
      BY <1>0, <1>5 DEF Steps, Ext2Types
    <2>2. ~Settling(c) /\ ~Settling(call'[t]) /\ Asked(call'[t]) = None
      BY <1>1, <2>1 DEF Settling, Asked, Idle
    <2>3. FilesNow' = FilesNow /\ OpenNow' = OpenNow
      BY <1>1, <2>1, <2>2, SameFiles, FilesSame, OpenSame DEF card, tables
    <2>4. AskNow' = [AskNow EXCEPT ![t] = None] /\ AskNow[t] = Asked(c)
      BY <2>1, <2>2, AskChange
    <2>5. Asked(c) = [name |-> c.name, create |-> c.create]
      BY <1>2 DEF Asked
    <2>6. AskNow[t] # None /\ AskNow[t].create = c.create /\ AskNow[t].name = c.name
      <3>1. c.create \in BOOLEAN
        BY <1>0 DEF Calls
      <3> QED BY <1>2, <2>4, <2>5, <3>1, Requests
    <2> QED BY <1>5, <2>3, <2>4, <2>6, FileActions
  <1>6. CASE SearchHit(t)
    <2> DEFINE g == Least(Found(c))
               e == [c EXCEPT !.ino = buf.val[g].ino]
    <2>1. /\ Found(c) # {}
          /\ IF c.create \/ buf.val[g].ino = 0 THEN call' = [call EXCEPT ![t] = Idle]
                                                ELSE Goto(t, "get", e)
      BY <1>6 DEF SearchHit
    <2>2. g \in Found(c)
      BY <1>0, <1>1, <2>1, FoundListed, LeastIn, Indices
    <2>3. g \in 1 .. Size - 1 /\ dir[g].name = c.name /\ buf.val[g].ino = g + 1
      BY <1>0, <1>1, <2>2, FoundListed
    <2>4. DOMAIN e = DOMAIN c /\ e.name = c.name /\ e.create = c.create
      BY <1>0 DEF Calls
    <2> HIDE DEF g, e
    <2>5. buf.val[g].ino # 0 /\ g \in Old
      BY <1>0, <2>3, SizeType DEF Old
    <2>6. c.name \in FilesNow
      BY <1>2, <1>3, <2>3, <2>5
    <2> QED BY <1>4, <1>5, <2>1, <2>4, <2>5, <2>6
  <1>7. CASE SearchOn(t)
    <2> DEFINE more == (c.i + 1) * SectEntries < c.n
               e == [c EXCEPT !.i = @ + 1]
               f == [c EXCEPT !.i = 0]
    <2>1. /\ Found(c) = {}
          /\ IF more THEN Goto(t, "search", e)
             ELSE IF c.create THEN Goto(t, "imap", f) ELSE call' = [call EXCEPT ![t] = Idle]
      BY <1>7 DEF SearchOn
    <2>2. /\ DOMAIN e = DOMAIN c /\ e.name = c.name /\ e.create = c.create
          /\ DOMAIN f = DOMAIN c /\ f.name = c.name /\ f.create = c.create
      BY <1>0 DEF Calls
    <2> HIDE DEF e, f
    <2>3. CASE ~more /\ ~c.create
      <3> DEFINE m == (c.i + 1) * SectEntries
      <3>1. m \in Nat /\ ~(m < Size) /\ Size \in Nat
        BY <1>0, <1>2, <2>3, Times, Constants, SizeType DEF Calls
      <3>2. \A g \in Old : g < m => dir[g].name # c.name
        BY <1>0, <1>1, <2>1, SearchedOn
      <3> HIDE DEF m
      <3>3. \A g \in Old : dir[g].name # c.name
        BY <3>1, <3>2 DEF Old
      <3>4. c.name \notin FilesNow
        BY <1>3, <3>3
      <3> QED BY <1>5, <2>1, <2>3, <3>4
    <2> HIDE DEF more
    <2> QED BY <1>4, <2>1, <2>2, <2>3
  <1> QED BY <1>6, <1>7

\* ... and answered with a descriptor that was free otherwise.
LEMMA ClaimGrants ==
    ASSUME Ext2State', NEW t \in Task, Seen(t), Claim(t)
    PROVE  \E f \in File : FileNames!Grant(t, f)
  <1> DEFINE c == call[t]
  <1>0. c \in Calls /\ Ext2Types /\ Sound(t) /\ FilesNow = Stored(t) /\ OpenNow = Handles
    BY CallType DEF Seen
  <1>1. c.at = "claim" /\ UNCHANGED <<card, itab>>
    BY DEF Claim, At
  <1>2. /\ c.name \in Name /\ c.pin \in Slot \ {0} /\ itab[c.pin].num \in 2 .. Size
        /\ dir[itab[c.pin].num - 1].name = c.name /\ c.create \in BOOLEAN
    BY <1>0, <1>1 DEF Sound, Where, Claiming, Calls
  <1>3. c.name # None /\ c.name # Dot
    BY <1>2, Constants
  <1>4. PICK p \in File, d \in Desc : p = c.fd /\ d = c.d /\ fdt[d] = None /\ filp[t][p] = None
    BY <1>0, <1>3 DEF Sound, Reserved
  <1>5. p # None /\ d # None /\ c.pin # None
    BY <1>2, <1>4, Constants
  <1>6. /\ filp' = [filp EXCEPT ![t][p] = d] /\ fdt' = [fdt EXCEPT ![d] = c.pin]
        /\ call' = [call EXCEPT ![t] = Idle]
    BY <1>4, <1>5 DEF Claim
  <1>7. Steps(t) /\ call'[t] = Idle
    BY <1>0, <1>6 DEF Steps, Ext2Types
  <1>8. FilesNow' = Stored(t)' /\ OpenNow' = Handles'
    BY <1>7, SeenNext DEF Seen
  <1>9. FilesNow' = FilesNow \cup {c.name} /\ (c.create <=> c.name \notin FilesNow)
    <2>1. PICK g \in Old : dir[g].name = c.name
      BY <1>0, <1>2, SizeType DEF Old
    <2>2. Old' = Old /\ dir' = dir
      BY <1>1 DEF Old, Size, card
    <2>3. \A x : x \in FilesNow' <=> (\E h \in Old : x = dir[h].name) /\ x # Dot
      BY <1>7, <1>8, <2>2 DEF Stored, Idle
    <2>4. \A x : x \in FilesNow <=> (\E h \in Old : x = dir[h].name) /\ x # Dot /\ ~(c.create /\ x = c.name)
      BY <1>0, <1>1 DEF Stored
    <2>5. \A x : x \in FilesNow' <=> x \in FilesNow \cup {c.name}
      BY <1>3, <2>1, <2>3, <2>4
    <2>6. FilesNow' = FilesNow \cup {c.name}
      BY <2>5, <1>8 DEF Stored
    <2>7. c.create <=> c.name \notin FilesNow
      BY <1>3, <2>1, <2>4
    <2> QED BY <2>6, <2>7
  <1>10. Opened(t, p) = None /\ Opened(t, p)' = c.name
    <2>1. filp'[t][p] = d /\ fdt'[d] = c.pin
      BY <1>0, <1>4, <1>6 DEF Ext2Types
    <2> QED BY <1>1, <1>2, <1>4, <1>5, <2>1 DEF Opened, card
  <1>11. ASSUME NEW u \in Task, NEW f \in File, <<u, f>> # <<t, p>>
         PROVE  Opened(u, f)' = Opened(u, f)
    <2>1. filp'[u][f] = filp[u][f]
      BY <1>0, <1>4, <1>6, <1>11 DEF Ext2Types
    <2>2. CASE filp[u][f] = None
      BY <2>1, <2>2 DEF Opened
    <2>3. CASE filp[u][f] # None
      <3>1. filp[u][f] \in Desc /\ fdt[filp[u][f]] # None
        BY <1>0, <2>3 DEF Ext2Types, Sound, Descriptors
      <3>2. fdt'[filp[u][f]] = fdt[filp[u][f]]
        BY <1>0, <1>4, <1>6, <3>1 DEF Ext2Types
      <3> QED BY <1>1, <2>1, <2>3, <3>2 DEF Opened, card
    <2> QED BY <2>2, <2>3
  <1>12. OpenNow[t][p] = None /\ OpenNow' = [OpenNow EXCEPT ![t][p] = c.name]
    BY <1>0, <1>8, <1>10, <1>11 DEF Handles
  <1>13. AskNow' = [AskNow EXCEPT ![t] = None] /\ AskNow[t] = [name |-> c.name, create |-> c.create]
    <2>1. Asked(call'[t]) = None /\ Asked(c) = [name |-> c.name, create |-> c.create]
      BY <1>3, <1>7 DEF Asked, Idle
    <2> QED BY <1>7, <2>1, AskChange
  <1>14. AskNow[t] # None /\ AskNow[t].create = c.create /\ AskNow[t].name = c.name
    BY <1>2, <1>13, Requests
  <1>15. FileNames!Grant(t, p)
    BY <1>9, <1>12, <1>13, <1>14, FileActions
  <1> QED BY <1>15

\* close gives one descriptor back.
LEMMA CloseCloses ==
    ASSUME Ext2State', NEW t \in Task, Seen(t), ~wild', NEW f \in File, Close(t, f)
    PROVE  FileNames!Close(t, f)
  <1>0. call[t] \in Calls /\ Ext2Types /\ Sound(t) /\ OpenNow = Handles
    BY CallType DEF Seen
  <1>1. PICK d \in Desc : d = filp[t][f] /\ d # None /\ fdt[d] # None
    BY <1>0 DEF Close, Ext2Types
  <1>2. PICK s \in Slot \ {0} : s = fdt[d]
    BY <1>0, <1>1 DEF Ext2Types
  <1>3. /\ call[t].at = "idle" /\ UNCHANGED <<card, call>>
        /\ itab' = [itab EXCEPT ![s].cnt = @ - 1] /\ fdt' = [fdt EXCEPT ![d] = None]
        /\ filp' = [filp EXCEPT ![t][f] = None]
    BY <1>1, <1>2 DEF Close, Begin, At
  <1>4. Steps(t) /\ call[t] = Idle /\ call'[t] = Idle
    BY <1>0, <1>3 DEF Steps, Sound, Where, Idling
  <1>5. OpenNow' = Handles'
    BY <1>4, SeenNext DEF Seen
  <1>6. FilesNow' = FilesNow
    BY <1>3, <1>4, SameFiles, FilesSame DEF Settling, Idle, card
  <1>7. \A r \in Slot : itab'[r].num = itab[r].num
    BY <1>0, <1>3 DEF Ext2Types, Slots
  <1>8. Opened(t, f) # None /\ Opened(t, f)' = None
    <2>1. filp'[t][f] = None
      BY <1>0, <1>3 DEF Ext2Types
    <2> QED BY <1>0, <1>1, <2>1, OpenIs DEF Opened
  <1>9. ASSUME NEW u \in Task, NEW h \in File, <<u, h>> # <<t, f>>
        PROVE  Opened(u, h)' = Opened(u, h)
    <2>1. filp'[u][h] = filp[u][h]
      BY <1>0, <1>3, <1>9 DEF Ext2Types
    <2>2. CASE filp[u][h] = None
      BY <2>1, <2>2 DEF Opened
    <2>3. CASE filp[u][h] # None
      <3>1. filp[u][h] \in Desc /\ fdt[filp[u][h]] # None /\ filp[u][h] # d
        BY <1>0, <1>1, <1>9, <2>3 DEF Ext2Types, Sound, Descriptors
      <3>2. fdt'[filp[u][h]] = fdt[filp[u][h]] /\ fdt[filp[u][h]] \in Slot
        BY <1>0, <1>1, <1>3, <3>1 DEF Ext2Types
      <3> QED BY <1>3, <1>7, <2>1, <2>3, <3>2 DEF Opened, card
    <2> QED BY <2>2, <2>3
  <1>10. OpenNow[t][f] # None /\ OpenNow' = [OpenNow EXCEPT ![t][f] = None]
    BY <1>0, <1>5, <1>8, <1>9 DEF Handles
  <1>11. AskNow' = AskNow /\ AskNow[t] = None
    BY <1>3, <1>4 DEF AskNow, Idle
  <1> QED BY <1>6, <1>10, <1>11, FileActions

\* A machine that starts anew knows no file.
Starting == /\ itab = [s \in Slot |-> IF s = 0 THEN [num |-> Root, cnt |-> 1, size |-> 1, start |-> 1]
                                      ELSE EmptySlot]
            /\ dir[0].name = Dot
            /\ filp = [t \in Task |-> [f \in File |-> None]]
            /\ call = [t \in Task |-> Idle]
NoFiles  == /\ FilesNow = {} /\ OpenNow = [t \in Task |-> [f \in File |-> None]]
            /\ AskNow = [t \in Task |-> None]

LEMMA StartsEmpty == Starting => NoFiles
  <1> SUFFICES ASSUME Starting PROVE NoFiles
    OBVIOUS
  <1>1. itab[0].size = 1
    BY Constants DEF Starting
  <1>2. \A x \in Index : x < 1 => x = 0
    BY Indices
  <1>3. FilesNow = {}
    BY <1>1, <1>2 DEF FilesNow, Starting
  <1>4. OpenNow = [t \in Task |-> [f \in File |-> None]]
    BY DEF OpenNow, Starting
  <1>5. AskNow = [t \in Task |-> None]
    BY DEF AskNow, Idle, Starting
  <1> QED BY <1>3, <1>4, <1>5 DEF NoFiles

LEMMA StartsEmptyNext == Starting' => NoFiles'
  BY StartsEmpty, PTL

LEMMA DotFirst ==
    /\ 0 \in Index /\ FormatDir[0].name = Dot
    /\ [g \in Index |-> IF g = 0 THEN Onto(Blank, Root, Dot) ELSE Blank][0].name = Dot
  <1>1. 0 \in Index
    BY Indices, Constants
  <1>2. Onto(Blank, Root, Dot).name = Dot
    BY RootEntry
  <1> QED BY <1>1, <1>2 DEF FormatDir

LEMMA BootFormats == ASSUME Boot PROVE FileNames!Format
  <1>1. Starting'
    <2>1. dir'[0].name = Dot
      BY DotFirst DEF Boot
    <2> QED BY <2>1 DEF Boot, Memory, Starting
  <1> QED BY <1>1, StartsEmptyNext, FileActions DEF NoFiles

LEMMA InitHasNoFiles == Init => FileNames!FilesInit
  <1>1. Init => Starting
    <2>1. Init => dir[0].name = Dot
      BY DotFirst DEF Init
    <2> QED BY <2>1 DEF Init, Starting
  <1> QED BY <1>1, StartsEmpty, FileActions DEF NoFiles

\* Every step is one of FileNames, or one that it does not see.
LEMMA TaskImplements ==
    ASSUME Ext2State, Ext2State', breach' = {}, NEW t \in Task,
           OpenSteps(t) \/ CreateSteps(t) \/ InodeSteps(t) \/ FileSteps(t) \/ Lost(t)
    PROVE  FileNames!FilesNext \/ Unseen
  <1> DEFINE Inside == \/ SearchRead(t) \/ SearchHit(t) \/ SearchOn(t) \/ Claim(t)
                       \/ CreateSteps(t) \/ InodeSteps(t) \/ DataRead(t) \/ DataUse(t) \/ Lost(t)
             Begins == \/ \E n \in Name, create \in BOOLEAN : OpenStart(t, n, create)
                       \/ \E f \in File : UseStart(t, f) \/ Close(t, f)
  <1>1. Inside => call[t].at # "idle"
    BY InsideIsBusy
  <1>2. Begins => Alone(t)
    BY DEF OpenStart, UseStart, Close, Breaks, Only
  <1>3. Inside \/ Begins
    BY DEF OpenSteps, FileSteps
  <1>4. ~wild /\ ~wild' /\ Seen(t)
    BY <1>1, <1>2, <1>3, SeenAll DEF SeenByAll, Ext2State
  <1>5. Ext2Types /\ Lone(t) /\ Sound(t)
    BY <1>4 DEF Seen
  <1>6. CASE \/ SearchRead(t) \/ ImapRead(t) \/ SmapRead(t) \/ LoadRead(t)
             \/ SyncRead(t) \/ DirRead(t) \/ DataRead(t)
    BY <1>4, <1>6, ReadsSilent
  <1>7. CASE SearchHit(t) \/ SearchOn(t)
    <2>1. Unseen \/ FileNames!Refuse(t)
      BY <1>4, <1>7, SearchAnswers
    <2> QED BY <2>1 DEF FileNames!FilesNext
  <1>8. CASE Claim(t)
    <2>1. \E f \in File : FileNames!Grant(t, f)
      BY <1>4, <1>8, ClaimGrants
    <2> QED BY <2>1 DEF FileNames!FilesNext
  <1>9. CASE ImapSet(t) \/ ImapWrite(t) \/ SmapSet(t) \/ SmapWrite(t)
    BY <1>4, <1>9, BitsSilent
  <1>10. CASE GetHit(t) \/ GetSlot(t) \/ LoadTake(t) \/ NewInode(t) \/ SyncSet(t)
    BY <1>4, <1>10, InodeSilent
  <1>11. CASE DirSet(t) \/ DirWrite(t)
    BY <1>4, <1>11, DirSilent
  <1>12. CASE SyncWrite(t)
    BY <1>4, <1>12, SyncSilent
  <1>13. CASE DataUse(t) \/ \E f \in File : UseStart(t, f)
    BY <1>4, <1>13, UsesSilent
  <1>14. CASE \E n \in Name, create \in BOOLEAN : OpenStart(t, n, create)
    <2>1. PICK n \in Name, create \in BOOLEAN : OpenStart(t, n, create)
      BY <1>14
    <2>2. FileNames!Ask(t, n, create)
      BY <1>4, <2>1, OpenAsks
    <2> QED BY <2>2 DEF FileNames!FilesNext
  <1>15. CASE \E f \in File : Close(t, f)
    <2>1. PICK f \in File : Close(t, f)
      BY <1>15
    <2>2. FileNames!Close(t, f)
      BY <1>4, <2>1, CloseCloses
    <2> QED BY <2>2 DEF FileNames!FilesNext
  <1>16. ~GetNull(t)
    BY <1>4, <1>5, GetNullNever
  <1>17. ~Lost(t)
    BY <1>4, <1>5, LostNever
  <1> QED BY <1>3, <1>6, <1>7, <1>8, <1>9, <1>10, <1>11, <1>12, <1>13, <1>14, <1>15, <1>16, <1>17
             DEF CreateSteps, InodeSteps

LEMMA FilesStep ==
    ASSUME Ext2Inv, [Next]_vars, breach' = {}
    PROVE  FileNames!FilesNext \/ UNCHANGED FileNames!fileVars
  <1>1. Ext2State /\ Ext2State'
    BY Ext2Step, BreachGrows DEF Ext2Inv
  <1>2. Unseen => UNCHANGED FileNames!fileVars
    BY FileActions DEF Unseen
  <1>3. ASSUME NEW t \in Task, OpenSteps(t) \/ CreateSteps(t) \/ InodeSteps(t) \/ FileSteps(t) \/ Lost(t)
        PROVE  FileNames!FilesNext \/ Unseen
    BY <1>1, <1>3, TaskImplements
  <1>4. CASE Boot
    <2>1. FileNames!Format
      BY <1>4, BootFormats
    <2> QED BY <2>1 DEF FileNames!FilesNext
  <1>5. ~Wild
    BY <1>1 DEF Wild, Ext2State
  <1>6. UNCHANGED vars => Unseen
    BY DEF Unseen, FilesNow, OpenNow, AskNow, Making, NameOf, vars, card, tables
  <1> QED BY <1>2, <1>3, <1>4, <1>5, <1>6 DEF Next

\* simple_ext2_open, create_file and simple_ext2_close, in all their reads and
\* writes of sectors, do what FileNames says, for any number of tasks: a name
\* becomes a file once, an open that finds what it should is granted a free
\* descriptor of that file and every other one is refused.
THEOREM FilesAlwaysImplemented == Spec => FilesImplemented
  <1> DEFINE Step == breach' = {} => FileNames!FilesNext \/ UNCHANGED FileNames!fileVars
  <1>1. Ext2Inv /\ [Next]_vars => [Step]_vars
    BY FilesStep
  <1>2. Spec => [][Step]_vars
    BY <1>1, Ext2Invariant, PTL DEF Spec
  <1>3. Spec => FileNames!FilesInit
    BY InitHasNoFiles DEF Spec
  <1> QED BY <1>2, <1>3 DEF FilesImplemented
=============================================================================
