-------------------------------- MODULE Ext2 --------------------------------
(***************************************************************************)
(* The file system fs/simple_ext2.c: the bitmaps, inodes and directory on  *)
(* the card, the inode table, the file descriptors and the one sector      *)
(* buffer `buf' in memory, and the tasks that open, use and close files.   *)
(*                                                                         *)
(* Every change of the card is three steps: the sector is read into buf,   *)
(* changed there, and written back.  The timer may switch to another task  *)
(* between two of them; the transfer of a sector itself is one step here.  *)
(* A call is a walk through these steps, its locals are call[t].  Positions *)
(* and contents of files are the subject of Ext2Data: a file's size is     *)
(* only a version here, that a read or a write may move on.                *)
(*                                                                         *)
(* Nothing in the file system is protected against another task, limits    *)
(* are reported and then passed, and formatting a card leaves most of it   *)
(* as it was.  The ghost breach collects what has happened:                *)
(*   "shared" a call began while another task was inside one               *)
(*   "files"  a task's descriptors, fd_table or inode_table were used up   *)
(*   "full"   a bitmap was used up                                         *)
(*   "stale"  a directory sector was used whose unused entries an earlier  *)
(*            format of the card had left behind                           *)
(* wild says that memory outside the tables has been used, or that buf     *)
(* held another sector than its user believes; nothing is known after it.  *)
(***************************************************************************)
EXTENDS Integers, FiniteSets

CONSTANTS Task, Name, None,
          Dot,          \* the name "."
          NameLen,      \* the length of each name
          NumFiles,     \* NUM_FILES, descriptors of a task
          NumFileDesc,  \* NUM_FILE_DESC
          NumInode,     \* NUM_INODE, inodes in memory
          ImapBits,     \* bits of the inode bitmap, total_inodes
          SmapSects,    \* sectors of the sector bitmap, size_smap_sects
          SectBits,     \* bits of one sector of it
          FileSects,    \* SIZE_DEFAULT_FILE_SECTS
          SectEntries,  \* directory entries of one sector
          MaxSize,      \* bound: versions of a file
          MaxBoots,     \* bound: starts of the machine
          MaxAfter      \* bound: calls begun after breach is not empty

Root  == 1                                   \* ROOT_INODE
File  == 0 .. NumFiles - 1
Desc  == 0 .. NumFileDesc - 1
Slot  == 0 .. NumInode - 1                   \* inode_table
Ino   == 0 .. ImapBits - 1
Bit   == 0 .. SmapSects * SectBits - 1
Index == 0 .. (ImapBits + 1) * SectEntries - 1   \* bound: directory entries

Least(S) == CHOOSE x \in S : \A y \in S : x <= y

ASSUME Ext2Assumption ==
    /\ {NumFiles, NumFileDesc, NumInode, SmapSects, FileSects, SectEntries} \subseteq Nat \ {0}
    /\ ImapBits \in Nat /\ ImapBits > 2
    /\ SectBits \in Nat /\ SectBits > FileSects
    /\ \A n \in Name \cup {Dot} : NameLen[n] \in Nat \ {0}
    /\ Task # {} /\ None \notin Nat \cup Name \cup {Dot}
    /\ Dot \notin Name                       \* tasks open files only
    /\ None \notin [name : Name, create : BOOLEAN]

VARIABLES imap, smap,    \* the bits set on the card
          dinode,        \* the inodes on the card
          dir,           \* the entries of the root directory's sectors
          buf,           \* the sector in memory: which one, and what it holds
          itab,          \* inode_table; slot 0 is root_inode
          fdt,           \* fd_table: the slot of each descriptor
          filp,          \* each task's files: indices of fd_table
          call,          \* the call each task is in
          boots, breach, wild, after   \* bounds and ghosts

card   == <<imap, smap, dinode, dir>>
tables == <<itab, fdt, filp>>
ghosts == <<boots, breach, wild, after>>
vars   == <<card, buf, tables, call, ghosts>>

\* An entry has an inode number, a name, and the place of the last byte of its
\* name field that is not 0.
Blank == [ino |-> 0, name |-> None, last |-> 0]
Names(e, n) == e.name = n /\ e.last = NameLen[n]       \* memcmp of line 695
\* strcpy onto an entry leaves what lies behind the new name as it was.
Onto(e, ino, n) ==
    [ino |-> ino, name |-> n,
     last |-> IF e.last > NameLen[n] + 1 THEN e.last ELSE NameLen[n]]

Inode(size, start) == [size |-> size, start |-> start]
EmptySlot == [num |-> 0, cnt |-> 0, size |-> 0, start |-> 0]

Idle == [at |-> "idle", name |-> None, create |-> FALSE, fd |-> None, d |-> None,
         i |-> 0, n |-> 0, ino |-> 0, pin |-> 0, left |-> 0, start |-> 0, then |-> "idle"]

\* The task t is at point l of its call.
At(t, l) == ~wild /\ call[t].at = l
\* It goes on at point l, with its locals as in c.
Goto(t, l, c) == call' = [call EXCEPT ![t] = [c EXCEPT !.at = l]]

Breaks(R) == breach' = breach \cup R
Only(r, bad) == IF bad THEN {r} ELSE {}

\* A call begins.
Begin(t) ==
    /\ At(t, "idle")
    /\ breach = {} \/ after < MaxAfter
    /\ after' = IF breach = {} THEN 0 ELSE after + 1
Alone(t) == \A u \in Task \ {t} : call[u].at = "idle"

-----------------------------------------------------------------------------
(* The sector buffer                                                       *)

EntriesOf(i) == {g \in Index : g \div SectEntries = i}
BitsOf(i)    == {b \in Bit : b \div SectBits = i}

Load(kind, i, val) == buf' = [kind |-> kind, i |-> i, val |-> val]
Holds(kind, i)     == buf.kind = kind /\ buf.i = i

\* The task reads a sector and goes on at l.
Reads(t, from, l, kind, i, val) ==
    /\ At(t, from)
    /\ Load(kind, i, val)
    /\ Goto(t, l, call[t])
    /\ UNCHANGED <<card, tables, boots, wild, after>>

\* It finds another task's sector in buf.
Astray(t, from, kind, i) ==
    /\ At(t, from)
    /\ ~Holds(kind, i)
    /\ wild' = TRUE
    /\ UNCHANGED <<card, buf, tables, call, boots, breach, after>>

\* It uses what it has read.
Uses(t, from, kind, i) == At(t, from) /\ Holds(kind, i)

-----------------------------------------------------------------------------
(* simple_ext2_open, lines 759-860, and search_file, 644-706               *)

\* The first free descriptor of the task and the first free entry of fd_table
FreeFile(t) == {f \in File : filp[t][f] = None}
FreeDesc    == {d \in Desc : fdt[d] = None}
FirstOr(S)  == IF S = {} THEN None ELSE Least(S)

OpenStart(t, n, create) ==
    /\ Begin(t)
    /\ Goto(t, "search", [Idle EXCEPT !.name = n, !.create = create,
                                      !.fd = FirstOr(FreeFile(t)), !.d = FirstOr(FreeDesc),
                                      !.n = itab[0].size])
    /\ Breaks(Only("shared", ~Alone(t)) \cup Only("files", FreeFile(t) = {} \/ FreeDesc = {}))
    /\ UNCHANGED <<card, buf, tables, boots, wild>>

\* Entries behind the end of the directory that are not blank
StaleIn(i, n) == \E g \in EntriesOf(i) : g >= n /\ dir[g].last # 0

ReadDir(t, from, l) ==
    LET c == call[t]
    IN  /\ Reads(t, from, l, "dir", c.i, [g \in EntriesOf(c.i) |-> dir[g]])
        /\ Breaks(Only("stale", StaleIn(c.i, c.n)))

SearchRead(t) == ReadDir(t, "search", "look")

\* One sector of the directory is looked through; the entry just behind the
\* end is compared too.
\* Slip: the search stops one entry early.
FoundEarly(c) == {g \in EntriesOf(c.i) : g < c.n - 1 /\ Names(buf.val[g], c.name)}
Found(c) == {g \in EntriesOf(c.i) : g <= c.n /\ Names(buf.val[g], c.name)}

SearchHit(t) ==
    LET c == call[t]
        ino == buf.val[Least(Found(c))].ino
    IN  /\ Uses(t, "look", "dir", c.i)
        /\ Found(c) # {}
        /\ IF c.create \/ ino = 0
           THEN call' = [call EXCEPT ![t] = Idle]                \* -1
           ELSE Goto(t, "get", [c EXCEPT !.ino = ino])
        /\ UNCHANGED <<card, buf, tables, ghosts>>

SearchOn(t) ==
    LET c == call[t]
    IN  /\ Uses(t, "look", "dir", c.i)
        /\ Found(c) = {}
        /\ IF (c.i + 1) * SectEntries < c.n
           THEN Goto(t, "search", [c EXCEPT !.i = @ + 1])
           ELSE IF c.create THEN Goto(t, "imap", [c EXCEPT !.i = 0])
                            ELSE call' = [call EXCEPT ![t] = Idle]   \* -1
        /\ UNCHANGED <<card, buf, tables, ghosts>>

\* The end of simple_ext2_open, lines 818-859
Claim(t) ==
    LET c == call[t]
    IN  /\ At(t, "claim")
        /\ IF None \in {c.fd, c.d}
           THEN wild' = TRUE /\ UNCHANGED <<fdt, filp, call>>
           ELSE /\ filp' = [filp EXCEPT ![t][c.fd] = c.d]
                /\ fdt' = [fdt EXCEPT ![c.d] = c.pin]
                /\ call' = [call EXCEPT ![t] = Idle]
                /\ UNCHANGED wild
        /\ UNCHANGED <<card, buf, itab, boots, breach, after>>

-----------------------------------------------------------------------------
(* create_file, lines 718-750                                              *)

\* alloc_imap_bit, 430-472
ImapRead(t) == Reads(t, "imap", "imapset", "imap", 0, imap) /\ UNCHANGED breach

ImapSet(t) ==
    LET c == call[t]
        free == Ino \ buf.val
    IN  /\ Uses(t, "imapset", "imap", 0)
        /\ IF free # {}
           THEN /\ Load("imap", 0, buf.val \cup {Least(free)})
                /\ Goto(t, "imapwrite", [c EXCEPT !.ino = Least(free)])
           ELSE Goto(t, "smap", [c EXCEPT !.left = FileSects]) /\ UNCHANGED buf
        /\ Breaks(Only("full", free = {}))
        /\ UNCHANGED <<card, tables, boots, wild, after>>

ImapWrite(t) ==
    LET c == call[t]
    IN  /\ Uses(t, "imapwrite", "imap", 0)
        /\ imap' = buf.val
        /\ Goto(t, "smap", [c EXCEPT !.left = FileSects])
        /\ UNCHANGED <<smap, dinode, dir, buf, tables, ghosts>>

\* alloc_smap_bit, 484-539: from the first bit that is not set on, all bits
\* are taken until there are enough, whether they are set or not.
SmapRead(t) ==
    /\ Reads(t, "smap", "smapset", "smap", call[t].i, smap \cap BitsOf(call[t].i))
    /\ UNCHANGED breach

SmapSet(t) ==
    LET c    == call[t]
        free == BitsOf(c.i) \ buf.val
        from == IF c.start # 0 THEN c.i * SectBits ELSE Least(free)
        take == {b \in BitsOf(c.i) : from <= b /\ b < from + c.left}
        last == c.i = SmapSects - 1
    IN  /\ Uses(t, "smapset", "smap", c.i)
        /\ IF c.start = 0 /\ free = {}
           THEN /\ Goto(t, IF last THEN "get" ELSE "smap", [c EXCEPT !.i = @ + 1])
                /\ Breaks(Only("full", last))
                /\ UNCHANGED buf
           ELSE /\ Load("smap", c.i, buf.val \cup take)
                /\ Goto(t, "smapwrite", [c EXCEPT !.start = IF @ = 0 THEN from ELSE @,
                                                  !.left = @ - Cardinality(take)])
                /\ UNCHANGED breach
        /\ UNCHANGED <<card, tables, boots, wild, after>>

\* Slip: the search is over after the first sector with a free bit.
SmapWriteOnce(t) ==
    LET c == call[t]
    IN  /\ Uses(t, "smapwrite", "smap", c.i)
        /\ smap' = (smap \ BitsOf(c.i)) \cup buf.val
        /\ Goto(t, "get", c)
        /\ UNCHANGED <<imap, dinode, dir, buf, tables, ghosts>>

SmapWrite(t) ==
    LET c    == call[t]
        done == c.left = 0
        last == c.i = SmapSects - 1
    IN  /\ Uses(t, "smapwrite", "smap", c.i)
        /\ smap' = (smap \ BitsOf(c.i)) \cup buf.val
        /\ Goto(t, IF done \/ last THEN "get" ELSE "smap", [c EXCEPT !.i = @ + 1])
        /\ Breaks(Only("full", ~done /\ last))
        /\ UNCHANGED <<imap, dinode, dir, buf, tables, boots, wild, after>>

-----------------------------------------------------------------------------
(* get_inode, 278-336, and new_inode, 552-569                              *)

HitSlots(ino) == {s \in Slot : itab[s].cnt # 0 /\ itab[s].num = ino}
FreeSlots     == {s \in Slot : itab[s].cnt = 0}

\* The inode is in the table.
GetHit(t) ==
    LET c == call[t]
        s == Least(HitSlots(c.ino))
    IN  /\ At(t, "get")
        /\ c.ino # 0
        /\ HitSlots(c.ino) # {}
        /\ itab' = [itab EXCEPT ![s].cnt = @ + 1]
        /\ Goto(t, IF c.create THEN "new" ELSE "claim", [c EXCEPT !.pin = s])
        /\ UNCHANGED <<card, buf, fdt, filp, ghosts>>

\* It is not: it gets the first free slot, ...
GetSlot(t) ==
    LET c == call[t]
        s == Least(FreeSlots)
    IN  /\ At(t, "get")
        /\ c.ino # 0
        /\ HitSlots(c.ino) = {}
        /\ FreeSlots # {}
        /\ itab' = [itab EXCEPT ![s].num = c.ino, ![s].cnt = 1]
        /\ Goto(t, "load", [c EXCEPT !.pin = s])
        /\ UNCHANGED <<card, buf, fdt, filp, ghosts>>

\* ... and a table without one, like inode number 0, is a NULL pointer.
GetNull(t) ==
    LET c == call[t]
    IN  /\ At(t, "get")
        /\ c.ino = 0 \/ (HitSlots(c.ino) = {} /\ FreeSlots = {})
        /\ wild' = TRUE
        /\ Breaks(Only("files", c.ino # 0))
        /\ UNCHANGED <<card, buf, tables, call, boots, after>>

LoadRead(t) == Reads(t, "load", "take", "ino", 0, dinode) /\ UNCHANGED breach

LoadTake(t) ==
    LET c == call[t]
        e == buf.val[c.ino]
    IN  /\ Uses(t, "take", "ino", 0)
        /\ itab' = [itab EXCEPT ![c.pin].size = e.size, ![c.pin].start = e.start]
        /\ Goto(t, IF c.create THEN "new" ELSE "claim", c)
        /\ UNCHANGED <<card, buf, fdt, filp, ghosts>>

NewInode(t) ==
    LET c == call[t]
    IN  /\ At(t, "new")
        /\ itab' = [itab EXCEPT ![c.pin] = [num |-> c.ino, cnt |-> 1, size |-> 0, start |-> c.start]]
        /\ Goto(t, "sync", [c EXCEPT !.then = "dir", !.i = 0])
        /\ UNCHANGED <<card, buf, fdt, filp, ghosts>>

-----------------------------------------------------------------------------
(* sync_inode, 357-379: the inode of slot pin is written to the card; then *)
(* the call goes on at its point `then'.                                   *)

SyncRead(t) == Reads(t, "sync", "syncset", "ino", 0, dinode) /\ UNCHANGED breach

SyncSet(t) ==
    LET c == call[t]
        p == itab[c.pin]
    IN  /\ Uses(t, "syncset", "ino", 0)
        /\ Load("ino", 0, [buf.val EXCEPT ![p.num] = Inode(p.size, p.start)])
        /\ Goto(t, "syncwrite", c)
        /\ UNCHANGED <<card, tables, ghosts>>

SyncWrite(t) ==
    LET c == call[t]
    IN  /\ Uses(t, "syncwrite", "ino", 0)
        /\ dinode' = buf.val
        /\ CASE c.then = "dir"  -> Goto(t, "dir", [c EXCEPT !.n = itab[0].size])
             [] c.then = "open" -> Goto(t, "claim", [c EXCEPT !.pin = c.left])
             [] c.then = "idle" -> call' = [call EXCEPT ![t] = Idle]
        /\ UNCHANGED <<imap, smap, dir, buf, tables, ghosts>>

-----------------------------------------------------------------------------
(* new_dir_entry, 580-636                                                  *)

DirRead(t) == ReadDir(t, "dir", "dirset")

\* The first unused entry, or the one behind the end of the directory, which
\* then grows.  If this sector has none the next one is read.
DirSet(t) ==
    LET c    == call[t]
        here == {g \in EntriesOf(c.i) : g = c.n \/ (g < c.n /\ buf.val[g].ino = 0)}
        g    == Least(here)
    IN  /\ Uses(t, "dirset", "dir", c.i)
        /\ IF here = {}
           THEN Goto(t, "dir", [c EXCEPT !.i = @ + 1]) /\ UNCHANGED <<buf, itab>>
           ELSE /\ Load("dir", c.i, [buf.val EXCEPT ![g] = Onto(@, c.ino, c.name)])
                /\ itab' = IF g = c.n THEN [itab EXCEPT ![0].size = @ + 1] ELSE itab
                /\ Goto(t, "dirwrite", c)
        /\ UNCHANGED <<card, fdt, filp, ghosts>>

\* The directory's own inode is written next; the slot of the new file waits
\* in left.
DirWrite(t) ==
    LET c == call[t]
    IN  /\ Uses(t, "dirwrite", "dir", c.i)
        /\ dir' = [g \in Index |-> IF g \in EntriesOf(c.i) THEN buf.val[g] ELSE dir[g]]
        /\ Goto(t, "sync", [c EXCEPT !.then = "open", !.left = c.pin, !.pin = 0])
        /\ UNCHANGED <<imap, smap, dinode, buf, tables, ghosts>>

-----------------------------------------------------------------------------
(* do_rdwt, 931-1049, as far as the file's inode is concerned              *)

UseStart(t, f) ==
    /\ Begin(t)
    /\ filp[t][f] # None
    /\ fdt[filp[t][f]] # None
    /\ Goto(t, "data", [Idle EXCEPT !.pin = fdt[filp[t][f]]])
    /\ Breaks(Only("shared", ~Alone(t)))
    /\ UNCHANGED <<card, buf, tables, boots, wild>>

DataRead(t) == Reads(t, "data", "datause", "data", call[t].pin, None) /\ UNCHANGED breach

\* Slip: the inode is not written back.
DataUseUnsynced(t) ==
    LET c == call[t]
    IN  /\ Uses(t, "datause", "data", c.pin)
        /\ itab[c.pin].size < MaxSize
        /\ itab' = [itab EXCEPT ![c.pin].size = @ + 1]
        /\ call' = [call EXCEPT ![t] = Idle]
        /\ UNCHANGED <<card, buf, fdt, filp, ghosts>>

\* The bytes are copied out of buf, or into it and buf to the card; the size
\* may have grown.
DataUse(t) ==
    LET c == call[t]
    IN  /\ Uses(t, "datause", "data", c.pin)
        /\ \/ call' = [call EXCEPT ![t] = Idle] /\ UNCHANGED itab
           \/ /\ itab[c.pin].size < MaxSize
              /\ itab' = [itab EXCEPT ![c.pin].size = @ + 1]
              /\ Goto(t, "sync", [c EXCEPT !.then = "idle"])
        /\ UNCHANGED <<card, buf, fdt, filp, ghosts>>

-----------------------------------------------------------------------------
\* Slip: the inode is not put.
CloseKeepsInode(t, f) ==
    LET d == filp[t][f]
    IN  /\ Begin(t)
        /\ d # None
        /\ fdt' = [fdt EXCEPT ![d] = None]
        /\ filp' = [filp EXCEPT ![t][f] = None]
        /\ Breaks(Only("shared", ~Alone(t)))
        /\ UNCHANGED <<card, buf, itab, call, boots, wild>>

\* simple_ext2_close, 906-913, with put_inode
Close(t, f) ==
    LET d == filp[t][f]
    IN  /\ Begin(t)
        /\ d # None
        /\ IF fdt[d] = None
           THEN wild' = TRUE /\ UNCHANGED <<itab, fdt, filp>>
           ELSE /\ itab' = [itab EXCEPT ![fdt[d]].cnt = @ - 1]
                /\ fdt' = [fdt EXCEPT ![d] = None]
                /\ filp' = [filp EXCEPT ![t][f] = None]
                /\ UNCHANGED wild
        /\ Breaks(Only("shared", ~Alone(t)))
        /\ UNCHANGED <<card, buf, call, boots>>

-----------------------------------------------------------------------------
(* init_fs, 862-904, with create_fs, 58-210: the first sector of each part *)
(* of the card is written and the root inode read; nothing else changes.   *)

FormatImap == {0, Root}
FormatSmap == (smap \ BitsOf(0)) \cup 0 .. FileSects
FormatDir  == [g \in Index |-> IF g = 0 THEN Onto(Blank, Root, Dot)
                               ELSE IF g \in EntriesOf(0) THEN Blank ELSE dir[g]]
FormatIno  == [n \in Ino |-> IF n = Root THEN Inode(1, 1) ELSE Inode(0, 0)]

\* The tables as init_fs leaves them, with the root inode in slot 0
Memory ==
    /\ buf' = [kind |-> "ino", i |-> 0, val |-> FormatIno]
    /\ itab' = [s \in Slot |-> IF s = 0 THEN [num |-> Root, cnt |-> 1, size |-> 1, start |-> 1]
                               ELSE EmptySlot]
    /\ fdt' = [d \in Desc |-> None]
    /\ filp' = [t \in Task |-> [f \in File |-> None]]
    /\ call' = [t \in Task |-> Idle]

\* The machine is switched off at any point and starts anew.
Boot ==
    /\ ~wild
    /\ boots < MaxBoots
    /\ breach = {} \/ after < MaxAfter
    /\ boots' = boots + 1
    /\ imap' = FormatImap
    /\ smap' = FormatSmap
    /\ dir' = FormatDir
    /\ dinode' = FormatIno
    /\ Memory
    /\ UNCHANGED <<breach, wild, after>>

Wild == wild /\ UNCHANGED vars

\* A blank card has been formatted.
Init ==
    /\ imap = FormatImap
    /\ smap = 0 .. FileSects
    /\ dir = [g \in Index |-> IF g = 0 THEN Onto(Blank, Root, Dot) ELSE Blank]
    /\ dinode = FormatIno
    /\ buf = [kind |-> "ino", i |-> 0, val |-> dinode]
    /\ itab = [s \in Slot |-> IF s = 0 THEN [num |-> Root, cnt |-> 1, size |-> 1, start |-> 1]
                              ELSE EmptySlot]
    /\ fdt = [d \in Desc |-> None]
    /\ filp = [t \in Task |-> [f \in File |-> None]]
    /\ call = [t \in Task |-> Idle]
    /\ boots = 1
    /\ breach = {}
    /\ wild = FALSE
    /\ after = 0

OpenSteps(t) ==
    \/ \E n \in Name, create \in BOOLEAN : OpenStart(t, n, create)
    \/ SearchRead(t) \/ SearchHit(t) \/ SearchOn(t) \/ Claim(t)
CreateSteps(t) ==
    \/ ImapRead(t) \/ ImapSet(t) \/ ImapWrite(t)
    \/ SmapRead(t) \/ SmapSet(t) \/ SmapWrite(t)
    \/ NewInode(t) \/ DirRead(t) \/ DirSet(t) \/ DirWrite(t)
InodeSteps(t) ==
    \/ GetHit(t) \/ GetSlot(t) \/ GetNull(t) \/ LoadRead(t) \/ LoadTake(t)
    \/ SyncRead(t) \/ SyncSet(t) \/ SyncWrite(t)
FileSteps(t) ==
    \/ \E f \in File : UseStart(t, f) \/ Close(t, f)
    \/ DataRead(t) \/ DataUse(t)
Lost(t) ==
    \/ \E l \in {"look", "dirset", "dirwrite"} : Astray(t, l, "dir", call[t].i)
    \/ \E l \in {"imapset", "imapwrite"} : Astray(t, l, "imap", 0)
    \/ \E l \in {"smapset", "smapwrite"} : Astray(t, l, "smap", call[t].i)
    \/ \E l \in {"take", "syncset", "syncwrite"} : Astray(t, l, "ino", 0)
    \/ Astray(t, "datause", "data", call[t].pin)

Next ==
    \/ \E t \in Task : \/ OpenSteps(t) \/ CreateSteps(t) \/ InodeSteps(t)
                       \/ FileSteps(t) \/ Lost(t)
    \/ Boot
    \/ Wild

Spec == Init /\ [][Next]_vars

-----------------------------------------------------------------------------
(* Properties                                                              *)

\* No task is inside a call.
Quiet == \A t \in Task : call[t].at = "idle"

\* The entries the card's own root inode counts, and the sectors of a file
Listed    == {g \in Index : g < dinode[Root].size}
Extent(n) == dinode[n].start .. dinode[n].start + FileSects - 1

\* At every moment, between any two sectors that create_file writes, the card
\* is sound: each name it lists leads to an inode of its own that is marked as
\* taken, whose sectors are marked as taken and belong to no other file.  No
\* memory outside the tables is used, and buf holds the sector its user has read.
CardSound ==
    breach = {} =>
        /\ ~wild
        /\ \A g \in Listed : dir[g].ino \in imap /\ Extent(dir[g].ino) \subseteq smap
        /\ \A g, h \in Listed : g # h =>
              /\ dir[g].ino # dir[h].ino /\ dir[g].name # dir[h].name
              /\ Extent(dir[g].ino) \cap Extent(dir[h].ino) = {}

\* Between calls, an inode is in the table at most once and counts the
\* descriptors that use it, each of which is one task's open file: close and
\* open, in any order and by several tasks, neither leak an entry nor give up
\* one that is in use.
TablesSound ==
    breach = {} /\ Quiet =>
        /\ \A r, s \in Slot : itab[r].cnt # 0 /\ itab[s].cnt # 0 /\ itab[r].num = itab[s].num => r = s
        /\ \A s \in Slot \ {0} : itab[s].cnt = Cardinality({d \in Desc : fdt[d] = s})
        /\ \A d \in Desc : Cardinality({x \in Task \X File : filp[x[1]][x[2]] = d})
                              = IF fdt[d] = None THEN 0 ELSE 1

\* Between calls, what memory knows of an open file is what the card says: an
\* inode that leaves the table (close writes nothing) can be read again.
TableOnCard ==
    breach = {} /\ Quiet =>
        \A s \in Slot : itab[s].cnt # 0 => dinode[itab[s].num] = Inode(itab[s].size, itab[s].start)

\* Opening and creating keep the promise of FileNames.  A file is there once
\* the call that made it returns.
Making(t) == call[t].create /\ (call[t].then = "open" \/ (call[t].at = "claim"))
NameOf(s) == LET g == CHOOSE x \in Index : dir[x].ino = itab[s].num IN dir[g].name
FileNames == INSTANCE FileNames WITH
    files <- {dir[g].name : g \in {x \in Index : x < itab[0].size}}
                \ ({None, Dot} \cup {call[t].name : t \in {u \in Task : Making(u)}}),
    open <- [t \in Task |-> [f \in File |->
                IF filp[t][f] = None THEN None
                ELSE IF fdt[filp[t][f]] = None THEN None ELSE NameOf(fdt[filp[t][f]])]],
    ask <- [t \in Task |-> IF call[t].name = None THEN None
                           ELSE [name |-> call[t].name, create |-> call[t].create]]
FilesImplemented ==
    /\ FileNames!FilesInit
    /\ [][breach' = {} => FileNames!FilesNext \/ UNCHANGED FileNames!fileVars]_vars
=============================================================================
