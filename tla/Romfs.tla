------------------------------- MODULE Romfs -------------------------------
(***************************************************************************)
(* romfs (fs/romfs.c) behind the file system switch: the walk over the     *)
(* headers on the card, the one open file all descriptors share, reading   *)
(* through the buffer at 0x33600000, and the listing of the shell.         *)
(* Addresses on the card count units of 16 bytes, what headers, names and  *)
(* data are aligned to; a sector has SectorUnits of them.                  *)
(*                                                                         *)
(* romBreach collects what has happened that romfs does not bear:          *)
(*   "inside"  two tasks were in romfs (or on the card) at a time          *)
(*   "busy"    a file was opened while another one was open                *)
(*   "absent"  a file was opened that is not there                         *)
(*   "path"    a path had more than one name                               *)
(*   "edge"    a name was looked at that goes on in the next sector        *)
(*   "room"    a sector was read over what lies behind a struct of 16      *)
(*             bytes, further than the build leaves room for               *)
(*   "wide"    a name was found that is longer than the 50 bytes kept      *)
(*   "small"   the caller has less room than the file has bytes            *)
(* romWild says that the pointer of a closed file has been followed.       *)
(***************************************************************************)
EXTENDS Vfs, FiniteSets

CONSTANTS RomFs,          \* the name of romfs
          SectorUnits,    \* 32 on the card
          VolumeUnits,    \* units of the name of the volume
          Header,         \* the headers of the image, by address
          Root,           \* the first header there is
          NameUnits,      \* units that inode->name holds, 3 in the build
          Rooms,          \* units behind romfs_inode that builds leave
          Paths           \* what tasks open, as sequences of names

\* Where the data of a file lie
Data(h) == h + 1 + Header[h].units .. h + Header[h].units + Header[h].size

ASSUME RomfsAssumption ==
    /\ RomFs \in Fs
    /\ SectorUnits \in Nat \ {0} /\ NameUnits \in Nat
    /\ VolumeUnits \in 1 .. 14 /\ Root = 1 + VolumeUnits   \* a short name
    /\ IsFiniteSet(DOMAIN Header) /\ Root \in DOMAIN Header
    /\ \A h \in DOMAIN Header :              \* headers and files in the order of the card
          /\ h \in Nat \ {0} /\ {Header[h].units, Header[h].size} \subseteq Nat
          /\ Header[h].next \in {k \in DOMAIN Header : k > h} \cup {0}
          /\ \A k \in DOMAIN Header : k # h => Data(h) \cap Data(k) = {}
    /\ \A d \in Paths : d # <<>> /\ d \in Seq({d[k] : k \in DOMAIN d})
    /\ Rooms \subseteq Nat

VARIABLES rom,          \* where each task is in romfs, and its locals
          room,         \* what the build leaves behind romfs_inode
          romInode,     \* open_romfs_inode
          romPointer,   \* romfs_file.fd_inode_ptr
          path,         \* ghost: what each task asked for
          got,          \* ghost: what it was given
          romBreach, romWild

romVars == <<rom, room, romInode, romPointer, path, got, romBreach, romWild>>
romData == <<romInode, romPointer>>

Nobody   == [at |-> "out"]
Inside(t) == rom[t].at # "out"
Free(t)   == ~Inside(t) /\ ~romWild
Goes(t)   == Inside(t) /\ ~romWild /\ "inside" \notin romBreach
\* Calls begin as long as no rule has been broken; when two tasks have met inside
\* nothing is known any more.
Calls(t)  == Free(t) /\ romBreach = {}
Breaks(rules) == romBreach' = romBreach \cup rules
Meets(t)  == Only("inside", \E u \in Task \ {t} : Inside(u))
At(t, where) == Goes(t) /\ rom[t].at = where
Becomes(t, r) == rom' = [rom EXCEPT ![t] = r]

-----------------------------------------------------------------------------
(* The macros of romfs.h                                                   *)

\* The sum is shifted into the highest byte and read from there.
FirstHeader == (1 + VolumeUnits) % 16
DataAddress(daddr, units) == daddr + 1 + units

\* Slip: one sector more than the data fill.
SectorsTight(size) == (size \div SectorUnits) + 1
SectorsFor(size) == (size \div SectorUnits) + 2

Straddles(h) == (h % SectorUnits) + 1 + Header[h].units > SectorUnits

-----------------------------------------------------------------------------
(* simple_romfs_namei and show_dir_entry                                   *)

\* bmap: the next name, and whether a NUL was put behind it
Component(dir) == [name |-> Head(dir), clear |-> Len(dir) = 1, rest |-> Tail(dir)]

StartWalk(kind, dir) ==
    [at |-> "super", kind |-> kind, part |-> Component(dir), fname |-> dir[Len(dir)],
     next |-> 0, tmp |-> 0, p |-> 0, seen |-> <<>>]

RomOpen(t) ==
    /\ Calls(t)
    /\ Call(t) /\ tempFsType = RomFs /\ filp'[t] = RomFs
    /\ \E dir \in Paths :
          /\ Becomes(t, StartWalk("open", dir))
          /\ path' = [path EXCEPT ![t] = dir]
          /\ Breaks(Meets(t) \cup Only("path", Len(dir) > 1)
                    \cup Only("busy", \E u \in Task \ {t} : filp[u] = RomFs))
    /\ UNCHANGED <<room, romData, got, romWild>>

\* The shell lists the root directory while it has no file open.
List(t) ==
    /\ Calls(t) /\ at[t] = "idle"
    /\ Becomes(t, StartWalk("list", <<"">>))
    /\ Breaks(Meets(t))
    /\ UNCHANGED <<vars, room, romData, path, got, romWild>>

Super(t) ==
    /\ At(t, "super")
    /\ Becomes(t, [rom[t] EXCEPT !.at = "walk", !.next = FirstHeader])
    /\ Breaks(Only("room", SectorUnits > room))
    /\ UNCHANGED <<vars, room, romData, path, got, romWild>>

\* The sector is read where p is, and p goes on to the header in it.
Fetch(t) ==
    /\ At(t, "walk") /\ rom[t].next # 0
    /\ LET h == rom[t].next
           p == rom[t].p IN
       /\ Becomes(t, [rom[t] EXCEPT !.at = "look", !.tmp = h, !.p = p + (h % SectorUnits)])
       /\ Breaks(Only("room", p + SectorUnits > room))
    /\ UNCHANGED <<vars, room, romData, path, got, romWild>>

\* What strcmp may say of the name at p and the name looked for
Equal(t) == IF ~Straddles(rom[t].tmp) /\ rom[t].part.clear
            THEN {Header[rom[t].tmp].name = rom[t].part.name} ELSE BOOLEAN

\* Slip: the next header is looked for where a directory keeps its files.
LookInside(t) ==
    /\ At(t, "look") /\ rom[t].kind = "open"
    /\ LET h == Header[rom[t].tmp] IN
       \E equal \in Equal(t) :
          Becomes(t, IF equal THEN [rom[t] EXCEPT !.at = "found"]
                     ELSE [rom[t] EXCEPT !.at = "walk", !.next = h.spec])
    /\ Breaks(Only("edge", Straddles(rom[t].tmp)))
    /\ UNCHANGED <<vars, room, romData, path, got, romWild>>

Look(t) ==
    /\ At(t, "look") /\ rom[t].kind = "open"
    /\ LET h == Header[rom[t].tmp]
           w == rom[t].part IN
       \E equal \in Equal(t) :
          Becomes(t, IF ~equal THEN [rom[t] EXCEPT !.at = "walk", !.next = h.next]
                     ELSE IF w.name = rom[t].fname THEN [rom[t] EXCEPT !.at = "found"]
                     ELSE LET n == Component(w.rest) IN
                          [rom[t] EXCEPT !.at = IF n.rest = <<>> THEN "dir" ELSE "walk",
                                         !.next = h.spec, !.part = n])
    /\ Breaks(Only("edge", Straddles(rom[t].tmp)))
    /\ UNCHANGED <<vars, room, romData, path, got, romWild>>

\* FOUNDDIR: p goes on by the whole address, to memory nobody has read.  Any
\* header may seem to be the one, or none.
Founddir(t) ==
    /\ At(t, "dir")
    /\ \/ \E h \in DOMAIN Header : Becomes(t, [rom[t] EXCEPT !.at = "found", !.tmp = h])
       \/ Becomes(t, [rom[t] EXCEPT !.at = "walk", !.next = 0])
    /\ UNCHANGED <<vars, room, romData, path, got, romBreach, romWild>>

\* The one inode and the one open file are set; a descriptor is returned.
Found(t) ==
    /\ At(t, "found")
    /\ LET h == Header[rom[t].tmp] IN
       /\ romInode' = [units |-> h.units, dsize |-> h.size, daddr |-> rom[t].tmp]
       /\ Breaks(Only("wide", h.units > NameUnits))
    /\ romPointer' = "inode"
    /\ Becomes(t, Nobody)
    /\ UNCHANGED <<vars, room, path, got, romWild>>

\* Not found: the inode keeps what it held, and all the rest is the same.
NotFound(t) ==
    /\ At(t, "walk") /\ rom[t].next = 0 /\ rom[t].kind = "open"
    /\ romPointer' = "inode"
    /\ Becomes(t, Nobody)
    /\ Breaks({"absent"})
    /\ UNCHANGED <<vars, room, romInode, path, got, romWild>>

Show(t) ==
    /\ At(t, "look") /\ rom[t].kind = "list"
    /\ LET h == Header[rom[t].tmp] IN
       Becomes(t, [rom[t] EXCEPT !.at = "walk", !.next = h.next, !.seen = Append(@, h.name)])
    /\ Breaks(Only("edge", Straddles(rom[t].tmp)))
    /\ UNCHANGED <<vars, room, romData, path, got, romWild>>
ListDone(t) ==
    /\ At(t, "walk") /\ rom[t].next = 0 /\ rom[t].kind = "list"
    /\ Becomes(t, Nobody)
    /\ UNCHANGED <<vars, room, romData, path, got, romBreach, romWild>>

-----------------------------------------------------------------------------
(* romfs_read and romfs_close                                              *)

\* The position and the count are not looked at.
ReadStart(t) ==
    /\ Calls(t)
    /\ Use(t, "read") /\ tempFsType = RomFs /\ filp[t] = RomFs
    /\ \E enough \in BOOLEAN : Breaks(Meets(t) \cup Only("small", ~enough))
    /\ romWild' = (romPointer = "null")
    /\ Becomes(t, [at |-> "sectors"])
    /\ UNCHANGED <<room, romData, path, got>>

ReadSectors(t) ==
    /\ At(t, "sectors")
    /\ LET a == DataAddress(romInode.daddr, romInode.units)
       IN  Becomes(t, [at |-> "copy", from |-> a \div SectorUnits, n |-> SectorsFor(romInode.dsize)])
    /\ UNCHANGED <<vars, room, romData, path, got, romBreach, romWild>>

\* A unit on the card: part k of the data of the file at h, or something else
Cell(u) == LET file == {h \in DOMAIN Header : u \in Data(h)}
           IN  IF file = {} THEN <<>>
               ELSE LET h == CHOOSE h \in file : TRUE IN <<Header[h].name, u - h - Header[h].units>>
\* What lies at unit k of the buffer at 0x33600000
InArea(a, k) == IF k < a.n * SectorUnits THEN Cell(a.from * SectorUnits + k) ELSE <<>>

CopyOut(t) ==
    /\ At(t, "copy")
    /\ LET offset == DataAddress(romInode.daddr, romInode.units) % SectorUnits
       IN  got' = [got EXCEPT ![t] = [k \in 1 .. romInode.dsize |-> InArea(rom[t], offset + k - 1)]]
    /\ Becomes(t, [at |-> "read"])
    /\ UNCHANGED <<vars, room, romData, path, romBreach, romWild>>
\* The task has seen what it was given.
ReadDone(t) ==
    /\ At(t, "read")
    /\ Becomes(t, Nobody)
    /\ got' = [got EXCEPT ![t] = <<>>]
    /\ UNCHANGED <<vars, room, romData, path, romBreach, romWild>>

\* The file that all descriptors share loses its inode.
RomClose(t) ==
    /\ Calls(t)
    /\ Use(t, "release") /\ tempFsType = RomFs /\ filp[t] = RomFs
    /\ romPointer' = "null"
    /\ path' = [path EXCEPT ![t] = <<>>]
    /\ Breaks(Meets(t))
    /\ UNCHANGED <<rom, room, romInode, got, romWild>>

-----------------------------------------------------------------------------
(* Everything else of the switch, and the other file systems               *)

Elsewhere(t) ==
    /\ Free(t)
    /\ \/ romBreach = {} /\ \E x \in Fs : OpenStart(t, x)
       \/ Test(t) \/ Compare(t) \/ Step(t)
       \/ Call(t) /\ ~(tempFsType = RomFs /\ filp'[t] = RomFs)
       \/ \E op \in Op : /\ romBreach = {} /\ Use(t, op)
                         /\ tempFsType # RomFs \/ filp[t] # RomFs \/ op = "write"
    /\ UNCHANGED romVars
Registration == (\E x \in Fs : Register(x) \/ Unregister(x)) /\ UNCHANGED romVars

RomInit ==
    /\ Init
    /\ rom = [t \in Task |-> Nobody]
    /\ room \in Rooms
    /\ romInode = [units |-> 1, dsize |-> 0, daddr |-> 0]
    /\ romPointer = "null"
    /\ path = [t \in Task |-> <<>>] /\ got = [t \in Task |-> <<>>]
    /\ romBreach = {} /\ romWild = FALSE

RomNext ==
    \/ Registration
    \/ \E t \in Task : \/ Elsewhere(t)
                       \/ RomOpen(t) \/ List(t) \/ Super(t) \/ Fetch(t) \/ Look(t) \/ Founddir(t)
                       \/ Found(t) \/ NotFound(t) \/ Show(t) \/ ListDone(t)
                       \/ ReadStart(t) \/ ReadSectors(t) \/ CopyOut(t) \/ ReadDone(t) \/ RomClose(t)

RomSpec == RomInit /\ [][RomNext]_<<vars, romVars>>

-----------------------------------------------------------------------------
\* The names from header h on, in their order
NamesFrom(h) ==
    LET names[k \in DOMAIN Header \cup {0}] ==
            IF k = 0 THEN <<>> ELSE <<Header[k].name>> \o names[Header[k].next]
    IN  names[h]

\* As long as no rule is broken a read brings exactly the bytes of the file
\* that the task named when it opened it, from the first to the last, and the
\* shell is shown every name of the root directory in its order: although the
\* file, its inode and the sectors are kept where the next call puts its own.
RomfsTrue ==
    romBreach = {} =>
        /\ ~romWild
        /\ \A t \in Task :
              /\ Len(path[t]) = 1 /\ rom[t].at = "read" =>
                    \E h \in DOMAIN Header :
                       /\ Header[h].name = path[t][1]
                       /\ got[t] = [k \in 1 .. Header[h].size |-> <<path[t][1], k>>]
              /\ rom[t].at = "walk" /\ rom[t].kind = "list" =>
                    rom[t].seen \o NamesFrom(rom[t].next) = NamesFrom(Root)
=============================================================================
