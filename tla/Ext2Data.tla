------------------------------ MODULE Ext2Data ------------------------------
(***************************************************************************)
(* Where the bytes of a file go: do_rdwt of fs/simple_ext2.c, lines        *)
(* 931-1049, on the sectors of the files, which lie one behind the other   *)
(* on the card.  A turn of its loop (a sector read, some bytes of it used  *)
(* or replaced, the sector written back) is one step; what other tasks do  *)
(* to the sector buffer meanwhile is the subject of Ext2, so only one call *)
(* is under way here.                                                      *)
(*                                                                         *)
(* The position of a descriptor is counted twice, in fd_pos and in i_size, *)
(* so little of what a file usually can do works.  The ghost breach        *)
(* collects what has happened:                                             *)
(*   "past"   a write would end behind the sectors of the file             *)
(*   "again"  a file was written that held data already                    *)
(*   "far"    a read that is not the descriptor's first, asks for more     *)
(*            than the file holds, or ends, counted from the file's end,   *)
(*            behind its first sector                                      *)
(***************************************************************************)
EXTENDS Integers, Sequences, SequencesExt

CONSTANTS File, Desc, None,
          Order,       \* the files in the order of their sectors
          S,           \* SECTOR_SIZE
          FileSects,   \* i_total_sects
          MaxCount,    \* bound: bytes of one call
          MaxWrites,   \* bound: calls of write
          MaxReads     \* bound: calls of read

ASSUME Ext2DataAssumption ==
    /\ {S, FileSects, MaxCount} \subseteq Nat \ {0}
    /\ Order \in Seq(File) /\ File = ToSet(Order) /\ Len(Order) > 1

Sect   == 0 .. Len(Order) * FileSects     \* those of the files, and one more
Offset == 0 .. S - 1
Cap    == FileSects * S
Start  == [f \in File |-> FileSects * ((CHOOSE i \in DOMAIN Order : Order[i] = f) - 1)]

VARIABLES disk,        \* the bytes of every sector; 0 where nothing was written
          size,        \* i_size of each file
          file, pos,   \* each descriptor's file, or None, and its fd_pos
          call,        \* the locals of do_rdwt
          got,         \* the bytes read so far, the caller's buffer
          image,       \* ghost: the bytes each file's sectors ought to hold
          content,     \* ghost: what has been written to each file, in order
          writes, reads, breach

vars   == <<disk, size, file, pos, call, got, image, content, writes, reads, breach>>
ghosts == <<image, content, writes, reads, breach>>

Idle == [at |-> "idle", d |-> None, off |-> 0, i |-> 0, max |-> 0, left |-> 0, done |-> 0]
Lesser(a, b) == IF a >= b THEN b ELSE a
Only(r, bad) == IF bad THEN {r} ELSE {}

\* The k-th byte, from 0, of the w-th write
Byte(w, k)  == w * MaxCount + k
Bytes(w, n) == [k \in 1 .. n |-> Byte(w, k - 1)]

\* The position both reading and writing start from, line 937
Pos(d) == pos[d] + size[file[d]]

Open(d, f) ==
    /\ call.at = "idle"
    /\ file[d] = None
    /\ file' = [file EXCEPT ![d] = f]
    /\ pos' = [pos EXCEPT ![d] = 0]
    /\ UNCHANGED <<disk, size, call, got, ghosts>>

Close(d) ==
    /\ call.at = "idle"
    /\ file[d] # None
    /\ file' = [file EXCEPT ![d] = None]
    /\ UNCHANGED <<disk, size, pos, call, got, ghosts>>

\* Lines 976-994; at least one sector is used, even where none is needed.
Enter(rw, d, n, end) ==
    call' = [at |-> rw, d |-> d, off |-> Pos(d) % S,
             i |-> Start[file[d]] + Pos(d) \div S,
             max |-> Start[file[d]] + end \div S, left |-> n, done |-> 0]

ReadStart(d, n) ==
    LET f == file[d]
    IN  /\ call.at = "idle" /\ "past" \notin breach /\ reads < MaxReads
        /\ f # None
        /\ Enter("read", d, n, Lesser(Pos(d) + n, size[f]))
        /\ got' = <<>>
        /\ reads' = reads + 1
        /\ breach' = breach \cup Only("far", pos[d] # 0 \/ n > size[f] \/ size[f] + n > S)
        /\ UNCHANGED <<disk, size, file, pos, image, content, writes>>

WriteStart(d, n) ==
    LET f == file[d]
    IN  /\ call.at = "idle" /\ "past" \notin breach /\ writes < MaxWrites
        /\ f # None
        /\ Enter("write", d, n, Lesser(Pos(d) + n, Cap))
        /\ writes' = writes + 1
        /\ image' = [image EXCEPT ![f] = [p \in 0 .. Cap - 1 |->
                        IF p - Pos(d) \in 0 .. n - 1 THEN Byte(writes', p - Pos(d)) ELSE @[p]]]
        /\ content' = [content EXCEPT ![f] = @ \o Bytes(writes', n)]
        /\ breach' = breach \cup Only("past", Pos(d) + n > Cap) \cup Only("again", n > 0 /\ size[f] > 0)
        /\ UNCHANGED <<disk, size, file, pos, got, reads>>

\* The bytes of a turn, line 999
Piece(c) == Lesser(c.left, S - c.off)

\* What a turn leaves behind, lines 1033-1036
\* Slip: the offset into the first sector is used in all of them.
NextTurnOff ==
    /\ call' = [call EXCEPT !.i = @ + 1, !.left = @ - Piece(call), !.done = @ + Piece(call)]
    /\ pos' = [pos EXCEPT ![call.d] = @ + Piece(call)]
NextTurn ==
    /\ call' = [call EXCEPT !.off = 0, !.i = @ + 1, !.left = @ - Piece(call), !.done = @ + Piece(call)]
    /\ pos' = [pos EXCEPT ![call.d] = @ + Piece(call)]

\* Slip: they are taken at the offset.
ReadTurnAt ==
    /\ call.at = "read"
    /\ call.i <= call.max
    /\ got' = got \o [k \in 1 .. Piece(call) |-> disk[call.i][call.off + k - 1]]
    /\ NextTurn
    /\ UNCHANGED <<disk, size, file, ghosts>>

\* The bytes are taken from the beginning of the sector, line 1015.
ReadTurn ==
    /\ call.at = "read"
    /\ call.i <= call.max
    /\ got' = got \o [k \in 1 .. Piece(call) |-> disk[call.i][k - 1]]
    /\ NextTurn
    /\ UNCHANGED <<disk, size, file, ghosts>>

\* They are put at their offset, line 1019.
WriteTurn ==
    /\ call.at = "write"
    /\ call.i <= call.max
    /\ disk' = [disk EXCEPT ![call.i] = [o \in Offset |->
                   IF o - call.off \in 0 .. Piece(call) - 1
                   THEN Byte(writes, call.done + o - call.off) ELSE @[o]]]
    /\ NextTurn
    /\ UNCHANGED <<size, file, got, ghosts>>

\* Slip: the size follows the position back, too.
FinishAlways ==
    /\ call.at # "idle" /\ call.i > call.max
    /\ size' = [size EXCEPT ![file[call.d]] = pos[call.d]]
    /\ call' = Idle
    /\ UNCHANGED <<disk, file, pos, got, ghosts>>

\* Lines 1039-1047
Finish ==
    /\ call.at # "idle" /\ call.i > call.max
    /\ size' = [size EXCEPT ![file[call.d]] = IF pos[call.d] > @ THEN pos[call.d] ELSE @]
    /\ call' = Idle
    /\ UNCHANGED <<disk, file, pos, got, ghosts>>

Init ==
    /\ disk = [s \in Sect |-> [o \in Offset |-> 0]]
    /\ size = [f \in File |-> 0]
    /\ file = [d \in Desc |-> None] /\ pos = [d \in Desc |-> 0]
    /\ call = Idle
    /\ got = <<>>
    /\ image = [f \in File |-> [p \in 0 .. Cap - 1 |-> 0]]
    /\ content = [f \in File |-> <<>>]
    /\ writes = 0 /\ reads = 0 /\ breach = {}

Next ==
    \/ \E d \in Desc : \/ \E f \in File : Open(d, f)
                       \/ Close(d)
                       \/ \E n \in 0 .. MaxCount : ReadStart(d, n) \/ WriteStart(d, n)
    \/ ReadTurn \/ WriteTurn \/ Finish

Spec == Init /\ [][Next]_vars

-----------------------------------------------------------------------------
(* Properties                                                              *)

Quiet == call.at = "idle"

\* The sectors of the files hold what the calls meant to put there
Landed == \A f \in File, p \in 0 .. Cap - 1 :
             disk[Start[f] + p \div S][p % S] = image[f][p]

\* Every byte of a write lands at the place computed for it, and no other byte
\* of this or another file changes, wherever the write begins and ends within
\* its sectors and although one sector too many may be read and written back.
WritesLand == Quiet /\ "past" \notin breach => Landed

\* A file is as long as what has been written to it, over any sequence of
\* opens, calls and closes through several descriptors.
SizeTrue == Quiet /\ breach = {} => \A f \in File : size[f] = Len(content[f])

\* A read returns the first bytes of what was written to the file, as fs_task
\* of init/main.c expects when it writes a file, opens it anew and reads it.
ReadBack ==
    [][call.at = "read" /\ Quiet' /\ breach = {} =>
          LET f == file[call.d] IN got = SubSeq(content[f], 1, call.done) /\ call.left = 0]_vars

\* Line 981 limits a write to the sectors of its file: no write, however long,
\* changes the bytes of another file.
WriteLimited ==
    [][call.at = "write" =>
          \A f \in File \ {file[call.d]}, s \in Sect :
             s \in Start[f] .. Start[f] + FileSects - 1 => disk'[s] = disk[s]]_vars
=============================================================================
