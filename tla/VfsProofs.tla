----------------------------- MODULE VfsProofs -----------------------------
(***************************************************************************)
(* For any number of tasks and file systems, registered in any order:      *)
(* while do_open is alone, one file system at a time has open files and    *)
(* what is asked for exists, every call is served by the file system that  *)
(* made the file, and none goes through the list head.  The calls do not   *)
(* name their file system; the invariant says why the global cursor names  *)
(* it for them: outside do_open it stands at the file system of every open *)
(* file, and inside it has not passed the one that is asked for.           *)
(*                                                                         *)
(* romfs behind the switch leaves it as Vfs describes it, so that what is  *)
(* proved of the switch alone is true of the two together.                 *)
(*                                                                         *)
(* What romfs returns is right for every image whose headers go forward    *)
(* and whose files do not overlap.  The invariant RomInv says why one      *)
(* inode and one set of locals are enough: at most one task is in romfs,   *)
(* at most one has a file of it open, and the inode is that of this file   *)
(* from the moment the search for it ends.                                 *)
(***************************************************************************)
EXTENDS Romfs, FiniteSetTheorems, WellFoundedInduction, TLAPS

\* The entry y is at or behind the cursor, or behind it.
NotPassed(x, y) == \E i, j \in DOMAIN fsList : fsList[i] = x /\ fsList[j] = y /\ i <= j
StillAhead(x, y) == \E i, j \in DOMAIN fsList : fsList[i] = x /\ fsList[j] = y /\ i < j

Once == \A i, j \in DOMAIN fsList : fsList[i] = fsList[j] => i = j

\* What do_open knows while it walks
Walk(t) ==
    /\ asked[t] \in Listed
    /\ \A u \in Task : Walking(u) => u = t
    /\ \A u \in Task : filp[u] \in {asked[t], None}
    /\ at[t] \in {"test", "compare"} => NotPassed(tempFsType, asked[t])
    /\ at[t] = "step" => StillAhead(tempFsType, asked[t])
    /\ at[t] = "call" => tempFsType = asked[t]

\* What a task outside do_open may rely on
Open(t) ==
    /\ at[t] = "opened" <=> filp[t] # None
    /\ filp[t] \in Fs \cup {None}
    /\ filp[t] # None /\ (\A u \in Task : ~Walking(u)) => tempFsType = filp[t]

Right ==
    /\ ~misled /\ ~wild
    /\ \A t \in Task : Open(t) /\ (Walking(t) => Walk(t))

Inv == TypeOK /\ Once /\ (breach = {} => Right)

\* What is in the list is a file system, and not the head.
LEMMA ListedAreFs ==
    ASSUME fsList \in Seq(Fs)
    PROVE  Listed \subseteq Fs /\ ListHead \notin Listed /\ None \notin Listed
  BY VfsAssumption DEF Listed

\* The cursor starts at an entry or at the head.
LEMMA FirstListed ==
    ASSUME fsList \in Seq(Fs)
    PROVE  /\ First \in Listed \cup {ListHead}
           /\ \A y \in Listed : NotPassed(First, y)
<1>1. DOMAIN fsList = 1 .. Len(fsList) /\ Len(fsList) \in Nat
  OBVIOUS
<1>2. fsList = <<>> => Len(fsList) = 0
  OBVIOUS
<1>3. fsList # <<>> => 1 \in DOMAIN fsList
  BY <1>1
<1>4. First \in Listed \cup {ListHead}
  BY <1>3 DEF First, Listed
<1>5. ASSUME NEW y \in Listed PROVE NotPassed(First, y)
  <2>1. PICK j \in DOMAIN fsList : fsList[j] = y
    BY DEF Listed
  <2>2. fsList # <<>> /\ First = fsList[1]
    BY <2>1, <1>1, <1>2 DEF First
  <2>3. 1 <= j /\ 1 \in DOMAIN fsList
    BY <2>1, <1>1
  <2> QED  BY <2>1, <2>2, <2>3 DEF NotPassed
<1> QED  BY <1>4, <1>5

\* A step leads to an entry or the head, and not past an entry further on.
LEMMA BehindListed ==
    ASSUME fsList \in Seq(Fs), Once, NEW x \in Listed \cup {ListHead}
    PROVE  /\ Behind(x) \in Listed \cup {ListHead}
           /\ \A y \in Listed : StillAhead(x, y) => NotPassed(Behind(x), y)
<1>1. DOMAIN fsList = 1 .. Len(fsList) /\ Len(fsList) \in Nat
  OBVIOUS
<1>2. CASE x = ListHead
  <2>1. Behind(x) = First
    BY <1>2 DEF Behind
  <2>2. \A y : ~StillAhead(x, y)
    BY <1>2, ListedAreFs DEF StillAhead, Listed
  <2> QED  BY <2>1, <2>2, FirstListed
<1>3. CASE x \in Listed
  <2>1. PICK i \in DOMAIN fsList : fsList[i] = x
    BY <1>3 DEF Listed
  <2>2. Place(x) = i
    <3>1. Place(x) \in DOMAIN fsList /\ fsList[Place(x)] = x
      BY <2>1 DEF Place
    <3> QED  BY <2>1, <3>1 DEF Once
  <2>3. x # ListHead
    BY <1>3, ListedAreFs
  <2>4. Behind(x) = IF i = Len(fsList) THEN ListHead ELSE fsList[i + 1]
    BY <2>2, <2>3 DEF Behind
  <2>5. i # Len(fsList) => i + 1 \in DOMAIN fsList
    BY <1>1, <2>1
  <2>6. Behind(x) \in Listed \cup {ListHead}
    BY <2>4, <2>5 DEF Listed
  <2>7. ASSUME NEW y \in Listed, StillAhead(x, y) PROVE NotPassed(Behind(x), y)
    <3>1. PICK k, j \in DOMAIN fsList : fsList[k] = x /\ fsList[j] = y /\ k < j
      BY <2>7 DEF StillAhead
    <3>2. k = i
      BY <3>1, <2>1 DEF Once
    <3>3. i # Len(fsList) /\ i + 1 <= j
      BY <3>1, <3>2, <2>1, <1>1
    <3> QED  BY <3>1, <3>3, <2>4, <2>5 DEF NotPassed
  <2> QED  BY <2>6, <2>7
<1> QED  BY <1>2, <1>3

\* A name that has not been passed and is not here is still ahead.
LEMMA NotHere ==
    ASSUME fsList \in Seq(Fs), NEW x, NEW y, NotPassed(x, y), x # y
    PROVE  StillAhead(x, y)
  BY DEF NotPassed, StillAhead

\* Registering keeps every entry where it is.
LEMMA Registered ==
    ASSUME fsList \in Seq(Fs), Once, NEW x \in Fs, Register(x)
    PROVE  fsList' \in Seq(Fs) /\ Once' /\ Listed \subseteq Listed'
<1>1. CASE x \in Listed
  BY <1>1 DEF Register, Once, Listed
<1>2. CASE x \notin Listed
  <2>1. fsList' = Append(fsList, x)
    BY <1>2 DEF Register
  <2>2. /\ fsList' \in Seq(Fs) /\ Len(fsList') = Len(fsList) + 1
        /\ \A i \in 1 .. Len(fsList) : fsList'[i] = fsList[i]
        /\ fsList'[Len(fsList) + 1] = x
    BY <2>1
  <2>3. \A i \in 1 .. Len(fsList) : fsList[i] # x
    BY <1>2 DEF Listed
  <2>4. DOMAIN fsList = 1 .. Len(fsList) /\ DOMAIN fsList' = 1 .. Len(fsList) + 1 /\ Len(fsList) \in Nat
    BY <2>2
  <2>5. Once'
    <3> SUFFICES ASSUME NEW i \in DOMAIN fsList', NEW j \in DOMAIN fsList', fsList'[i] = fsList'[j]
                 PROVE  i = j
      BY DEF Once
    <3> QED  BY <2>2, <2>3, <2>4 DEF Once
  <2>6. Listed \subseteq Listed'
    BY <2>2, <2>4 DEF Listed
  <2> QED  BY <2>2, <2>5, <2>6
<1> QED  BY <1>1, <1>2

-----------------------------------------------------------------------------

\* Types and the list, whatever has happened.
LEMMA Types == TypeOK /\ Once /\ [Next]_vars => TypeOK' /\ Once'
<1> SUFFICES ASSUME TypeOK, Once, [Next]_vars PROVE TypeOK' /\ Once'
  OBVIOUS
<1> USE DEF TypeOK, local, Walking, Begins, On, Only, Shared
<1>1. ASSUME NEW x \in Fs, Register(x) PROVE TypeOK' /\ Once'
  BY <1>1, Registered DEF Register
<1>2. ASSUME NEW x \in Fs, Unregister(x) PROVE TypeOK' /\ Once'
  BY <1>2 DEF Unregister, Listed, Once
<1>3. ASSUME NEW t \in Task, NEW x \in Fs, OpenStart(t, x) PROVE TypeOK' /\ Once'
  <2>1. First \in Listed \cup {ListHead} /\ First # None
    BY FirstListed, ListedAreFs, VfsAssumption
  <2>2. Once' /\ Listed' = Listed /\ fsList' = fsList
    BY <1>3 DEF OpenStart, Once, Listed
  <2> QED  BY <1>3, <2>1, <2>2 DEF OpenStart
<1>4. ASSUME NEW t \in Task, Test(t) PROVE TypeOK' /\ Once'
  BY <1>4 DEF Test, Listed, Once
<1>5. ASSUME NEW t \in Task, Compare(t) PROVE TypeOK' /\ Once'
  BY <1>5 DEF Compare, Listed, Once
<1>6. ASSUME NEW t \in Task, Step(t) PROVE TypeOK' /\ Once'
  <2>1. tempFsType \in Listed \cup {ListHead}
    BY <1>6 DEF Step
  <2>2. Behind(tempFsType) \in Listed \cup {ListHead} /\ Behind(tempFsType) # None
    BY <2>1, BehindListed, ListedAreFs, VfsAssumption
  <2>3. Once' /\ Listed' = Listed /\ fsList' = fsList
    BY <1>6 DEF Step, Once, Listed
  <2> QED  BY <1>6, <2>2, <2>3 DEF Step
<1>7. ASSUME NEW t \in Task, Call(t) PROVE TypeOK' /\ Once'
  BY <1>7, ListedAreFs DEF Call, Listed, Once
<1>8. ASSUME NEW t \in Task, NEW op \in Op, Use(t, op) PROVE TypeOK' /\ Once'
  BY <1>8 DEF Use, Listed, Once
<1>9. CASE UNCHANGED vars
  BY <1>9 DEF vars, Listed, Once
<1> QED
  BY <1>1, <1>2, <1>3, <1>4, <1>5, <1>6, <1>7, <1>8, <1>9 DEF Next, Lost

\* A search that began alone finds what is there; a call that began alone goes
\* where the file was made.
LEMMA Stays == Inv /\ [Next]_vars => (breach' = {} => Right')
<1> SUFFICES ASSUME Inv, [Next]_vars, breach' = {} PROVE Right'
  OBVIOUS
<1>0. TypeOK /\ Once /\ fsList \in Seq(Fs)
  BY DEF Inv, TypeOK
<1> USE DEF local, Walking, Begins, On, Only, Shared
<1>1. ASSUME NEW x \in Fs, Register(x) PROVE Right'
  <2>1. breach = {} /\ Right
    BY <1>1 DEF Register, Inv
  <2> QED  BY <1>1, <2>1 DEF Register, Booting, Right, Open
<1>2. ASSUME NEW x \in Fs, Unregister(x) PROVE Right'
  <2>1. breach = {} /\ Right
    BY <1>2 DEF Unregister, Inv
  <2>2. x \in Listed
    BY <1>2 DEF Unregister
  <2> QED  BY <1>2, <2>1, <2>2 DEF Unregister, Booting, Right, Open
<1>3. ASSUME NEW t \in Task, NEW x \in Fs, OpenStart(t, x) PROVE Right'
  <2>1. breach = {} /\ Right /\ at[t] = "idle"
    BY <1>3 DEF OpenStart, Inv
  <2>2. /\ \A u \in Task : ~Walking(u)
        /\ x \in Listed
        /\ \A u \in Task : filp[u] \in {x, None}
    BY <1>3, <2>1 DEF OpenStart
  <2>3. at' = [at EXCEPT ![t] = "test"] /\ asked'[t] = x /\ NotPassed(tempFsType', x)
    BY <1>3, <1>0, <2>2, FirstListed DEF OpenStart, TypeOK
  <2>4. UNCHANGED <<fsList, filp, misled, wild>>
    BY <1>3 DEF OpenStart
  <2>5. Walk(t)'
    BY <1>0, <2>2, <2>3, <2>4 DEF Walk, Listed, NotPassed, TypeOK
  <2>6. ASSUME NEW u \in Task PROVE Open(u)' /\ (u # t => ~Walking(u)')
    BY <1>0, <2>1, <2>2, <2>3, <2>4 DEF Right, Open, TypeOK
  <2> QED  BY <2>1, <2>4, <2>5, <2>6 DEF Right
<1>4. ASSUME NEW t \in Task, Test(t) PROVE Right'
  <2>1. breach = {} /\ Right /\ at[t] = "test"
    BY <1>4 DEF Test, Inv
  <2>2. Walk(t) /\ tempFsType \in Listed
    BY <2>1 DEF Right, Walk, NotPassed, Listed
  <2>3. at' = [at EXCEPT ![t] = "compare"]
    BY <1>4, <1>0, <2>2, ListedAreFs DEF Test
  <2>4. UNCHANGED <<fsList, tempFsType, asked, filp, misled, wild>>
    BY <1>4 DEF Test
  <2>5. Walk(t)'
    BY <1>0, <2>1, <2>2, <2>3, <2>4 DEF Walk, Listed, NotPassed, TypeOK
  <2>6. ASSUME NEW u \in Task PROVE Open(u)' /\ (u # t => ~Walking(u)')
    BY <1>0, <2>1, <2>2, <2>3, <2>4 DEF Right, Open, Walk, TypeOK
  <2> QED  BY <2>1, <2>4, <2>5, <2>6 DEF Right
<1>5. ASSUME NEW t \in Task, Compare(t) PROVE Right'
  <2>1. breach = {} /\ Right /\ at[t] = "compare"
    BY <1>5 DEF Compare, Inv
  <2>2. Walk(t) /\ tempFsType \in Listed /\ NotPassed(tempFsType, asked[t])
    BY <2>1 DEF Right, Walk, NotPassed, Listed
  <2>3. ~wild'
    BY <1>5, <1>0, <2>2, ListedAreFs DEF Compare
  <2>4. UNCHANGED <<fsList, tempFsType, asked, filp, misled>>
    BY <1>5 DEF Compare
  <2>5. \/ at' = [at EXCEPT ![t] = "call"] /\ tempFsType = asked[t]
        \/ at' = [at EXCEPT ![t] = "step"] /\ StillAhead(tempFsType, asked[t])
    BY <1>5, <1>0, <2>2, NotHere DEF Compare
  <2>6. Walk(t)'
    BY <1>0, <2>2, <2>4, <2>5 DEF Walk, Listed, StillAhead, TypeOK
  <2>7. ASSUME NEW u \in Task PROVE Open(u)' /\ (u # t => ~Walking(u)')
    BY <1>0, <2>1, <2>2, <2>4, <2>5 DEF Right, Open, Walk, TypeOK
  <2> QED  BY <2>1, <2>3, <2>4, <2>6, <2>7 DEF Right
<1>6. ASSUME NEW t \in Task, Step(t) PROVE Right'
  <2>1. breach = {} /\ Right /\ at[t] = "step"
    BY <1>6 DEF Step, Inv
  <2>2. Walk(t) /\ tempFsType \in Listed /\ StillAhead(tempFsType, asked[t])
    BY <2>1 DEF Right, Walk, StillAhead, Listed
  <2>3. asked[t] \in Listed
    BY <2>2 DEF Walk
  <2>4. at' = [at EXCEPT ![t] = "test"] /\ NotPassed(tempFsType', asked[t])
    BY <1>6, <1>0, <2>2, <2>3, BehindListed DEF Step
  <2>5. UNCHANGED <<fsList, asked, filp, misled, wild>>
    BY <1>6 DEF Step
  <2>6. Walk(t)'
    BY <1>0, <2>2, <2>4, <2>5 DEF Walk, Listed, NotPassed, TypeOK
  <2>7. ASSUME NEW u \in Task PROVE Open(u)' /\ (u # t => ~Walking(u)')
    BY <1>0, <2>1, <2>2, <2>4, <2>5 DEF Right, Open, Walk, TypeOK
  <2> QED  BY <2>1, <2>5, <2>6, <2>7 DEF Right
<1>7. ASSUME NEW t \in Task, Call(t) PROVE Right'
  <2>1. breach = {} /\ Right /\ at[t] = "call"
    BY <1>7 DEF Call, Inv
  <2>2. Walk(t) /\ tempFsType = asked[t] /\ tempFsType \in Fs
    BY <1>0, <2>1, ListedAreFs DEF Right, Walk
  <2>3. ~wild' /\ ~misled' /\ UNCHANGED <<fsList, tempFsType>>
    BY <1>7, <2>1, <2>2, VfsAssumption DEF Call, Right
  <2>4. filp[t] = None
    BY <2>1 DEF Right, Open
  <2>5. \/ /\ at' = [at EXCEPT ![t] = "opened"]
           /\ filp' = [filp EXCEPT ![t] = tempFsType]
        \/ at' = [at EXCEPT ![t] = "idle"] /\ filp' = filp
    BY <1>7 DEF Call
  <2>6. ASSUME NEW u \in Task PROVE Open(u)' /\ ~Walking(u)'
    <3>1. filp[u] \in {tempFsType, None} /\ Open(u) /\ (u # t => ~Walking(u))
      BY <2>1, <2>2 DEF Right, Walk
    <3>2. CASE u = t
      BY <1>0, <2>2, <2>3, <2>4, <2>5, <3>2, VfsAssumption DEF Open, TypeOK
    <3>3. CASE u # t
      BY <1>0, <2>3, <2>5, <3>1, <3>3 DEF Open, TypeOK
    <3> QED  BY <3>2, <3>3
  <2> QED  BY <2>3, <2>6 DEF Right
<1>8. ASSUME NEW t \in Task, NEW op \in Op, Use(t, op) PROVE Right'
  <2>1. breach = {} /\ Right /\ at[t] = "opened"
    BY <1>8 DEF Use, Inv
  <2>2. \A u \in Task : ~Walking(u)
    BY <1>8, <2>1 DEF Use
  <2>3. filp[t] \in Fs /\ tempFsType = filp[t]
    BY <2>1, <2>2 DEF Right, Open
  <2>4. ~wild' /\ ~misled' /\ UNCHANGED <<fsList, tempFsType, asked>>
    BY <1>8, <2>1, <2>3, VfsAssumption DEF Use, Right
  <2>5. \/ at' = at /\ filp' = filp
        \/ /\ at' = [at EXCEPT ![t] = "idle"]
           /\ filp' = [filp EXCEPT ![t] = None]
    BY <1>8, <1>0 DEF Use, TypeOK
  <2>6. ASSUME NEW u \in Task PROVE Open(u)' /\ ~Walking(u)'
    <3>1. Open(u)
      BY <2>1 DEF Right
    <3> QED  BY <1>0, <2>2, <2>4, <2>5, <3>1 DEF Open, TypeOK
  <2> QED  BY <2>4, <2>6 DEF Right
<1>9. CASE UNCHANGED vars
  BY <1>9 DEF vars, Inv, Right, Open, Walk, Listed, NotPassed, StillAhead
<1> QED
  BY <1>1, <1>2, <1>3, <1>4, <1>5, <1>6, <1>7, <1>8, <1>9 DEF Next, Lost

LEMMA Starts == Init => Inv
<1> SUFFICES ASSUME Init PROVE Inv
  OBVIOUS
<1>1. fsList \in Seq(Fs) /\ DOMAIN fsList = {}
  BY DEF Init
<1>2. TypeOK /\ \A t \in Task : ~Walking(t)
  BY <1>1 DEF Init, TypeOK, Walking
<1>3. Once
  BY <1>1 DEF Once
<1>4. Right
  BY <1>2 DEF Init, Right, Open
<1> QED  BY <1>2, <1>3, <1>4 DEF Inv

LEMMA Always == Spec => []Inv
<1>1. Inv /\ [Next]_vars => Inv'
  BY Types, Stays DEF Inv
<1> QED  BY Starts, <1>1, PTL DEF Spec

-----------------------------------------------------------------------------

\* A read, a write or a close reaches the file system that made the file,
\* although only the global cursor of do_open says which that is.
THEOREM ServedRightAlways == Spec => []ServedRight
<1>1. Inv => ServedRight
  BY DEF Inv, Right, ServedRight
<1> QED  BY Always, <1>1, PTL

\* No call of do_open, do_read, do_write or do_close goes through the list
\* head, an unset pointer or an operation the file system lacks.
THEOREM NeverWildAlways == Spec => []NeverWild
<1>1. Inv => NeverWild
  BY DEF Inv, Right, NeverWild
<1> QED  BY Always, <1>1, PTL

\* The cursor is always at an entry of the list or at its head once the first
\* search has begun, whoever interleaves with it.
THEOREM VfsTypes == Spec => []TypeOK
<1>1. Inv => TypeOK
  BY DEF Inv
<1> QED  BY Always, <1>1, PTL

-----------------------------------------------------------------------------
(* romfs behind the switch                                                 *)

\* A step of a task inside romfs leaves the switch alone.
LEMMA InsideQuiet ==
    ASSUME NEW t \in Task,
           \/ List(t) \/ Super(t) \/ Fetch(t) \/ Look(t) \/ Founddir(t) \/ Found(t) \/ NotFound(t)
           \/ Show(t) \/ ListDone(t) \/ ReadSectors(t) \/ CopyOut(t) \/ ReadDone(t)
    PROVE  UNCHANGED vars
BY DEF List, Super, Fetch, Look, Founddir, Found, NotFound, Show, ListDone, ReadSectors, CopyOut, ReadDone

\* The other steps are steps of the switch: a file system makes a file, or an
\* operation goes to where the cursor stands.
LEMMA CallsOfSwitch ==
    ASSUME NEW t \in Task, Elsewhere(t) \/ RomOpen(t) \/ ReadStart(t) \/ RomClose(t)
    PROVE  Next
<1>1. CASE Elsewhere(t)
  BY <1>1 DEF Elsewhere, Next
<1>2. CASE RomOpen(t)
  BY <1>2 DEF RomOpen, Next
<1>3. CASE ReadStart(t)
  <2>1. Use(t, "read")
    BY <1>3 DEF ReadStart
  <2> QED BY <2>1 DEF Next, Op
<1>4. CASE RomClose(t)
  <2>1. Use(t, "release")
    BY <1>4 DEF RomClose
  <2> QED BY <2>1 DEF Next, Op
<1> QED BY <1>1, <1>2, <1>3, <1>4

\* The switch with romfs behind it behaves like the switch (fs.c:63-100) with
\* any file systems behind it.
THEOREM SwitchKept == RomSpec => Spec
<1>1. RomInit => Init
  BY DEF RomInit
<1>2. [RomNext]_<<vars, romVars>> => [Next]_vars
  <2> SUFFICES ASSUME [RomNext]_<<vars, romVars>>
               PROVE  [Next]_vars
    OBVIOUS
  <2>1. CASE Registration
    BY <2>1 DEF Registration, Next
  <2>2. ASSUME NEW t \in Task, Elsewhere(t) \/ RomOpen(t) \/ ReadStart(t) \/ RomClose(t)
        PROVE  [Next]_vars
    BY <2>2, CallsOfSwitch
  <2>3. ASSUME NEW t \in Task,
               \/ List(t) \/ Super(t) \/ Fetch(t) \/ Look(t) \/ Founddir(t) \/ Found(t) \/ NotFound(t)
               \/ Show(t) \/ ListDone(t) \/ ReadSectors(t) \/ CopyOut(t) \/ ReadDone(t)
        PROVE  [Next]_vars
    BY <2>3, InsideQuiet
  <2>4. CASE UNCHANGED <<vars, romVars>>
    BY <2>4
  <2> QED BY <2>1, <2>2, <2>3, <2>4 DEF RomNext
<1> QED BY <1>1, <1>2, PTL DEF RomSpec, Spec

\* While do_open is alone and one file system at a time has open files, every
\* call to romfs is for a file that romfs has made, and the other way round.
THEOREM RomfsServedRight == RomSpec => []ServedRight
BY SwitchKept, ServedRightAlways, PTL

-----------------------------------------------------------------------------
(* What romfs returns                                                      *)

Names   == {Header[h].name : h \in DOMAIN Header}
RootDir == <<"">>                      \* what List walks with
Parts   == {Component(d) : d \in Paths \cup {RootDir}}
Ends    == {d[Len(d)] : d \in Paths \cup {RootDir}}
Places  == DOMAIN Header \cup {0}
Walks   == [at : {"super", "walk", "look", "found"}, kind : {"open", "list"}, part : Parts,
            fname : Ends, next : Places, tmp : Places, p : Nat, seen : Seq(Names)]
Reading == [at : {"sectors", "read"}] \cup [at : {"copy"}, from : Nat, n : Nat]

Opens(t) == rom[t] \in Walks /\ rom[t].kind = "open"
Lists(t) == rom[t] \in Walks /\ rom[t].kind = "list"
Reads(t) == rom[t] \in Reading

\* The one inode is that of the file the task has named.
HasFile(t) ==
    /\ romPointer = "inode"
    /\ \E h \in DOMAIN Header :
          /\ Header[h].name = path[t][1]
          /\ romInode = [units |-> Header[h].units, dsize |-> Header[h].size, daddr |-> h]

\* A search is for the name the task gave, and ends at a header of this name.
OpenTrue(t) ==
    LET r == rom[t] IN
    /\ filp[t] = RomFs /\ path[t] \in Paths /\ Len(path[t]) = 1
    /\ r.part = Component(path[t]) /\ r.fname = path[t][1]
    /\ r.at \in {"look", "found"} => r.tmp \in DOMAIN Header
    /\ r.at = "found" => Header[r.tmp].name = path[t][1]
\* A listing has shown the names before the header it has come to.
ListTrue(t) ==
    LET r == rom[t] IN
    /\ r.at # "found"
    /\ r.at = "super" => r.seen = <<>>
    /\ r.at = "walk" => r.seen \o NamesFrom(r.next) = NamesFrom(Root)
    /\ r.at = "look" => r.tmp \in DOMAIN Header /\ r.seen \o NamesFrom(r.tmp) = NamesFrom(Root)
\* The sectors that are read are those the data lie in.
ReadTrue(t) ==
    LET r == rom[t]
        a == DataAddress(romInode.daddr, romInode.units) IN
    /\ filp[t] = RomFs
    /\ r.at = "copy" => r.from = a \div SectorUnits /\ r.n = SectorsFor(romInode.dsize)
    /\ r.at = "read" => \E h \in DOMAIN Header :
                           /\ Header[h].name = path[t][1]
                           /\ got[t] = [k \in 1 .. Header[h].size |-> <<path[t][1], k>>]

RomTypes ==
    /\ rom \in [Task -> {Nobody} \cup Walks \cup Reading]
    /\ DOMAIN path = Task /\ DOMAIN got = Task
TaskRight(t) ==
    /\ filp[t] = RomFs => Opens(t) \/ HasFile(t)
    /\ Opens(t) => OpenTrue(t)
    /\ Lists(t) => ListTrue(t)
    /\ Reads(t) => ReadTrue(t)
RomRight ==
    /\ ~romWild /\ RomTypes
    /\ \A t, u \in Task : Inside(t) /\ Inside(u) => t = u
    /\ \A t, u \in Task : filp[t] = RomFs /\ filp[u] = RomFs => t = u
    /\ \A t \in Task : TaskRight(t)
RomInv == romBreach = {} => RomRight

-----------------------------------------------------------------------------
(* The names behind a header                                               *)

LEMMA LeastOf == ASSUME NEW S \in SUBSET Nat, S # {} PROVE \E k \in S : \A j \in S : k <= j
  <1>1. PICK x \in S : \A y \in S : ~(<<y, x>> \in OpToRel(<, Nat))
    BY NatLessThanWellFounded, WFMin
  <1>2. \A y \in S : ~(y < x)
    BY <1>1 DEF OpToRel
  <1> QED BY <1>2

Later(k) == {j \in DOMAIN Header : j > k}

\* There are finitely many headers, so one of them comes last.
LEMMA LatestOf ==
    ASSUME NEW S \in SUBSET DOMAIN Header, S # {}
    PROVE  \E k \in S : \A j \in S : j <= k
  <1> DEFINE count(k) == Cardinality(Later(k))
             Counts == {count(k) : k \in S}
  <1>1. \A k \in DOMAIN Header : k \in Nat
    BY RomfsAssumption
  <1>2. ASSUME NEW k \in S PROVE IsFiniteSet(Later(k)) /\ count(k) \in Nat
    <2>1. IsFiniteSet(Later(k))
      BY RomfsAssumption, FS_Subset DEF Later
    <2> QED BY <2>1, FS_CardinalityType
  <1>3. Counts \in SUBSET Nat /\ Counts # {}
    BY <1>2
  <1>4. PICK c \in Counts : \A d \in Counts : c <= d
    BY <1>3, LeastOf
  <1>5. PICK k \in S : c = count(k)
    BY <1>4
  <1>6. ASSUME NEW j \in S, ~(j <= k) PROVE FALSE
    <2>1. j \in Nat /\ k \in Nat /\ j > k
      BY <1>1, <1>6
    <2>2. Later(j) \subseteq Later(k)
      BY <2>1, <1>1 DEF Later
    <2>3. j \in Later(k) /\ j \notin Later(j)
      BY <2>1 DEF Later
    <2>4. count(j) < count(k)
      <3>1. IsFiniteSet(Later(k)) /\ Later(j) # Later(k)
        BY <1>2, <2>3
      <3>2. count(j) <= count(k) /\ count(j) # count(k)
        BY <3>1, <2>2, FS_Subset
      <3> QED BY <3>2, <1>2
    <2>5. count(k) <= count(j)
      BY <1>4, <1>5
    <2> HIDE DEF count
    <2> QED BY <2>4, <2>5, <1>2
  <1> QED BY <1>6

NameStep(f, k) == IF k = 0 THEN <<>> ELSE <<Header[k].name>> \o f[Header[k].next]
Onward(k) == {j \in DOMAIN Header : j >= k} \cup {0}

\* The walk over the headers ends, as each one names a later one.
LEMMA NamesExist == \E f : f = [k \in Places |-> NameStep(f, k)]
  <1> DEFINE Good(f, k) == /\ f \in [Onward(k) -> Seq(Names)]
                           /\ \A j \in Onward(k) : f[j] = NameStep(f, j)
             Bad == {k \in DOMAIN Header : ~\E f : Good(f, k)}
  <1>0. \A k \in DOMAIN Header : /\ k \in Nat
                                 /\ Header[k].next \in {j \in DOMAIN Header : j > k} \cup {0}
    BY RomfsAssumption
  <1>8. 0 \notin DOMAIN Header
    BY RomfsAssumption
  <1>1. Bad = {}
    <2> SUFFICES ASSUME Bad # {} PROVE FALSE
      OBVIOUS
    <2>1. PICK k \in Bad : \A j \in Bad : j <= k
      BY LatestOf
    <2>2. k \in Nat /\ k # 0
      BY <2>1, <1>0, <1>8
    <2>3. \E f : f \in [Later(k) \cup {0} -> Seq(Names)] /\ \A j \in Later(k) \cup {0} : f[j] = NameStep(f, j)
      <3>1. CASE Later(k) = {}
        <4> DEFINE f == [j \in {0} |-> <<>>]
        <4>1. f \in [{0} -> Seq(Names)] /\ f[0] = <<>>
          OBVIOUS
        <4>2. f[0] = NameStep(f, 0)
          BY <4>1 DEF NameStep
        <4> HIDE DEF f
        <4> QED BY <3>1, <4>1, <4>2
      <3>2. CASE Later(k) # {}
        <4>1. Later(k) \in SUBSET Nat
          BY <1>0 DEF Later
        <4>2. PICK m \in Later(k) : \A j \in Later(k) : m <= j
          BY <4>1, <3>2, LeastOf
        <4>3. m \in DOMAIN Header /\ m \in Nat /\ m > k
          BY <4>2, <1>0 DEF Later
        <4>4. m \notin Bad
          BY <4>3, <2>1, <2>2
        <4>5. PICK f : Good(f, m)
          BY <4>3, <4>4
        <4>6. Onward(m) = Later(k) \cup {0}
          <5>1. \A j \in Later(k) : j \in DOMAIN Header /\ j >= m
            BY <4>2 DEF Later
          <5>2. \A j \in DOMAIN Header : j >= m => j > k
            BY <4>3, <2>2, <1>0
          <5> QED BY <5>1, <5>2 DEF Onward, Later
        <4> QED BY <4>5, <4>6
      <3> QED BY <3>1, <3>2
    <2>4. PICK f : f \in [Later(k) \cup {0} -> Seq(Names)] /\ \A j \in Later(k) \cup {0} : f[j] = NameStep(f, j)
      BY <2>3
    <2>5. Header[k].next \in Later(k) \cup {0}
      BY <2>1, <1>0 DEF Later
    <2> DEFINE v == <<Header[k].name>> \o f[Header[k].next]
               g == [j \in Onward(k) |-> IF j = k THEN v ELSE f[j]]
    <2>6. v \in Seq(Names)
      <3>1. <<Header[k].name>> \in Seq(Names)
        BY <2>1 DEF Names
      <3>2. f[Header[k].next] \in Seq(Names)
        BY <2>4, <2>5
      <3> QED BY <3>1, <3>2
    <2>7. \A j \in Onward(k) : j # k => j \in Later(k) \cup {0}
      BY <2>2, <1>0 DEF Onward, Later
    <2>8. \A j \in Later(k) \cup {0} : j # k /\ j \in Onward(k)
      BY <2>2, <1>0 DEF Onward, Later
    <2>9. k \in Onward(k)
      BY <2>1, <2>2 DEF Onward
    <2> HIDE DEF v
    <2>10. g \in [Onward(k) -> Seq(Names)]
      BY <2>4, <2>6, <2>7
    <2>11. \A j \in Later(k) \cup {0} : g[j] = f[j]
      BY <2>8
    <2>12. g[k] = v
      BY <2>9
    <2> HIDE DEF g
    <2>13. ASSUME NEW j \in Onward(k) PROVE g[j] = NameStep(g, j)
      <3>1. CASE j = k
        <4>1. g[Header[k].next] = f[Header[k].next]
          BY <2>5, <2>11
        <4> QED BY <3>1, <4>1, <2>2, <2>12 DEF NameStep, v
      <3>2. CASE j # k
        <4>1. j \in Later(k) \cup {0} /\ g[j] = f[j] /\ f[j] = NameStep(f, j)
          BY <3>2, <2>4, <2>7, <2>11
        <4>2. CASE j = 0
          BY <4>1, <4>2 DEF NameStep
        <4>3. CASE j # 0
          <5>1. j \in DOMAIN Header /\ j > k
            BY <4>1, <4>3 DEF Later
          <5>2. Header[j].next \in Later(k) \cup {0}
            BY <5>1, <1>0, <2>2 DEF Later
          <5>3. g[Header[j].next] = f[Header[j].next]
            BY <5>2, <2>11
          <5> QED BY <4>1, <4>3, <5>3 DEF NameStep
        <4> QED BY <4>2, <4>3
      <3> QED BY <3>1, <3>2
    <2>14. Good(g, k)
      BY <2>10, <2>13
    <2> QED BY <2>14, <2>1
  <1>2. DOMAIN Header \in SUBSET Nat /\ DOMAIN Header # {}
    BY <1>0, RomfsAssumption
  <1>3. PICK k \in DOMAIN Header : \A j \in DOMAIN Header : k <= j
    BY <1>2, LeastOf
  <1>4. PICK f : Good(f, k)
    BY <1>1, <1>3
  <1>5. Onward(k) = Places
    BY <1>3, <1>2 DEF Onward, Places
  <1>6. f = [j \in Places |-> f[j]]
    BY <1>4, <1>5
  <1>7. [j \in Places |-> f[j]] = [j \in Places |-> NameStep(f, j)]
    BY <1>4, <1>5
  <1> QED BY <1>6, <1>7

\* NamesFrom unfolds as it is written.
LEMMA NamesUnfold ==
    /\ NamesFrom(0) = <<>>
    /\ \A h \in DOMAIN Header : NamesFrom(h) = <<Header[h].name>> \o NamesFrom(Header[h].next)
    /\ \A h \in Places : NamesFrom(h) \in Seq(Names)
  <1> DEFINE f == CHOOSE g : g = [k \in DOMAIN Header \cup {0} |->
                                    IF k = 0 THEN <<>> ELSE <<Header[k].name>> \o g[Header[k].next]]
  <1>1. f = [k \in DOMAIN Header \cup {0} |->
                                    IF k = 0 THEN <<>> ELSE <<Header[k].name>> \o f[Header[k].next]]
    <2>1. \E g : g = [k \in DOMAIN Header \cup {0} |->
                                    IF k = 0 THEN <<>> ELSE <<Header[k].name>> \o g[Header[k].next]]
      BY NamesExist DEF NameStep, Places
    <2> QED BY <2>1
  <1>2. \A h : NamesFrom(h) = f[h]
    BY DEF NamesFrom
  <1> HIDE DEF f
  <1>3. f[0] = <<>>
    BY <1>1
  <1>0. \A k \in DOMAIN Header : /\ k \in Nat /\ k # 0
                                 /\ Header[k].next \in {j \in DOMAIN Header : j > k} \cup {0}
    BY RomfsAssumption
  <1>4. \A h \in DOMAIN Header : f[h] = <<Header[h].name>> \o f[Header[h].next]
    BY <1>1, <1>0
  <1> DEFINE Bad == {h \in DOMAIN Header : f[h] \notin Seq(Names)}
  <1>5. Bad = {}
    <2> SUFFICES ASSUME Bad # {} PROVE FALSE
      OBVIOUS
    <2>1. PICK k \in Bad : \A j \in Bad : j <= k
      BY LatestOf
    <2>2. f[Header[k].next] \in Seq(Names)
      <3>1. CASE Header[k].next = 0
        BY <3>1, <1>3
      <3>2. CASE Header[k].next # 0
        <4>1. Header[k].next \in DOMAIN Header /\ Header[k].next \in Nat /\ k \in Nat /\ Header[k].next > k
          BY <3>2, <2>1, <1>0
        <4>2. Header[k].next \notin Bad
          BY <4>1, <2>1
        <4> QED BY <4>1, <4>2
      <3> QED BY <3>1, <3>2
    <2>3. <<Header[k].name>> \in Seq(Names)
      BY <2>1 DEF Names
    <2>4. f[k] = <<Header[k].name>> \o f[Header[k].next]
      BY <2>1, <1>4
    <2>5. f[k] \in Seq(Names)
      BY <2>2, <2>3, <2>4
    <2> QED BY <2>5, <2>1
  <1>6. \A h \in Places : f[h] \in Seq(Names)
    <2>1. <<>> \in Seq(Names)
      OBVIOUS
    <2> QED BY <1>5, <1>3, <2>1 DEF Places
  <1> QED BY <1>2, <1>3, <1>4, <1>6

-----------------------------------------------------------------------------
(* The data of a file                                                      *)

LEMMA Split ==
    ASSUME NEW a \in Nat, NEW s \in Nat \ {0}
    PROVE  /\ a \div s \in Nat /\ a % s \in 0 .. s - 1
           /\ a = (a \div s) * s + (a % s)
  OBVIOUS

\* The sectors that romfs_read fetches hold every byte of the file, in its place.
LEMMA AreaHolds ==
    ASSUME NEW h \in DOMAIN Header, NEW r, NEW a,
           a = DataAddress(h, Header[h].units),
           r.from = a \div SectorUnits, r.n = SectorsFor(Header[h].size),
           NEW k \in 1 .. Header[h].size
    PROVE  InArea(r, (a % SectorUnits) + k - 1) = <<Header[h].name, k>>
  <1> DEFINE size == Header[h].size
             s == SectorUnits
             o == a % s
             q == a \div s
             z == size \div s
             y == size % s
  <1>1. s \in Nat \ {0}
    BY RomfsAssumption
  <1>2. h \in Nat /\ Header[h].units \in Nat /\ size \in Nat
    BY RomfsAssumption
  <1>3. a \in Nat /\ a = h + 1 + Header[h].units
    BY <1>2 DEF DataAddress
  <1>4. q \in Nat /\ o \in 0 .. s - 1 /\ a = q * s + o
    BY <1>1, <1>3, Split
  <1>5. z \in Nat /\ y \in 0 .. s - 1 /\ size = z * s + y
    BY <1>1, <1>2, Split
  <1>6. r.n = z + 2 /\ r.from = q
    BY DEF SectorsFor
  <1>7. k \in 1 .. size
    OBVIOUS
  <1>8. q * s \in Nat /\ z * s \in Nat
    BY <1>1, <1>4, <1>5
  <1>9. Cell(a + (k - 1)) = <<Header[h].name, k>>
    <2> DEFINE u == a + (k - 1)
               file == {g \in DOMAIN Header : u \in Data(g)}
    <2>1. u \in Data(h)
      BY <1>2, <1>3, <1>7 DEF Data
    <2>2. \A g \in DOMAIN Header : g # h => Data(g) \cap Data(h) = {}
      BY RomfsAssumption
    <2> HIDE DEF u
    <2>3. file = {h}
      BY <2>1, <2>2
    <2>4. Cell(u) = IF file = {} THEN <<>>
                    ELSE LET g == CHOOSE g \in file : TRUE IN <<Header[g].name, u - g - Header[g].units>>
      BY DEF Cell
    <2>5. (CHOOSE g \in file : TRUE) = h /\ file # {}
      BY <2>3
    <2>6. u - h - Header[h].units = k
      BY <1>2, <1>3, <1>7 DEF u
    <2> HIDE DEF file
    <2>7. Cell(u) = <<Header[h].name, u - h - Header[h].units>>
      BY <2>4, <2>5
    <2> QED BY <2>6, <2>7 DEF u
  <1>10. (z + 2) * s = z * s + 2 * s
    BY <1>1, <1>5
  <1> HIDE DEF size, s, o, q, z, y
  <1>11. q * s + (o + k - 1) = a + (k - 1)
    BY <1>1, <1>2, <1>4, <1>7, <1>8
  <1>12. o + k - 1 < (z + 2) * s
    BY <1>1, <1>2, <1>4, <1>5, <1>7, <1>8, <1>10
  <1>13. InArea(r, o + k - 1) = Cell(q * s + (o + k - 1))
    BY <1>6, <1>12 DEF InArea, s
  <1> QED BY <1>9, <1>11, <1>13 DEF o, s

-----------------------------------------------------------------------------
(* Where a task is                                                         *)

LEMMA Where ==
    ASSUME NEW t \in Task, RomTypes
    PROVE  /\ rom[t].at \in {"super", "walk", "look", "found"} => Opens(t) \/ Lists(t)
           /\ rom[t].at \in {"sectors", "copy", "read"} => Reads(t)
           /\ ~Inside(t) => rom[t] = Nobody
  <1>1. rom[t] \in {Nobody} \cup Walks \cup Reading
    BY DEF RomTypes
  <1> QED BY <1>1 DEF Opens, Lists, Reads, Inside, Nobody, Walks, Reading

LEMMA NotInside ==
    ASSUME NEW t \in Task, rom[t] = Nobody
    PROVE  ~Opens(t) /\ ~Lists(t) /\ ~Reads(t) /\ ~Inside(t)
  BY DEF Opens, Lists, Reads, Inside, Nobody, Walks, Reading

LEMMA Kinds ==
    ASSUME NEW t \in Task
    PROVE  /\ Opens(t) => ~Lists(t) /\ ~Reads(t) /\ Inside(t)
           /\ Lists(t) => ~Opens(t) /\ ~Reads(t) /\ Inside(t)
           /\ Reads(t) => ~Opens(t) /\ ~Lists(t) /\ Inside(t)
  BY DEF Opens, Lists, Reads, Inside, Walks, Reading

\* A walk goes on.
LEMMA WalkOn ==
    ASSUME NEW r \in Walks, NEW x \in {"super", "walk", "look", "found"}, NEW n \in Places,
           NEW m \in Places, NEW p \in Nat, NEW s \in Seq(Names)
    PROVE  [r EXCEPT !.at = x, !.next = n, !.tmp = m, !.p = p, !.seen = s] \in Walks
  BY DEF Walks

\* What a task does leaves the others as they are.
LEMMA RomFrame ==
    ASSUME NEW t \in Task, RomRight, RomTypes', ~romWild',
           \A u \in Task \ {t} : /\ rom'[u] = rom[u] /\ path'[u] = path[u]
                                 /\ got'[u] = got[u] /\ filp'[u] = filp[u],
           Inside(t)' => Inside(t) \/ \A u \in Task \ {t} : ~Inside(u),
           filp'[t] = RomFs => filp[t] = RomFs \/ \A u \in Task \ {t} : filp[u] # RomFs,
           UNCHANGED romData \/ \A u \in Task \ {t} : filp[u] # RomFs,
           TaskRight(t)'
    PROVE  RomRight'
  <1>1. ASSUME NEW u \in Task, u # t PROVE TaskRight(u)' /\ (Inside(u)' <=> Inside(u))
    <2>1. TaskRight(u)
      BY DEF RomRight
    <2>2. rom'[u] = rom[u] /\ path'[u] = path[u] /\ got'[u] = got[u] /\ filp'[u] = filp[u]
      BY <1>1
    <2>3. /\ Opens(u)' <=> Opens(u)
          /\ Lists(u)' <=> Lists(u)
          /\ Reads(u)' <=> Reads(u)
          /\ Inside(u)' <=> Inside(u)
      BY <2>2 DEF Opens, Lists, Reads, Inside
    <2>4. Opens(u) => OpenTrue(u)'
      BY <2>1, <2>2 DEF TaskRight, OpenTrue
    <2>5. Lists(u) => ListTrue(u)'
      BY <2>1, <2>2 DEF TaskRight, ListTrue
    <2>6. filp[u] = RomFs => UNCHANGED romData
      BY <1>1
    <2>7. filp[u] = RomFs /\ HasFile(u) => HasFile(u)'
      BY <2>2, <2>6 DEF HasFile, romData
    <2>8. Reads(u) => ReadTrue(u)'
      <3> SUFFICES ASSUME Reads(u) PROVE ReadTrue(u)'
        OBVIOUS
      <3>1. ReadTrue(u)
        BY <2>1 DEF TaskRight
      <3>2. UNCHANGED romInode
        BY <2>6, <3>1 DEF ReadTrue, romData
      <3> QED BY <2>2, <3>1, <3>2 DEF ReadTrue
    <2> QED BY <2>1, <2>2, <2>3, <2>4, <2>5, <2>7, <2>8 DEF TaskRight
  <1>2. \A u \in Task : TaskRight(u)'
    BY <1>1
  <1>3. ASSUME NEW u \in Task, NEW v \in Task, Inside(u)', Inside(v)' PROVE u = v
    <2>1. \A x, y \in Task : Inside(x) /\ Inside(y) => x = y
      BY DEF RomRight
    <2> QED BY <1>1, <1>3, <2>1
  <1>4. ASSUME NEW u \in Task, NEW v \in Task, filp'[u] = RomFs, filp'[v] = RomFs PROVE u = v
    <2>1. \A x, y \in Task : filp[x] = RomFs /\ filp[y] = RomFs => x = y
      BY DEF RomRight
    <2> QED BY <1>4, <2>1
  <1> QED BY <1>2, <1>3, <1>4 DEF RomRight

\* So does a step that only says where the task goes on.
LEMMA RomMoves ==
    ASSUME NEW t \in Task, RomRight, NEW r \in {Nobody} \cup Walks \cup Reading, Becomes(t, r),
           UNCHANGED <<filp, romData, path, got>>, ~romWild',
           Inside(t) \/ \A u \in Task \ {t} : ~Inside(u),
           rom'[t] = r => TaskRight(t)'
    PROVE  RomRight'
  <1>1. rom \in [Task -> {Nobody} \cup Walks \cup Reading] /\ DOMAIN path = Task /\ DOMAIN got = Task
    BY DEF RomRight, RomTypes
  <1>2. rom' = [rom EXCEPT ![t] = r]
    BY DEF Becomes
  <1>3. rom'[t] = r /\ \A u \in Task \ {t} : rom'[u] = rom[u]
    BY <1>1, <1>2
  <1>4. rom' \in [Task -> {Nobody} \cup Walks \cup Reading]
    BY <1>1, <1>2
  <1>5. RomTypes'
    BY <1>1, <1>4 DEF RomTypes
  <1>6. TaskRight(t)'
    BY <1>3
  <1> QED BY <1>3, <1>5, <1>6, RomFrame

\* What the rules rule out as long as none is broken
LEMMA Unbroken ==
    ASSUME NEW rules, Breaks(rules), romBreach' = {}
    PROVE  romBreach = {} /\ rules = {}
  BY DEF Breaks

LEMMA AloneIn ==
    ASSUME NEW t \in Task, Meets(t) = {}
    PROVE  \A u \in Task \ {t} : ~Inside(u)
  BY DEF Meets, Only

\* A task that has a file open and is not in romfs has the one inode.
LEMMA KeepsFile ==
    ASSUME NEW t \in Task, RomRight, filp[t] = RomFs, ~Opens(t)
    PROVE  HasFile(t)
  BY DEF RomRight, TaskRight

-----------------------------------------------------------------------------
(* The steps of a walk                                                     *)

LEMMA RootDirIs == RootDir \in Seq({RootDir[k] : k \in DOMAIN RootDir}) /\ Len(RootDir) = 1
  <1>1. ASSUME NEW x PROVE <<x>> \in Seq({<<x>>[k] : k \in DOMAIN <<x>>}) /\ Len(<<x>>) = 1
    OBVIOUS
  <1> QED BY <1>1 DEF RootDir

LEMMA StartsWalk ==
    ASSUME NEW kind \in {"open", "list"}, NEW dir \in Paths \cup {RootDir}
    PROVE  StartWalk(kind, dir) \in Walks
  <1>1. Component(dir) \in Parts /\ dir[Len(dir)] \in Ends /\ 0 \in Places /\ 0 \in Nat
    BY DEF Parts, Ends, Places
  <1>2. <<>> \in Seq(Names)
    OBVIOUS
  <1> QED BY <1>1, <1>2 DEF StartWalk, Walks

LEMMA RomOpenRight ==
    ASSUME RomInv, TypeOK, NEW t \in Task, RomOpen(t), romBreach' = {} PROVE RomRight'
  <1>1. romBreach = {} /\ ~Inside(t) /\ ~romWild
    BY DEF RomOpen, Calls, Free
  <1>2. RomRight /\ RomTypes
    BY <1>1 DEF RomInv, RomRight
  <1>3. PICK dir \in Paths : /\ Becomes(t, StartWalk("open", dir))
                             /\ path' = [path EXCEPT ![t] = dir]
                             /\ Breaks(Meets(t) \cup Only("path", Len(dir) > 1)
                                  \cup Only("busy", \E u \in Task \ {t} : filp[u] = RomFs))
    BY DEF RomOpen
  <1>4. /\ Meets(t) = {} /\ Only("path", Len(dir) > 1) = {}
        /\ Only("busy", \E u \in Task \ {t} : filp[u] = RomFs) = {}
    BY <1>3 DEF Breaks
  <1>5. /\ \A u \in Task \ {t} : ~Inside(u)
        /\ ~(Len(dir) > 1)
        /\ \A u \in Task \ {t} : filp[u] # RomFs
    BY <1>4, AloneIn DEF Only
  <1>6. Len(dir) = 1
    <2>1. \A S : \A d \in Seq(S) : d # <<>> => Len(d) \in Nat \ {0}
      OBVIOUS
    <2>2. dir # <<>> /\ dir \in Seq({dir[k] : k \in DOMAIN dir})
      BY RomfsAssumption
    <2>3. Len(dir) \in Nat \ {0}
      BY <2>1, <2>2
    <2>4. ~(Len(dir) > 1)
      BY <1>5
    <2>5. \A n \in Nat \ {0} : ~(n > 1) => n = 1
      OBVIOUS
    <2> QED BY <2>3, <2>4, <2>5
  <1>7. rom' = [rom EXCEPT ![t] = StartWalk("open", dir)] /\ StartWalk("open", dir) \in Walks
    BY <1>3, StartsWalk DEF Becomes
  <1>8. RomTypes' /\ rom'[t] = StartWalk("open", dir) /\ path'[t] = dir
    BY <1>2, <1>3, <1>7 DEF RomTypes, RomOpen
  <1>9. filp'[t] = RomFs /\ ~romWild'
    BY <1>1 DEF RomOpen
  <1>10. \A u \in Task \ {t} : filp'[u] = filp[u]
    BY DEF RomOpen, Call, TypeOK
  <1>11. \A u \in Task \ {t} : rom'[u] = rom[u] /\ path'[u] = path[u] /\ got'[u] = got[u]
    BY <1>2, <1>3, <1>7 DEF RomTypes, RomOpen
  <1>12. TaskRight(t)'
    <2>1. Opens(t)'
      BY <1>7, <1>8 DEF Opens, StartWalk
    <2>2. ~Lists(t)' /\ ~Reads(t)'
      BY <1>8 DEF Lists, Reads, StartWalk, Reading
    <2>3. OpenTrue(t)'
      <3>1. StartWalk("open", dir).at = "super"
        BY DEF StartWalk
      <3>2. StartWalk("open", dir).part = Component(dir) /\ StartWalk("open", dir).fname = dir[Len(dir)]
        BY DEF StartWalk
      <3>3. dir[Len(dir)] = dir[1]
        BY <1>6
      <3> HIDE DEF StartWalk
      <3> QED BY <1>6, <1>8, <1>9, <3>1, <3>2, <3>3 DEF OpenTrue
    <2> QED BY <2>1, <2>2, <2>3 DEF TaskRight
  <1>13. UNCHANGED romData
    BY DEF RomOpen
  <1> QED BY <1>2, <1>5, <1>8, <1>9, <1>10, <1>11, <1>12, <1>13, RomFrame

LEMMA ListRight ==
    ASSUME RomInv, TypeOK, NEW t \in Task, List(t), romBreach' = {} PROVE RomRight'
  <1>1. romBreach = {} /\ ~Inside(t) /\ ~romWild /\ Breaks(Meets(t)) /\ UNCHANGED <<filp, romData, path, got, romWild>>
    BY DEF List, Calls, Free, vars
  <1>2. RomRight /\ RomTypes
    BY <1>1 DEF RomInv, RomRight
  <1> DEFINE r == StartWalk("list", RootDir)
  <1>3. Becomes(t, r)
    BY DEF List, RootDir
  <1>4. r \in Walks
    BY StartsWalk
  <1>5. r.kind = "list" /\ r.at = "super" /\ r.seen = <<>>
    BY DEF StartWalk
  <1>6. \A u \in Task \ {t} : ~Inside(u)
    BY <1>1, AloneIn, Unbroken
  <1> HIDE DEF r
  <1>7. ASSUME rom'[t] = r PROVE TaskRight(t)'
    <2>1. Lists(t)' /\ ~Opens(t)' /\ ~Reads(t)'
      BY <1>4, <1>5, <1>7 DEF Lists, Opens, Reads, Reading
    <2>2. ListTrue(t)'
      BY <1>5, <1>7 DEF ListTrue
    <2>3. filp[t] = RomFs => HasFile(t)
      <3>1. rom[t] = Nobody
        BY <1>1, <1>2, Where
      <3>2. ~Opens(t)
        BY <3>1, NotInside
      <3> QED BY <3>2, <1>2, KeepsFile
    <2>4. HasFile(t) => HasFile(t)'
      BY <1>1 DEF HasFile, romData
    <2> QED BY <1>1, <2>1, <2>2, <2>3, <2>4 DEF TaskRight
  <1> QED BY <1>1, <1>2, <1>3, <1>4, <1>6, <1>7, RomMoves

\* A task in romfs that is not opening a file keeps the file it has.
LEMMA Holds ==
    ASSUME NEW t \in Task, RomRight, ~Opens(t), UNCHANGED <<filp, romData, path>>
    PROVE  filp'[t] = RomFs => HasFile(t)'
  <1>1. filp[t] = RomFs => HasFile(t)
    BY KeepsFile
  <1>2. HasFile(t) => HasFile(t)'
    BY DEF HasFile, romData
  <1> QED BY <1>1, <1>2

\* A walk that goes on, of a search or of a listing
LEMMA WalksOn ==
    ASSUME NEW t \in Task, RomRight, NEW r \in Walks, Becomes(t, r), r.kind = rom[t].kind,
           UNCHANGED <<filp, romData, path, got>>, ~romWild', Opens(t) \/ Lists(t),
           rom'[t] = r /\ Opens(t) => OpenTrue(t)',
           rom'[t] = r /\ Lists(t) => ListTrue(t)'
    PROVE  RomRight'
  <1>1. Inside(t)
    BY Kinds
  <1>2. ASSUME rom'[t] = r PROVE TaskRight(t)'
    <2>1. ~Reads(t)'
      BY <1>2 DEF Reads, Walks, Reading
    <2>2. CASE Opens(t)
      <3>1. Opens(t)' /\ ~Lists(t)'
        BY <1>2, <2>2 DEF Opens, Lists
      <3> QED BY <1>2, <2>1, <2>2, <3>1 DEF TaskRight
    <2>3. CASE Lists(t)
      <3>1. Lists(t)' /\ ~Opens(t)'
        BY <1>2, <2>3 DEF Opens, Lists
      <3>2. filp'[t] = RomFs => HasFile(t)'
        BY <2>3, Holds, Kinds
      <3> QED BY <1>2, <2>1, <2>3, <3>1, <3>2 DEF TaskRight
    <2> QED BY <2>2, <2>3
  <1> QED BY <1>1, <1>2, RomMoves

\* What holds when a task goes on in romfs
LEMMA GoesOn ==
    ASSUME RomInv, NEW t \in Task, NEW where, At(t, where), romBreach = {}
    PROVE  /\ RomRight /\ RomTypes /\ TaskRight(t) /\ ~romWild /\ rom[t].at = where
           /\ where \in {"super", "walk", "look", "found"} => (Opens(t) \/ Lists(t)) /\ rom[t] \in Walks
           /\ where \in {"sectors", "copy", "read"} => Reads(t) /\ ~Opens(t) /\ ~Lists(t)
  <1>1. RomRight /\ RomTypes /\ TaskRight(t) /\ ~romWild /\ rom[t].at = where
    BY DEF RomInv, RomRight, At, Goes
  <1>2. where \in {"super", "walk", "look", "found"} => Opens(t) \/ Lists(t)
    BY <1>1, Where
  <1>3. where \in {"sectors", "copy", "read"} => Reads(t)
    BY <1>1, Where
  <1>4. Opens(t) \/ Lists(t) => rom[t] \in Walks
    BY DEF Opens, Lists
  <1> QED BY <1>1, <1>2, <1>3, <1>4, Kinds

\* The walk starts at the first header.
LEMMA SuperRight ==
    ASSUME RomInv, NEW t \in Task, Super(t), romBreach' = {} PROVE RomRight'
  <1>1. romBreach = {} /\ UNCHANGED <<filp, romData, path, got, romWild>> /\ At(t, "super")
    BY DEF Super, Breaks, vars
  <1>2. /\ RomRight /\ RomTypes /\ TaskRight(t) /\ ~romWild /\ rom[t].at = "super"
        /\ Opens(t) \/ Lists(t)
        /\ rom[t] \in Walks
    BY <1>1, GoesOn
  <1> DEFINE r == [rom[t] EXCEPT !.at = "walk", !.next = FirstHeader]
  <1>3. FirstHeader = Root /\ Root \in DOMAIN Header /\ Root \in Places
    BY RomfsAssumption DEF FirstHeader, Places
  <1>4. r \in Walks
    BY <1>2, <1>3 DEF Walks
  <1>5. /\ r.at = "walk" /\ r.next = Root /\ r.kind = rom[t].kind /\ r.part = rom[t].part
        /\ r.fname = rom[t].fname /\ r.seen = rom[t].seen
    BY <1>2, <1>3 DEF Walks
  <1>6. Becomes(t, r)
    BY DEF Super
  <1> HIDE DEF r
  <1>7. ASSUME rom'[t] = r, Opens(t) PROVE OpenTrue(t)'
    <2>1. OpenTrue(t)
      BY <1>2, <1>7 DEF TaskRight
    <2> QED BY <1>1, <1>5, <1>7, <2>1 DEF OpenTrue
  <1>8. ASSUME rom'[t] = r, Lists(t) PROVE ListTrue(t)'
    <2>1. rom[t].seen = <<>>
      BY <1>2, <1>8 DEF TaskRight, ListTrue
    <2>2. <<>> \o NamesFrom(Root) = NamesFrom(Root)
      <3>1. NamesFrom(Root) \in Seq(Names)
        BY <1>3, NamesUnfold
      <3> QED BY <3>1
    <2> QED BY <1>5, <1>8, <2>1, <2>2 DEF ListTrue
  <1> QED BY <1>1, <1>2, <1>4, <1>5, <1>6, <1>7, <1>8, WalksOn

\* The header that is named is fetched.
LEMMA FetchRight ==
    ASSUME RomInv, NEW t \in Task, Fetch(t), romBreach' = {} PROVE RomRight'
  <1>1. romBreach = {} /\ UNCHANGED <<filp, romData, path, got, romWild>> /\ At(t, "walk")
    BY DEF Fetch, Breaks, vars
  <1>2. /\ RomRight /\ RomTypes /\ TaskRight(t) /\ ~romWild /\ rom[t].at = "walk"
        /\ Opens(t) \/ Lists(t)
        /\ rom[t] \in Walks
    BY <1>1, GoesOn
  <1> DEFINE h == rom[t].next
             r == [rom[t] EXCEPT !.at = "look", !.tmp = h, !.p = rom[t].p + (h % SectorUnits)]
  <1>3. h \in Places /\ h # 0 /\ rom[t].p \in Nat
    BY <1>2 DEF Fetch, Walks
  <1>4. h \in DOMAIN Header /\ h \in Nat
    BY <1>3, RomfsAssumption DEF Places
  <1>5. rom[t].p + (h % SectorUnits) \in Nat
    <2>1. SectorUnits \in Nat \ {0}
      BY RomfsAssumption
    <2>2. h % SectorUnits \in Nat
      BY <2>1, <1>4, Split
    <2> QED BY <2>2, <1>3
  <1>6. r \in Walks
    BY <1>2, <1>3, <1>5 DEF Walks
  <1>7. /\ r.at = "look" /\ r.tmp = h /\ r.kind = rom[t].kind /\ r.part = rom[t].part
        /\ r.fname = rom[t].fname /\ r.seen = rom[t].seen
    BY <1>2 DEF Walks
  <1>8. Becomes(t, r)
    BY DEF Fetch
  <1> HIDE DEF r, h
  <1>9. ASSUME rom'[t] = r, Opens(t) PROVE OpenTrue(t)'
    <2>1. OpenTrue(t)
      BY <1>2, <1>9 DEF TaskRight
    <2> QED BY <1>1, <1>4, <1>7, <1>9, <2>1 DEF OpenTrue
  <1>10. ASSUME rom'[t] = r, Lists(t) PROVE ListTrue(t)'
    <2>1. rom[t].seen \o NamesFrom(rom[t].next) = NamesFrom(Root)
      BY <1>2, <1>10 DEF TaskRight, ListTrue
    <2> QED BY <1>4, <1>7, <1>10, <2>1 DEF ListTrue, h
  <1> QED BY <1>1, <1>2, <1>6, <1>7, <1>8, <1>9, <1>10, WalksOn

\* A name is compared that lies in the sector: it is the one that was asked
\* for, or the next header is named.
LEMMA LookRight ==
    ASSUME RomInv, NEW t \in Task, Look(t), romBreach' = {} PROVE RomRight'
  <1>1. /\ romBreach = {} /\ UNCHANGED <<filp, romData, path, got, romWild>> /\ At(t, "look")
        /\ Breaks(Only("edge", Straddles(rom[t].tmp))) /\ rom[t].kind = "open"
    BY DEF Look, Breaks, vars
  <1>2. ~Straddles(rom[t].tmp)
    BY <1>1, Unbroken DEF Only
  <1>3. /\ RomRight /\ RomTypes /\ TaskRight(t) /\ ~romWild /\ rom[t].at = "look"
        /\ Opens(t) \/ Lists(t)
        /\ rom[t] \in Walks
    BY <1>1, GoesOn
  <1>4. Opens(t) /\ ~Lists(t) /\ OpenTrue(t)
    BY <1>1, <1>3 DEF Opens, Lists, TaskRight
  <1> DEFINE name == path[t][1]
  <1>5. /\ rom[t].part = Component(path[t]) /\ rom[t].fname = name /\ Len(path[t]) = 1
        /\ rom[t].tmp \in DOMAIN Header
    BY <1>3, <1>4 DEF OpenTrue
  <1>6. rom[t].part.name = name /\ rom[t].part.clear = TRUE
    <2>1. Component(path[t]).name = Head(path[t]) /\ Component(path[t]).clear = (Len(path[t]) = 1)
      BY DEF Component
    <2>2. Head(path[t]) = path[t][1]
      <3>1. path[t] \in Paths
        BY <1>4 DEF OpenTrue
      <3>2. path[t] \in Seq({path[t][k] : k \in DOMAIN path[t]}) /\ path[t] # <<>>
        BY <3>1, RomfsAssumption
      <3>3. \A S : \A d \in Seq(S) : d # <<>> => Head(d) = d[1]
        OBVIOUS
      <3> QED BY <3>2, <3>3
    <2> QED BY <1>5, <2>1, <2>2
  <1>7. Equal(t) = {Header[rom[t].tmp].name = name}
    BY <1>2, <1>6 DEF Equal
  <1> HIDE DEF name
  <1>8. CASE Header[rom[t].tmp].name = name
    <2> DEFINE r == [rom[t] EXCEPT !.at = "found"]
    <2>1. Becomes(t, r)
      BY <1>5, <1>6, <1>7, <1>8 DEF Look
    <2>2. r \in Walks
      BY <1>3 DEF Walks
    <2>3. /\ r.at = "found" /\ r.tmp = rom[t].tmp /\ r.kind = rom[t].kind
          /\ r.part = rom[t].part /\ r.fname = rom[t].fname
      BY <1>3 DEF Walks
    <2> HIDE DEF r
    <2>4. rom'[t] = r => OpenTrue(t)'
      BY <1>1, <1>4, <1>5, <1>8, <2>3 DEF OpenTrue, name
    <2> QED BY <1>1, <1>3, <1>4, <2>1, <2>2, <2>3, <2>4, WalksOn
  <1>9. CASE Header[rom[t].tmp].name # name
    <2> DEFINE r == [rom[t] EXCEPT !.at = "walk", !.next = Header[rom[t].tmp].next]
    <2>1. Becomes(t, r)
      BY <1>7, <1>9 DEF Look
    <2>2. Header[rom[t].tmp].next \in Places
      BY <1>5, RomfsAssumption DEF Places
    <2>3. r \in Walks
      BY <1>3, <2>2 DEF Walks
    <2>4. r.at = "walk" /\ r.kind = rom[t].kind /\ r.part = rom[t].part /\ r.fname = rom[t].fname
      BY <1>3 DEF Walks
    <2> HIDE DEF r
    <2>5. rom'[t] = r => OpenTrue(t)'
      BY <1>1, <1>4, <2>4 DEF OpenTrue
    <2> QED BY <1>1, <1>3, <1>4, <2>1, <2>3, <2>4, <2>5, WalksOn
  <1> QED BY <1>8, <1>9

\* The listing shows a name.
LEMMA ShowRight ==
    ASSUME RomInv, NEW t \in Task, Show(t), romBreach' = {} PROVE RomRight'
  <1>1. /\ romBreach = {} /\ UNCHANGED <<filp, romData, path, got, romWild>> /\ At(t, "look")
        /\ rom[t].kind = "list"
    BY DEF Show, Breaks, vars
  <1>2. /\ RomRight /\ RomTypes /\ TaskRight(t) /\ ~romWild /\ rom[t].at = "look"
        /\ Opens(t) \/ Lists(t)
        /\ rom[t] \in Walks
    BY <1>1, GoesOn
  <1>3. Lists(t) /\ ~Opens(t) /\ ListTrue(t)
    BY <1>1, <1>2 DEF Opens, Lists, TaskRight
  <1> DEFINE h == rom[t].tmp
             s == rom[t].seen
  <1>4. h \in DOMAIN Header /\ s \o NamesFrom(h) = NamesFrom(Root)
    BY <1>2, <1>3 DEF ListTrue
  <1>5. Header[h].name \in Names /\ Header[h].next \in Places
    BY <1>4, RomfsAssumption DEF Places, Names
  <1>6. s \in Seq(Names)
    BY <1>2 DEF Walks
  <1> DEFINE r == [rom[t] EXCEPT !.at = "walk", !.next = Header[h].next, !.seen = Append(s, Header[h].name)]
  <1>7. Becomes(t, r)
    BY DEF Show
  <1>8. Append(s, Header[h].name) \in Seq(Names)
    BY <1>5, <1>6
  <1>9. r \in Walks
    BY <1>2, <1>5, <1>8 DEF Walks
  <1>10. /\ r.at = "walk" /\ r.next = Header[h].next /\ r.seen = Append(s, Header[h].name)
         /\ r.kind = rom[t].kind
    BY <1>2 DEF Walks
  <1>11. Append(s, Header[h].name) \o NamesFrom(Header[h].next) = NamesFrom(Root)
    <2> DEFINE n == Header[h].name
               y == NamesFrom(Header[h].next)
    <2>1. NamesFrom(h) = <<n>> \o y /\ y \in Seq(Names)
      BY <1>4, <1>5, NamesUnfold
    <2>2. n \in Names
      BY <1>5
    <2> HIDE DEF n, y, s, r
    <2>3. Append(s, n) \o y = s \o (<<n>> \o y)
      BY <1>6, <2>1, <2>2
    <2> QED BY <1>4, <2>1, <2>3 DEF n, y
  <1> HIDE DEF r
  <1>12. rom'[t] = r => ListTrue(t)'
    BY <1>10, <1>11 DEF ListTrue
  <1> QED BY <1>1, <1>2, <1>3, <1>7, <1>9, <1>10, <1>12, WalksOn

-----------------------------------------------------------------------------
(* The end of a walk, and reading                                          *)

\* The one inode becomes that of the header that was found.
LEMMA FoundRight ==
    ASSUME RomInv, NEW t \in Task, Found(t), romBreach' = {} PROVE RomRight'
  <1>1. /\ romBreach = {} /\ UNCHANGED <<filp, path, got, romWild>> /\ At(t, "found")
        /\ romPointer' = "inode" /\ Becomes(t, Nobody)
        /\ romInode' = [units |-> Header[rom[t].tmp].units, dsize |-> Header[rom[t].tmp].size,
                        daddr |-> rom[t].tmp]
    BY DEF Found, Breaks, vars
  <1>2. /\ RomRight /\ RomTypes /\ TaskRight(t) /\ ~romWild /\ rom[t].at = "found"
        /\ Opens(t) \/ Lists(t)
    BY <1>1, GoesOn
  <1>3. Opens(t) /\ OpenTrue(t) /\ Inside(t)
    BY <1>2, Kinds DEF TaskRight, ListTrue
  <1>4. filp[t] = RomFs /\ rom[t].tmp \in DOMAIN Header /\ Header[rom[t].tmp].name = path[t][1]
    BY <1>2, <1>3 DEF OpenTrue
  <1>5. HasFile(t)'
    BY <1>1, <1>4 DEF HasFile
  <1>6. rom' = [rom EXCEPT ![t] = Nobody] /\ rom \in [Task -> {Nobody} \cup Walks \cup Reading]
    BY <1>1, <1>2 DEF Becomes, RomTypes
  <1>7. rom' \in [Task -> {Nobody} \cup Walks \cup Reading] /\ rom'[t] = Nobody
    BY <1>6
  <1>8. RomTypes'
    BY <1>1, <1>2, <1>7 DEF RomTypes
  <1>9. TaskRight(t)'
    <2>1. ~Opens(t)' /\ ~Lists(t)' /\ ~Reads(t)'
      BY <1>7 DEF Opens, Lists, Reads, Nobody, Walks, Reading
    <2> QED BY <1>5, <2>1 DEF TaskRight
  <1>10. \A u \in Task \ {t} : filp[u] # RomFs
    BY <1>2, <1>4 DEF RomRight
  <1>11. \A u \in Task \ {t} : /\ rom'[u] = rom[u] /\ path'[u] = path[u]
                               /\ got'[u] = got[u] /\ filp'[u] = filp[u]
    BY <1>1, <1>6
  <1> QED BY <1>1, <1>2, <1>3, <1>4, <1>8, <1>9, <1>10, <1>11, RomFrame

\* A task that leaves romfs
LEMMA Leaves ==
    ASSUME NEW t \in Task, RomRight, Inside(t), ~Opens(t), Becomes(t, Nobody),
           UNCHANGED <<filp, romData, path, got>>, ~romWild'
    PROVE  RomRight'
  <1>1. ASSUME rom'[t] = Nobody PROVE TaskRight(t)'
    <2>1. ~Opens(t)' /\ ~Lists(t)' /\ ~Reads(t)'
      BY <1>1 DEF Opens, Lists, Reads, Nobody, Walks, Reading
    <2> QED BY <2>1, Holds DEF TaskRight
  <1> QED BY <1>1, RomMoves

LEMMA ListDoneRight ==
    ASSUME RomInv, NEW t \in Task, ListDone(t), romBreach' = {} PROVE RomRight'
  <1>1. /\ romBreach = {} /\ UNCHANGED <<filp, romData, path, got, romWild>> /\ At(t, "walk")
        /\ rom[t].kind = "list" /\ Becomes(t, Nobody)
    BY DEF ListDone, vars
  <1>2. RomRight /\ ~romWild /\ (Opens(t) \/ Lists(t))
    BY <1>1, GoesOn
  <1>3. ~Opens(t) /\ Inside(t)
    BY <1>1, <1>2, Kinds DEF Opens
  <1> QED BY <1>1, <1>2, <1>3, Leaves

\* A read starts at the inode of the file the task has open.
LEMMA ReadStartRight ==
    ASSUME RomInv, TypeOK, NEW t \in Task, ReadStart(t), romBreach' = {} PROVE RomRight'
  <1>1. /\ ~Inside(t) /\ ~romWild /\ romBreach = {} /\ filp[t] = RomFs
        /\ UNCHANGED <<romData, path, got>> /\ romWild' = (romPointer = "null")
        /\ Becomes(t, [at |-> "sectors"])
    BY DEF ReadStart, Calls, Free
  <1>2. RomRight /\ RomTypes
    BY <1>1 DEF RomInv, RomRight
  <1>3. PICK enough \in BOOLEAN : Breaks(Meets(t) \cup Only("small", ~enough))
    BY DEF ReadStart
  <1>4. Meets(t) = {}
    BY <1>3 DEF Breaks
  <1>5. \A u \in Task \ {t} : ~Inside(u)
    BY <1>4, AloneIn
  <1>6. ~Opens(t)
    <2>1. rom[t] = Nobody
      BY <1>1, <1>2, Where
    <2> QED BY <2>1, NotInside
  <1>7. HasFile(t)
    BY <1>1, <1>2, <1>6, KeepsFile
  <1>8. ~romWild'
    BY <1>1, <1>7 DEF HasFile
  <1>9. UNCHANGED filp
    <2>1. filp \in [Task -> Fs \cup {ListHead, None}]
      BY DEF TypeOK
    <2>2. filp' = [filp EXCEPT ![t] = filp[t]]
      BY DEF ReadStart, Use
    <2> QED BY <2>1, <2>2
  <1> DEFINE r == [at |-> "sectors"]
  <1>10. r \in Reading /\ r \notin Walks /\ r.at = "sectors"
    BY DEF Reading, Walks
  <1> HIDE DEF r
  <1>11. ASSUME rom'[t] = r PROVE TaskRight(t)'
    <2>1. ~Opens(t)' /\ ~Lists(t)'
      BY <1>10, <1>11 DEF Opens, Lists
    <2>2. ReadTrue(t)'
      BY <1>1, <1>9, <1>10, <1>11 DEF ReadTrue
    <2>3. HasFile(t)'
      BY <1>1, <1>7 DEF HasFile, romData
    <2> QED BY <2>1, <2>2, <2>3 DEF TaskRight
  <1>12. Becomes(t, r)
    BY <1>1 DEF r
  <1> QED BY <1>1, <1>2, <1>5, <1>8, <1>9, <1>10, <1>11, <1>12, RomMoves

\* The sectors are fetched that the inode names.
LEMMA ReadSectorsRight ==
    ASSUME RomInv, NEW t \in Task, ReadSectors(t), romBreach' = {} PROVE RomRight'
  <1>1. /\ romBreach = {} /\ UNCHANGED <<filp, romData, path, got, romWild>> /\ At(t, "sectors")
    BY DEF ReadSectors, vars
  <1>2. RomRight /\ TaskRight(t) /\ ~romWild /\ Reads(t) /\ ~Opens(t) /\ Inside(t)
    BY <1>1, GoesOn, Kinds
  <1>3. filp[t] = RomFs /\ HasFile(t)
    BY <1>2 DEF TaskRight, ReadTrue
  <1> DEFINE a == DataAddress(romInode.daddr, romInode.units)
             r == [at |-> "copy", from |-> a \div SectorUnits, n |-> SectorsFor(romInode.dsize)]
  <1>4. a \div SectorUnits \in Nat /\ SectorsFor(romInode.dsize) \in Nat
    <2>1. PICK h \in DOMAIN Header :
             romInode = [units |-> Header[h].units, dsize |-> Header[h].size, daddr |-> h]
      BY <1>3 DEF HasFile
    <2>2. /\ h \in Nat /\ Header[h].units \in Nat /\ Header[h].size \in Nat
          /\ SectorUnits \in Nat \ {0}
      BY RomfsAssumption
    <2>3. a = h + 1 + Header[h].units /\ SectorsFor(romInode.dsize) = (Header[h].size \div SectorUnits) + 2
      BY <2>1 DEF DataAddress, SectorsFor
    <2>4. a \in Nat
      BY <2>2, <2>3
    <2>5. Header[h].size \div SectorUnits \in Nat
      BY <2>2, Split
    <2> HIDE DEF a
    <2> QED BY <2>2, <2>3, <2>4, <2>5, Split
  <1>5. Becomes(t, r)
    BY DEF ReadSectors
  <1>6. r \in Reading /\ r \notin Walks /\ r.at = "copy"
    BY <1>4 DEF Reading, Walks
  <1>7. r.from = a \div SectorUnits /\ r.n = SectorsFor(romInode.dsize)
    OBVIOUS
  <1> HIDE DEF r
  <1>8. ASSUME rom'[t] = r PROVE TaskRight(t)'
    <2>1. ~Opens(t)' /\ ~Lists(t)'
      BY <1>6, <1>8 DEF Opens, Lists
    <2>2. ReadTrue(t)'
      BY <1>1, <1>3, <1>6, <1>7, <1>8 DEF ReadTrue, romData
    <2>3. HasFile(t)'
      BY <1>1, <1>3 DEF HasFile, romData
    <2> QED BY <2>1, <2>2, <2>3 DEF TaskRight
  <1> QED BY <1>1, <1>2, <1>5, <1>6, <1>8, RomMoves

\* The bytes the task is given are those of the file, from the first to the last.
LEMMA CopyOutRight ==
    ASSUME RomInv, NEW t \in Task, CopyOut(t), romBreach' = {} PROVE RomRight'
  <1>1. /\ romBreach = {} /\ UNCHANGED <<filp, romData, path, romWild>> /\ At(t, "copy")
        /\ Becomes(t, [at |-> "read"])
    BY DEF CopyOut, vars
  <1>2. RomRight /\ RomTypes /\ TaskRight(t) /\ ~romWild /\ rom[t].at = "copy" /\ Reads(t) /\ ~Opens(t) /\ Inside(t)
    BY <1>1, GoesOn, Kinds
  <1>3. filp[t] = RomFs /\ HasFile(t) /\ ReadTrue(t)
    BY <1>2 DEF TaskRight, ReadTrue
  <1>4. PICK h \in DOMAIN Header :
           /\ Header[h].name = path[t][1]
           /\ romInode = [units |-> Header[h].units, dsize |-> Header[h].size, daddr |-> h]
    BY <1>3 DEF HasFile
  <1> DEFINE a == DataAddress(h, Header[h].units)
  <1>5. /\ romInode.daddr = h /\ romInode.units = Header[h].units /\ romInode.dsize = Header[h].size
    BY <1>4
  <1>6. rom[t].from = a \div SectorUnits /\ rom[t].n = SectorsFor(Header[h].size)
    BY <1>2, <1>3, <1>5 DEF ReadTrue
  <1> HIDE DEF a
  <1>7. \A k \in 1 .. Header[h].size : InArea(rom[t], (a % SectorUnits) + k - 1) = <<Header[h].name, k>>
    <2>1. ASSUME NEW k \in 1 .. Header[h].size
          PROVE  InArea(rom[t], (a % SectorUnits) + k - 1) = <<Header[h].name, k>>
      BY <1>6, AreaHolds DEF a
    <2> QED BY <2>1
  <1> DEFINE bytes == [k \in 1 .. Header[h].size |-> InArea(rom[t], (a % SectorUnits) + k - 1)]
             right == [k \in 1 .. Header[h].size |-> <<path[t][1], k>>]
  <1>8. got' = [got EXCEPT ![t] = bytes]
    BY <1>5 DEF CopyOut, a
  <1>9. bytes = right
    BY <1>4, <1>7
  <1> HIDE DEF bytes
  <1>10. DOMAIN got = Task /\ DOMAIN path = Task
    BY <1>2 DEF RomTypes
  <1>11. got'[t] = right /\ DOMAIN got' = Task /\ \A u \in Task \ {t} : got'[u] = got[u]
    BY <1>8, <1>9, <1>10
  <1> DEFINE r == [at |-> "read"]
  <1>12. r \in Reading /\ r \notin Walks /\ r.at = "read"
    BY DEF Reading, Walks
  <1>13. rom' = [rom EXCEPT ![t] = r] /\ rom \in [Task -> {Nobody} \cup Walks \cup Reading]
    BY <1>1, <1>2 DEF Becomes, RomTypes
  <1> HIDE DEF r, right
  <1>14. rom' \in [Task -> {Nobody} \cup Walks \cup Reading] /\ rom'[t] = r
    BY <1>12, <1>13
  <1>15. RomTypes'
    BY <1>1, <1>10, <1>11, <1>14 DEF RomTypes
  <1>16. TaskRight(t)'
    <2>1. ~Opens(t)' /\ ~Lists(t)'
      BY <1>12, <1>14 DEF Opens, Lists
    <2>2. \E g \in DOMAIN Header :
             /\ Header[g].name = path'[t][1]
             /\ got'[t] = [k \in 1 .. Header[g].size |-> <<path'[t][1], k>>]
      <3>1. path'[t] = path[t]
        BY <1>1
      <3>2. got'[t] = [k \in 1 .. Header[h].size |-> <<path[t][1], k>>]
        BY <1>11 DEF right
      <3> QED BY <1>4, <3>1, <3>2
    <2>3. ReadTrue(t)'
      BY <1>1, <1>3, <1>12, <1>14, <2>2 DEF ReadTrue
    <2>4. HasFile(t)'
      BY <1>1, <1>3 DEF HasFile, romData
    <2> QED BY <2>1, <2>3, <2>4 DEF TaskRight
  <1>17. \A u \in Task \ {t} : /\ rom'[u] = rom[u] /\ path'[u] = path[u]
                               /\ got'[u] = got[u] /\ filp'[u] = filp[u]
    BY <1>1, <1>11, <1>13
  <1> QED BY <1>1, <1>2, <1>3, <1>15, <1>16, <1>17, RomFrame

LEMMA ReadDoneRight ==
    ASSUME RomInv, NEW t \in Task, ReadDone(t), romBreach' = {} PROVE RomRight'
  <1>1. /\ romBreach = {} /\ UNCHANGED <<filp, romData, path, romWild>> /\ At(t, "read")
        /\ Becomes(t, Nobody) /\ got' = [got EXCEPT ![t] = <<>>]
    BY DEF ReadDone, vars
  <1>2. RomRight /\ RomTypes /\ ~romWild /\ Reads(t) /\ ~Opens(t) /\ Inside(t)
    BY <1>1, GoesOn, Kinds
  <1>3. rom' = [rom EXCEPT ![t] = Nobody] /\ rom \in [Task -> {Nobody} \cup Walks \cup Reading]
    BY <1>1, <1>2 DEF Becomes, RomTypes
  <1>4. rom' \in [Task -> {Nobody} \cup Walks \cup Reading] /\ rom'[t] = Nobody
    BY <1>3
  <1>5. RomTypes'
    BY <1>1, <1>2, <1>4 DEF RomTypes
  <1>6. TaskRight(t)'
    <2>1. ~Opens(t)' /\ ~Lists(t)' /\ ~Reads(t)'
      BY <1>4 DEF Opens, Lists, Reads, Nobody, Walks, Reading
    <2>2. filp'[t] = RomFs => HasFile(t)'
      BY <1>1, <1>2, Holds
    <2> QED BY <2>1, <2>2 DEF TaskRight
  <1>7. \A u \in Task \ {t} : /\ rom'[u] = rom[u] /\ path'[u] = path[u]
                              /\ got'[u] = got[u] /\ filp'[u] = filp[u]
    BY <1>1, <1>2, <1>3 DEF RomTypes
  <1>8. UNCHANGED romData /\ (filp'[t] = RomFs => filp[t] = RomFs) /\ ~romWild'
    BY <1>1, <1>2
  <1> QED BY <1>2, <1>5, <1>6, <1>7, <1>8, RomFrame

\* The pointer of the one open file is cleared when nobody else has it open.
LEMMA RomCloseRight ==
    ASSUME RomInv, TypeOK, NEW t \in Task, RomClose(t), romBreach' = {} PROVE RomRight'
  <1>1. /\ ~Inside(t) /\ ~romWild /\ romBreach = {} /\ filp[t] = RomFs
        /\ UNCHANGED <<rom, got, romWild>> /\ path' = [path EXCEPT ![t] = <<>>]
        /\ Breaks(Meets(t))
    BY DEF RomClose, Calls, Free, Breaks
  <1>2. RomRight /\ RomTypes
    BY <1>1 DEF RomInv, RomRight
  <1>3. filp' = [filp EXCEPT ![t] = None] /\ filp \in [Task -> Fs \cup {ListHead, None}]
    BY DEF RomClose, Use, TypeOK
  <1>4. filp'[t] # RomFs
    BY <1>3, RomfsAssumption, VfsAssumption
  <1>5. RomTypes'
    BY <1>1, <1>2 DEF RomTypes
  <1>6. TaskRight(t)'
    <2>1. rom'[t] = Nobody
      BY <1>1, <1>2, Where
    <2>2. ~Opens(t)' /\ ~Lists(t)' /\ ~Reads(t)'
      BY <2>1 DEF Opens, Lists, Reads, Nobody, Walks, Reading
    <2> QED BY <1>4, <2>2 DEF TaskRight
  <1>7. \A u \in Task \ {t} : filp[u] # RomFs
    BY <1>1, <1>2 DEF RomRight
  <1>8. \A u \in Task \ {t} : /\ rom'[u] = rom[u] /\ path'[u] = path[u]
                              /\ got'[u] = got[u] /\ filp'[u] = filp[u]
    BY <1>1, <1>2, <1>3 DEF RomTypes
  <1>9. Inside(t)' => Inside(t)
    BY <1>1 DEF Inside
  <1> QED BY <1>1, <1>2, <1>4, <1>5, <1>6, <1>7, <1>8, <1>9, RomFrame

-----------------------------------------------------------------------------
(* What happens outside romfs                                              *)

LEMMA ElsewhereRight ==
    ASSUME RomInv, TypeOK, NEW t \in Task, Elsewhere(t), romBreach' = {} PROVE RomRight'
  <1>1. ~Inside(t) /\ ~romWild /\ romBreach = {} /\ UNCHANGED romVars
    BY DEF Elsewhere, Free, romVars
  <1>2. RomRight /\ RomTypes
    BY <1>1 DEF RomInv, RomRight
  <1>3. filp \in [Task -> Fs \cup {ListHead, None}] /\ RomFs \in Fs /\ None \notin Fs
    BY RomfsAssumption, VfsAssumption DEF TypeOK
  <1>4. \/ UNCHANGED filp
        \/ Call(t) /\ ~(tempFsType = RomFs /\ filp'[t] = RomFs)
        \/ \E op \in Op : Use(t, op)
    BY DEF Elsewhere, OpenStart, Test, Compare, Step
  <1>5. /\ \A u \in Task \ {t} : filp'[u] = filp[u]
        /\ filp'[t] = RomFs => filp[t] = RomFs
    <2>1. CASE UNCHANGED filp
      BY <2>1
    <2>2. CASE Call(t) /\ ~(tempFsType = RomFs /\ filp'[t] = RomFs)
      <3>1. filp' = [filp EXCEPT ![t] = tempFsType] \/ UNCHANGED filp
        BY <2>2 DEF Call
      <3> QED BY <2>2, <3>1, <1>3
    <2>3. ASSUME NEW op \in Op, Use(t, op)
          PROVE  /\ \A u \in Task \ {t} : filp'[u] = filp[u]
                 /\ filp'[t] = RomFs => filp[t] = RomFs
      <3>1. filp' = [filp EXCEPT ![t] = None] \/ filp' = [filp EXCEPT ![t] = filp[t]]
        BY <2>3 DEF Use
      <3> QED BY <3>1, <1>3
    <2> QED BY <1>4, <2>1, <2>2, <2>3
  <1>6. UNCHANGED <<rom, romInode, romPointer, path, got, romWild>>
    BY <1>1 DEF romVars
  <1>7. RomTypes'
    BY <1>2, <1>6 DEF RomTypes
  <1>8. TaskRight(t)'
    <2>1. rom'[t] = Nobody
      BY <1>1, <1>2, <1>6, Where
    <2>2. ~Opens(t)' /\ ~Lists(t)' /\ ~Reads(t)'
      BY <2>1 DEF Opens, Lists, Reads, Nobody, Walks, Reading
    <2>3. ~Opens(t)
      BY <2>1, <1>6, NotInside
    <2>4. filp'[t] = RomFs => HasFile(t)
      BY <1>2, <1>5, <2>3, KeepsFile
    <2>5. HasFile(t) => HasFile(t)'
      BY <1>6 DEF HasFile
    <2> QED BY <2>2, <2>4, <2>5 DEF TaskRight
  <1>9. Inside(t)' => Inside(t)
    BY <1>6 DEF Inside
  <1>10. \A u \in Task \ {t} : /\ rom'[u] = rom[u] /\ path'[u] = path[u]
                               /\ got'[u] = got[u] /\ filp'[u] = filp[u]
    BY <1>5, <1>6
  <1>11. UNCHANGED romData /\ ~romWild'
    BY <1>1, <1>6 DEF romData
  <1> QED BY <1>2, <1>5, <1>7, <1>8, <1>9, <1>10, <1>11, RomFrame

\* Registering a file system, and stuttering
LEMMA RomSame ==
    ASSUME RomInv, UNCHANGED <<filp, romVars>>, romBreach' = {} PROVE RomRight'
  <1>1. RomRight
    BY DEF RomInv, romVars
  <1>2. UNCHANGED <<filp, rom, romInode, romPointer, path, got, romWild>>
    BY DEF romVars
  <1>3. ASSUME NEW t \in Task PROVE TaskRight(t)' /\ (Inside(t)' <=> Inside(t))
    <2>1. TaskRight(t)
      BY <1>1 DEF RomRight
    <2>2. /\ Opens(t)' <=> Opens(t)
          /\ Lists(t)' <=> Lists(t)
          /\ Reads(t)' <=> Reads(t)
          /\ Inside(t)' <=> Inside(t)
      BY <1>2 DEF Opens, Lists, Reads, Inside
    <2>3. HasFile(t) => HasFile(t)'
      BY <1>2 DEF HasFile
    <2>4. OpenTrue(t) => OpenTrue(t)'
      BY <1>2 DEF OpenTrue
    <2>5. ListTrue(t) => ListTrue(t)'
      BY <1>2 DEF ListTrue
    <2>6. ReadTrue(t) => ReadTrue(t)'
      BY <1>2 DEF ReadTrue
    <2> QED BY <1>2, <2>1, <2>2, <2>3, <2>4, <2>5, <2>6 DEF TaskRight
  <1>4. RomTypes'
    BY <1>1, <1>2 DEF RomRight, RomTypes
  <1>5. \A t, u \in Task : Inside(t)' /\ Inside(u)' => t = u
    <2>1. \A t, u \in Task : Inside(t) /\ Inside(u) => t = u
      BY <1>1 DEF RomRight
    <2> QED BY <1>3, <2>1
  <1> QED BY <1>1, <1>2, <1>3, <1>4, <1>5 DEF RomRight

LEMMA RomStarts == RomInit => RomInv
  <1> SUFFICES ASSUME RomInit PROVE RomRight
    BY DEF RomInv
  <1>1. /\ rom = [t \in Task |-> Nobody] /\ path = [t \in Task |-> <<>>]
        /\ got = [t \in Task |-> <<>>] /\ filp = [t \in Task |-> None] /\ ~romWild
    BY DEF RomInit, Init
  <1>2. \A t \in Task : rom[t] = Nobody /\ filp[t] # RomFs
    BY <1>1, RomfsAssumption, VfsAssumption
  <1>3. RomTypes
    BY <1>1 DEF RomTypes
  <1>4. \A t \in Task : TaskRight(t) /\ ~Inside(t)
    BY <1>2, NotInside DEF TaskRight
  <1> QED BY <1>1, <1>2, <1>3, <1>4 DEF RomRight

LEMMA RomStep == TypeOK /\ RomInv /\ [RomNext]_<<vars, romVars>> => RomInv'
  <1> SUFFICES ASSUME TypeOK, RomInv, [RomNext]_<<vars, romVars>>, romBreach' = {} PROVE RomRight'
    BY DEF RomInv
  <1>1. CASE Registration \/ UNCHANGED <<vars, romVars>>
    <2>1. UNCHANGED <<filp, romVars>>
      BY <1>1 DEF Registration, Register, Unregister, vars, local
    <2> QED BY <2>1, RomSame
  <1>2. ASSUME NEW t \in Task,
               Elsewhere(t) \/ RomOpen(t) \/ List(t) \/ ReadStart(t) \/ RomClose(t)
        PROVE  RomRight'
    BY <1>2, ElsewhereRight, RomOpenRight, ListRight, ReadStartRight, RomCloseRight
  <1>3. ASSUME NEW t \in Task,
               \/ Super(t) \/ Fetch(t) \/ Look(t) \/ Found(t) \/ Show(t) \/ ListDone(t)
               \/ ReadSectors(t) \/ CopyOut(t) \/ ReadDone(t)
        PROVE  RomRight'
    BY <1>3, SuperRight, FetchRight, LookRight, FoundRight, ShowRight, ListDoneRight,
       ReadSectorsRight, CopyOutRight, ReadDoneRight
  <1>4. ASSUME NEW t \in Task, NotFound(t) PROVE FALSE
    BY <1>4 DEF NotFound, Breaks
  <1>5. ASSUME NEW t \in Task, Founddir(t) PROVE FALSE
    <2>1. romBreach = {} /\ rom[t].at = "dir"
      BY <1>5 DEF Founddir, At
    <2>2. rom[t] \in {Nobody} \cup Walks \cup Reading
      BY <2>1 DEF RomInv, RomRight, RomTypes
    <2> QED BY <2>1, <2>2 DEF Nobody, Walks, Reading
  <1> QED BY <1>1, <1>2, <1>3, <1>4, <1>5 DEF RomNext

\* As long as no rule of romfs is broken, every read brings the bytes of the
\* file that the task named when it opened it, and every listing the names of
\* the root directory in their order (fs/romfs.c:191-318): for every image whose
\* headers go forward and whose files do not overlap, wherever the sectors begin.
THEOREM RomfsAlwaysTrue == RomSpec => []RomfsTrue
<1>1. RomInv => RomfsTrue
  <2> SUFFICES ASSUME RomInv, romBreach = {} PROVE RomfsTrue
    BY DEF RomfsTrue
  <2>1. RomRight /\ RomTypes /\ ~romWild
    BY DEF RomInv, RomRight
  <2>2. ASSUME NEW t \in Task, Len(path[t]) = 1, rom[t].at = "read"
        PROVE  \E h \in DOMAIN Header :
                  /\ Header[h].name = path[t][1]
                  /\ got[t] = [k \in 1 .. Header[h].size |-> <<path[t][1], k>>]
    <3>1. Reads(t)
      BY <2>1, <2>2, Where
    <3> QED BY <2>1, <2>2, <3>1 DEF RomRight, TaskRight, ReadTrue
  <2>3. ASSUME NEW t \in Task, rom[t].at = "walk", rom[t].kind = "list"
        PROVE  rom[t].seen \o NamesFrom(rom[t].next) = NamesFrom(Root)
    <3>1. Lists(t)
      BY <2>1, <2>3, Where DEF Opens, Lists
    <3> QED BY <2>1, <2>3, <3>1 DEF RomRight, TaskRight, ListTrue
  <2> QED BY <2>1, <2>2, <2>3 DEF RomfsTrue
<1>2. RomSpec => []TypeOK
  BY SwitchKept, VfsTypes, PTL
<1> QED BY RomStarts, RomStep, <1>1, <1>2, PTL DEF RomSpec
=============================================================================
