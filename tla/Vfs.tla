-------------------------------- MODULE Vfs --------------------------------
(***************************************************************************)
(* The file system switch fs/fs.c: the list of registered file systems,    *)
(* the search of do_open, and the calls of do_read, do_write and do_close  *)
(* that go to whatever file system the global temp_fs_type names; and the  *)
(* tasks that use them as fs_task of init/main.c does, one file at a time.  *)
(*                                                                         *)
(* temp_fs_type is also the variable of the loop in do_open, and the timer *)
(* may switch to another task between any two of its uses.  The ghost      *)
(* breach collects what has happened:                                      *)
(*   "shared"     a call began while another task was inside do_open       *)
(*   "mixed"      do_open was asked for another file system than the one   *)
(*                a file is open of                                        *)
(*   "unknown"    do_open was asked for a file system nobody registered    *)
(*   "missing"    an operation was asked for that the file system lacks    *)
(*   "unlisted"   a file system was unregistered that was not registered   *)
(* wild says that a call went through something that is no file system.    *)
(***************************************************************************)
EXTENDS Integers, Sequences

CONSTANTS Fs,      \* the file systems, by name
          Fops,    \* the operations each one has
          Task, None,
          ListHead     \* what list_entry makes of the list head fs_list

Op == {"read", "write", "release"}

ASSUME VfsAssumption ==
    /\ \A x \in Fs : Fops[x] \subseteq Op \cup {"open"}
    /\ None \notin Fs /\ ListHead \notin Fs \cup {None}

VARIABLES fsList,        \* fs_list, without its head
          tempFsType,    \* temp_fs_type
          at, asked,     \* where each task is, and the name it gave do_open
          filp,          \* the file system that made each task's open file
          misled,        \* ghost: a call was served by the wrong file system
          breach, wild

vars  == <<fsList, tempFsType, at, asked, filp, misled, breach, wild>>
local == <<at, asked, filp>>

Walking(t) == at[t] \in {"test", "compare", "step", "call"}
Only(r, bad) == IF bad THEN {r} ELSE {}
Shared(t) == Only("shared", \E u \in Task \ {t} : Walking(u))

\* As long as breach is empty calls begin, and what has begun goes on.
Begins(t, l) == ~wild /\ breach = {} /\ at[t] = l
On(t, l)     == ~wild /\ at[t] = l

Listed == {fsList[i] : i \in DOMAIN fsList}

\* The entry at the front, and the one behind x; behind the last comes the head
First == IF fsList = <<>> THEN ListHead ELSE fsList[1]

Place(x) == CHOOSE j \in DOMAIN fsList : fsList[j] = x

\* Slip: the last entry has no successor.
BehindNull(x) == IF Place(x) = Len(fsList) THEN None ELSE fsList[Place(x) + 1]
Behind(x) == IF x = ListHead THEN First
             ELSE IF Place(x) = Len(fsList) THEN ListHead ELSE fsList[Place(x) + 1]

-----------------------------------------------------------------------------
(* Registration, lines 22-54; init() calls it before there are tasks       *)

Booting == \A t \in Task : at[t] = "idle"

Register(x) ==
    /\ ~wild /\ Booting
    /\ fsList' = IF x \in Listed THEN fsList ELSE Append(fsList, x)
    /\ UNCHANGED <<tempFsType, local, misled, breach, wild>>

\* A file system that is found in the list stays there; one that is not is cut
\* out by links nobody has set.
Unregister(x) ==
    /\ ~wild /\ Booting /\ breach = {}
    /\ wild' = (x \notin Listed)
    /\ breach' = Only("unlisted", x \notin Listed)
    /\ UNCHANGED <<fsList, tempFsType, local, misled>>

-----------------------------------------------------------------------------
(* do_open, lines 63-85                                                    *)

OpenStart(t, x) ==
    /\ Begins(t, "idle")
    /\ tempFsType' = First
    /\ at' = [at EXCEPT ![t] = "test"]
    /\ asked' = [asked EXCEPT ![t] = x]
    /\ breach' = Shared(t) \cup Only("unknown", x \notin Listed)
                           \cup Only("mixed", \E u \in Task : filp[u] \notin {x, None})
    /\ UNCHANGED <<fsList, filp, misled, wild>>

\* Not found: 0 is returned, which fs_task takes for a descriptor.
Test(t) ==
    /\ On(t, "test")
    /\ at' = [at EXCEPT ![t] = IF tempFsType = ListHead THEN "opened" ELSE "compare"]
    /\ UNCHANGED <<fsList, tempFsType, asked, filp, misled, breach, wild>>

\* Slip: the loop runs on when the name has been found.
CompareOn(t) ==
    /\ On(t, "compare")
    /\ at' = [at EXCEPT ![t] = "step"]
    /\ wild' = (tempFsType = ListHead)
    /\ UNCHANGED <<fsList, tempFsType, asked, filp, misled, breach>>

Compare(t) ==
    /\ On(t, "compare")
    /\ at' = [at EXCEPT ![t] = IF tempFsType = asked[t] THEN "call" ELSE "step"]
    /\ wild' = (tempFsType = ListHead)
    /\ UNCHANGED <<fsList, tempFsType, asked, filp, misled, breach>>

Step(t) ==
    /\ On(t, "step")
    /\ tempFsType' = Behind(tempFsType)
    /\ at' = [at EXCEPT ![t] = "test"]
    /\ UNCHANGED <<fsList, asked, filp, misled, breach, wild>>

\* The file system is called: it makes an open file or returns -1, on which
\* fs_task gives up.
Call(t) ==
    /\ On(t, "call")
    /\ wild' = (tempFsType = ListHead)
    /\ misled' = (misled \/ tempFsType # asked[t])
    /\ \/ /\ at' = [at EXCEPT ![t] = "opened"]
          /\ filp' = [filp EXCEPT ![t] = tempFsType]
       \/ /\ at' = [at EXCEPT ![t] = "idle"]
          /\ UNCHANGED filp
    /\ UNCHANGED <<fsList, tempFsType, asked, breach>>

-----------------------------------------------------------------------------
(* do_read, do_write and do_close, lines 87-100                            *)

\* Slip: the file system that was registered first serves every call.
UseFirst(t, op) ==
    /\ Begins(t, "opened")
    /\ breach' = Shared(t) \cup Only("missing", filp[t] \in Fs /\ op \notin Fops[filp[t]])
    /\ wild' = (First = ListHead \/ filp[t] = None \/ op \notin Fops[First])
    /\ misled' = (misled \/ filp[t] \notin {None, First})
    /\ at' = [at EXCEPT ![t] = IF op = "release" THEN "idle" ELSE @]
    /\ filp' = [filp EXCEPT ![t] = IF op = "release" THEN None ELSE @]
    /\ UNCHANGED <<fsList, tempFsType, asked>>

Use(t, op) ==
    /\ Begins(t, "opened")
    /\ breach' = Shared(t) \cup Only("missing", filp[t] \in Fs /\ op \notin Fops[filp[t]])
    /\ wild' = (tempFsType \notin Fs \/ filp[t] = None \/ op \notin Fops[tempFsType])
    /\ misled' = (misled \/ filp[t] \notin {None, tempFsType})
    /\ at' = [at EXCEPT ![t] = IF op = "release" THEN "idle" ELSE @]
    /\ filp' = [filp EXCEPT ![t] = IF op = "release" THEN None ELSE @]
    /\ UNCHANGED <<fsList, tempFsType, asked>>

Init ==
    /\ fsList = <<>>
    /\ tempFsType = None                     \* .bss
    /\ at = [t \in Task |-> "idle"]
    /\ asked = [t \in Task |-> None]
    /\ filp = [t \in Task |-> None]
    /\ misled = FALSE /\ breach = {} /\ wild = FALSE

Lost == wild /\ UNCHANGED vars

Next ==
    \/ \E x \in Fs : Register(x) \/ Unregister(x)
    \/ \E t \in Task : \/ \E x \in Fs : OpenStart(t, x)
                       \/ Test(t) \/ Compare(t) \/ Step(t) \/ Call(t)
                       \/ \E op \in Op : Use(t, op)
    \/ Lost

Spec == Init /\ [][Next]_vars

-----------------------------------------------------------------------------
(* Properties                                                              *)

TypeOK ==
    /\ fsList \in Seq(Fs)
    /\ tempFsType \in Listed \cup {ListHead, None}
    /\ \A t \in Task : Walking(t) => tempFsType # None
    /\ at \in [Task -> {"idle", "test", "compare", "step", "call", "opened"}]
    /\ asked \in [Task -> Fs \cup {None}]
    /\ filp \in [Task -> Fs \cup {ListHead, None}]
    /\ breach \subseteq {"shared", "mixed", "unknown", "missing", "unlisted"}
    /\ misled \in BOOLEAN /\ wild \in BOOLEAN

\* While one file system at a time has open files and do_open is alone, every
\* call is served by the file system that made the file, although the calls
\* do not say which one that is.
ServedRight == breach = {} => ~misled

\* No call goes through the list head, an unset pointer or a missing operation.
NeverWild == breach = {} => ~wild
=============================================================================
