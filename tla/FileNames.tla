----------------------------- MODULE FileNames -----------------------------
(***************************************************************************)
(* What opening a file promises a task of AsymptoteOS, whatever bitmaps,   *)
(* inodes and directory sectors lie behind it: with O_CREAT a name that is *)
(* new becomes a file, with O_RDWR a name that is there is opened, and     *)
(* everything else is refused.                                             *)
(***************************************************************************)
CONSTANTS Task,    \* the tasks that use files
          Name,    \* the names they use
          File,    \* the file descriptors of a task
          None     \* no name, no request

VARIABLES files,   \* the names of the files there are
          open,    \* the name each descriptor of each task stands for
          ask      \* what a task that has called open waits for

fileVars == <<files, open, ask>>

FilesInit ==
    /\ files = {}
    /\ open = [t \in Task |-> [f \in File |-> None]]
    /\ ask = [t \in Task |-> None]

\* open(n, O_CREAT) or open(n, O_RDWR) is called.
Ask(t, n, create) ==
    /\ ask[t] = None
    /\ ask' = [ask EXCEPT ![t] = [name |-> n, create |-> create]]
    /\ UNCHANGED <<files, open>>

\* It returns a descriptor that was free, ...
Grant(t, f) ==
    /\ ask[t] # None
    /\ ask[t].create <=> ask[t].name \notin files
    /\ open[t][f] = None
    /\ files' = files \cup {ask[t].name}
    /\ open' = [open EXCEPT ![t][f] = ask[t].name]
    /\ ask' = [ask EXCEPT ![t] = None]

\* ... or -1.
Refuse(t) ==
    /\ ask[t] # None
    /\ ask[t].create <=> ask[t].name \in files
    /\ ask' = [ask EXCEPT ![t] = None]
    /\ UNCHANGED <<files, open>>

Close(t, f) ==
    /\ ask[t] = None
    /\ open[t][f] # None
    /\ open' = [open EXCEPT ![t][f] = None]
    /\ UNCHANGED <<files, ask>>

\* The machine starts anew and formats its card.
Format ==
    /\ files' = {}
    /\ open' = [t \in Task |-> [f \in File |-> None]]
    /\ ask' = [t \in Task |-> None]

FilesNext ==
    \/ \E t \in Task : \/ \E n \in Name, create \in BOOLEAN : Ask(t, n, create)
                       \/ Refuse(t)
                       \/ \E f \in File : Grant(t, f) \/ Close(t, f)
    \/ Format

FilesSpec == FilesInit /\ [][FilesNext]_fileVars
=============================================================================
