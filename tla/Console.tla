------------------------------ MODULE Console ------------------------------
(***************************************************************************)
(* printk (mylibc/printf.c), the shell and the tasks it forks for files    *)
(* (init/main.c), on the serial line (drivers/uart.c).  Every task prints  *)
(* through one static buffer: vsprintf stores its text there, and a loop   *)
(* sends what the buffer holds up to its NUL, which it looks for anew on   *)
(* each turn.  The shell collects a line in its command buffer and runs    *)
(* it; a forked fs_task is given that same buffer for its file name, and   *)
(* reads it when its two calls of do_open are due, while the shell has     *)
(* long been collecting the next line.  The timer may switch tasks between *)
(* any two steps; a slice is much longer than a character on the line, so  *)
(* putc and getc are a step.                                               *)
(*                                                                         *)
(* unheard collects what has happened that the code does not provide for:  *)
(*   "shared"   a task printed while another one was inside printk         *)
(*   "early"    a key was stored before a forked task had read its name    *)
(*   "overrun"  a key was typed before the shell had taken the last one    *)
(*   "big"      a text was longer than the buffer                          *)
(*   "long"     a line was longer than the command buffer                  *)
(*   "returned" fs_task returned: do_fork sets its return address to 0,    *)
(*              and the machine starts anew                                *)
(* After the last four nothing more is claimed, and the model stops.       *)
(***************************************************************************)
EXTENDS Integers, Sequences

CONSTANTS Shell, Reader,     \* the shell, and the tasks it may fork
          ReaderText,        \* what an fs_task prints, and reports
          OutSize,           \* OUTBUFSIZE
          CommandSize,       \* the 30 of command[30]
          Keys,              \* the characters typed
          FileCommands,      \* the lines that fork an fs_task
          MaxTyped           \* bound: keys

ASSUME ConsoleAssumption ==
    /\ Shell \notin Reader /\ MaxTyped \in Nat
    /\ OutSize \in Nat \ {0} /\ CommandSize \in Nat \ {0}

VARIABLES outBuf,            \* g_pcOutBuf
          printing,          \* where each task is in printk
          shellAt, readerAt, \* where the shell and the forked tasks are
          command, filled,   \* command[] and i
          receiver, typed,   \* URXH0; the number of keys
          due, garbled,      \* ghosts: what is still to appear on the line,
                             \* and whether anything else has
          line, linesDue,    \* ghosts: the line being typed, those to be run
          asked,             \* ghost: the line a forked task is to serve
          misrun, misserved, \* ghosts: another line was run, or served
          unheard

printVars   == <<outBuf, printing, due, garbled>>
shellVars   == <<shellAt, command, filled, linesDue, misrun>>
keyVars     == <<receiver, typed, line>>
readerVars  == <<readerAt, asked, misserved>>
consoleVars == <<printVars, shellVars, keyVars, readerVars, unheard>>

NUL    == "NUL"
Junk   == "junk"       \* what memory holds that nobody has set
Return == "return"
Printer == {Shell} \cup Reader

\* A key is neither NUL nor Return, and no text has a NUL within it.
Letters == {ReaderText[k] : k \in DOMAIN ReaderText}
ASSUME TextAssumption == Keys \cap {NUL, Return} = {} /\ ReaderText \in Seq(Letters \ {NUL})

InPrintk(t)      == printing[t].at # "out"
Disturbs(t)      == \E u \in Printer \ {t} : InPrintk(u)
Goes             == unheard \cap {"overrun", "big", "long", "returned"} = {}
Notes(rule, bad) == unheard' = IF bad THEN unheard \cup {rule} ELSE unheard

\* The text in cells up to its NUL
TextIn(cells, n) ==
    LET ends == {k \in 0 .. n - 1 : cells[k] = NUL}
        end  == IF ends = {} THEN n ELSE CHOOSE k \in ends : \A j \in ends : k <= j
    IN  [k \in 1 .. end |-> cells[k - 1]]

\* c appears on the line.  Nothing is due in particular once texts are mixed.
Appears(c) ==
    IF due # <<>> /\ Head(due) = c
    THEN due' = Tail(due) /\ UNCHANGED garbled
    ELSE garbled' = ("shared" \notin unheard) /\ UNCHANGED due

-----------------------------------------------------------------------------
(* printk                                                                  *)

\* A call, with the text vsprintf makes of its arguments
printk(t, text) ==
    /\ ~InPrintk(t)
    /\ printing' = [printing EXCEPT ![t] = [at |-> "store", rest |-> text, k |-> 0]]
    /\ Notes("shared", Disturbs(t))
    /\ due' = IF "shared" \in unheard' THEN <<>> ELSE due \o text
    /\ garbled' = (garbled /\ "shared" \notin unheard')

SetOut(k, c) == outBuf' = [j \in DOMAIN outBuf |-> IF j = k THEN c ELSE outBuf[j]]

\* Slip: the text is not ended.
StoreOpen(t) ==
    /\ printing[t].at = "store"
    /\ LET p == printing[t] IN
       /\ \/ /\ p.rest = <<>> /\ UNCHANGED outBuf
             /\ printing' = [printing EXCEPT ![t] = [at |-> "end", k |-> 0]]
          \/ /\ p.rest # <<>> /\ SetOut(p.k, Head(p.rest))
             /\ printing' = [printing EXCEPT ![t].rest = Tail(@), ![t].k = @ + 1]
       /\ Notes("big", p.k >= OutSize)
    /\ UNCHANGED <<due, garbled, shellVars, keyVars, readerVars>>

\* vsprintf: one character after the other, then the NUL
Store(t) ==
    /\ printing[t].at = "store"
    /\ LET p == printing[t] IN
       /\ \/ /\ p.rest = <<>> /\ SetOut(p.k, NUL)
             /\ printing' = [printing EXCEPT ![t] = [at |-> "end", k |-> 0]]
          \/ /\ p.rest # <<>> /\ SetOut(p.k, Head(p.rest))
             /\ printing' = [printing EXCEPT ![t].rest = Tail(@), ![t].k = @ + 1]
       /\ Notes("big", p.k >= OutSize)
    /\ UNCHANGED <<due, garbled, shellVars, keyVars, readerVars>>

\* i < strlen(g_pcOutBuf).  Without a NUL strlen runs into what lies behind;
\* bound: by one character.
FindEnd(t) ==
    /\ printing[t].at = "end"
    /\ LET n == Len(TextIn(outBuf, OutSize)) IN
       \E behind \in (IF n = OutSize THEN {0, 1} ELSE {0}) :
          printing' = [printing EXCEPT ![t] = IF @.k < n + behind THEN [@ EXCEPT !.at = "send"]
                                              ELSE [at |-> "out"]]
    /\ UNCHANGED <<outBuf, due, garbled, shellVars, keyVars, readerVars, unheard>>

Send(t) ==
    /\ printing[t].at = "send"
    /\ LET k == printing[t].k IN Appears(IF k < OutSize THEN outBuf[k] ELSE Junk)
    /\ printing' = [printing EXCEPT ![t] = [at |-> "end", k |-> @.k + 1]]
    /\ UNCHANGED <<outBuf, shellVars, keyVars, readerVars, unheard>>

-----------------------------------------------------------------------------
(* The shell                                                               *)

\* A key is pressed; the receiver has no FIFO.
Type(c) ==
    /\ typed < MaxTyped
    /\ typed' = typed + 1
    /\ receiver' = c
    /\ IF c = Return THEN linesDue' = Append(linesDue, line) /\ line' = <<>>
       ELSE line' = Append(line, c) /\ UNCHANGED linesDue
    /\ Notes("overrun", receiver # NUL)
    /\ UNCHANGED <<printVars, shellAt, command, filled, misrun, readerVars>>

\* The shell goes on when its printk has returned.
ShellAt(where) == shellAt = where /\ ~InPrintk(Shell)

Prompt ==
    /\ ShellAt("prompt")
    /\ printk(Shell, <<"#">>)
    /\ shellAt' = "read" /\ filled' = 0
    /\ UNCHANGED <<outBuf, command, linesDue, misrun, keyVars, readerVars>>

\* command[i] = c, past the end and under the eyes of forked tasks, too
SetCommand(c) == command' = [k \in DOMAIN command |-> IF k = filled THEN c ELSE command[k]]
NamePending   == \E r \in Reader : readerAt[r] \in {"hello", "create", "wrote", "reopen"}
Collected(rules) == unheard' = unheard \cup rules \cup (IF NamePending THEN {"early"} ELSE {})
                                       \cup (IF filled >= CommandSize THEN {"long"} ELSE {})

\* The echo goes out at once, whoever is printing.
ReadKey ==
    /\ ShellAt("read") /\ receiver \notin {NUL, Return}
    /\ receiver' = NUL
    /\ garbled' = (garbled \/ due # <<>>)
    /\ SetCommand(receiver)
    /\ filled' = filled + 1
    /\ Collected(IF Disturbs(Shell) THEN {"shared"} ELSE {})
    /\ UNCHANGED <<outBuf, printing, due, shellAt, linesDue, misrun, typed, line, readerVars>>

\* Slip: the command is not ended.
ReadReturnOpen ==
    /\ ShellAt("read") /\ receiver = Return
    /\ receiver' = NUL
    /\ shellAt' = "newline"
    /\ Collected({})
    /\ UNCHANGED <<printVars, command, filled, linesDue, misrun, typed, line, readerVars>>

ReadReturn ==
    /\ ShellAt("read") /\ receiver = Return
    /\ receiver' = NUL
    /\ SetCommand(NUL)
    /\ shellAt' = "newline"
    /\ Collected({})
    /\ UNCHANGED <<printVars, filled, linesDue, misrun, typed, line, readerVars>>

Newline ==
    /\ ShellAt("newline")
    /\ printk(Shell, <<"\n">>)
    /\ shellAt' = "run"
    /\ UNCHANGED <<outBuf, command, filled, linesDue, misrun, keyVars, readerVars>>

\* run_commond.  ls, wakeup and the programs are other modules' subject.  Bound:
\* a file command is run while there is a task left for it.
Run ==
    /\ ShellAt("run")
    /\ LET text == TextIn(command, CommandSize)
           due0 == IF linesDue = <<>> THEN <<>> ELSE Head(linesDue)
       IN
       /\ misrun' = (misrun \/ linesDue = <<>> \/ due0 # text)
       /\ linesDue' = IF linesDue = <<>> THEN <<>> ELSE Tail(linesDue)
       /\ \/ /\ text = <<>> /\ UNCHANGED <<printVars, readerVars, unheard>>
          \/ /\ text \in FileCommands
             /\ \E r \in Reader :
                /\ readerAt[r] = "none"
                /\ readerAt' = [readerAt EXCEPT ![r] = "hello"]
                /\ asked' = [asked EXCEPT ![r] = due0]
             /\ UNCHANGED <<printVars, misserved, unheard>>
          \/ /\ text \notin FileCommands \cup {<<>>}
             /\ printk(Shell, Append(text, "!")) /\ UNCHANGED <<outBuf, readerVars>>
    /\ shellAt' = "prompt"
    /\ UNCHANGED <<command, filled, keyVars>>

-----------------------------------------------------------------------------
(* fs_task                                                                 *)

ReaderAt(r, where) == readerAt[r] = where /\ ~InPrintk(r)
Moves(r, there)    == readerAt' = [readerAt EXCEPT ![r] = there]

\* What it reports before the first and after each do_open.  do_write,
\* do_read and do_close come in between; they never look at the name.
Report(r, here, there) ==
    /\ ReaderAt(r, here) /\ printk(r, ReaderText) /\ Moves(r, there)
    /\ UNCHANGED <<outBuf, shellVars, keyVars, asked, misserved>>

\* do_open(path_name): the name is compared with the names on the card, here in
\* one step, and the call may fail for reasons that are not modelled here.
Open(r, here, there) ==
    /\ ReaderAt(r, here)
    /\ misserved' = (misserved \/ TextIn(command, CommandSize) # asked[r])
    /\ \E to \in {there, "failed"} : Moves(r, to)
    /\ UNCHANGED <<printVars, shellVars, keyVars, asked, unheard>>

\* return -1, where the other ending calls do_exit
ReturnToZero(r) ==
    /\ ReaderAt(r, "return")
    /\ Moves(r, "gone")
    /\ unheard' = unheard \cup {"returned"}
    /\ UNCHANGED <<printVars, shellVars, keyVars, asked, misserved>>

fs_task(r) ==
    \/ Report(r, "hello", "create") \/ Open(r, "create", "wrote")
    \/ Report(r, "wrote", "reopen") \/ Open(r, "reopen", "read")
    \/ Report(r, "read", "exited")
    \/ Report(r, "failed", "return") \/ ReturnToZero(r)

-----------------------------------------------------------------------------
ConsoleInit ==
    /\ outBuf = [k \in 0 .. OutSize - 1 |-> Junk]
    /\ printing = [t \in Printer |-> [at |-> "out"]]
    /\ shellAt = "prompt" /\ readerAt = [r \in Reader |-> "none"]
    /\ command = [k \in 0 .. CommandSize - 1 |-> Junk] /\ filled = 0
    /\ receiver = NUL /\ typed = 0
    /\ due = <<>> /\ garbled = FALSE
    /\ line = <<>> /\ linesDue = <<>> /\ asked = [r \in Reader |-> <<>>]
    /\ misrun = FALSE /\ misserved = FALSE
    /\ unheard = {}

ConsoleNext ==
    /\ Goes
    /\ \/ \E t \in Printer : Store(t) \/ FindEnd(t) \/ Send(t)
       \/ \E c \in Keys \cup {Return} : Type(c)
       \/ Prompt \/ ReadKey \/ ReadReturn \/ Newline \/ Run
       \/ \E r \in Reader : fs_task(r)

-----------------------------------------------------------------------------
\* As long as one task at a time prints, every text appears on the line whole
\* and in its turn, and nothing else does, whatever the buffer held before.
PrintedWhole ==
    unheard \subseteq {"early"} =>
        /\ ~garbled
        /\ (\A t \in Printer : ~InPrintk(t)) => due = <<>>

\* Even when tasks print over each other, the shell runs the lines that were
\* typed, each once and in their order, although its buffer holds the rest of
\* longer lines, and waits for a key only when there is none left to run; and a
\* forked task writes and reads the file that was typed for it, provided nothing
\* is typed until it has opened it a second time: however far the shell gets in
\* the meantime, it leaves the name in the buffer alone.
LinesServed ==
    /\ unheard \subseteq {"shared", "early"} =>
         /\ ~misrun
         /\ ShellAt("read") /\ receiver = NUL => linesDue = <<>>
    /\ unheard \subseteq {"shared"} => ~misserved
=============================================================================
