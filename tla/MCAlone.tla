------------------------------ MODULE MCAlone ------------------------------
(***************************************************************************)
(* The parts of the kernel that share nothing with one another: the layout *)
(* of a cache, division, strings, formatted printing and the driver model, *)
(* which work for one task at a time, and the console with the tasks that  *)
(* print on it.  A behaviour is one of them at work; the state of the      *)
(* others stays as it was.                                                 *)
(***************************************************************************)
EXTENDS KmemLayout, Division, Strings, Printf, Drivers, Console

VARIABLE which

\* mm/mem.c: 128 sizes of kmalloc_init, and sizes around the limits of every
\* order and past the last
CheckedSizes == {32 * k : k \in 1 .. 128} \cup {410 * 2^o + d : o \in 0 .. 5, d \in {-1, 0, 1}}

\* Words of ten bits at every edge, divisors of every path
SomeWords == {0, 1, 2, 3, 6, 7, 8, 100, 255, 256, 511, 512, 513, 700, 1021, 1022, 1023}
SomeDivisors  == {0, 1, 2, 3, 4, 5, 7, 8, 10, 16, 36, 64, 255, 256, 257, 511, 512, 513, 768, 1022, 1023}

LowerTable  == [b \in Byte |-> IF b = 2 THEN 1 ELSE b]

SomeBuffers == {<<8, 0>>, <<40, 31>>, <<8, 4>>, <<8, 32>>}
Texts       == {<<>>, <<"w">>, <<"w", "o", "r">>}

\* Two devices of one name and one of another, drivers for both, and a bus
\* with one device and a driver that has no probe function
SomeBusOf  == [x \in Device \cup Driver |-> IF x \in {"card", "card driver"} THEN "mmc" ELSE "platform"]
SomeNameOf == [x \in Device \cup Driver |->
                 IF x \in {"mmc 0", "mmc 1", "mmc driver", "other mmc driver"} THEN "s3c2440-mmc"
                 ELSE IF x \in {"card", "card driver"} THEN "card" ELSE "uart"]

\* A line of one character and a longer one that begins with it; what an
\* fs_task says
SomeCommands == {<<"l">>, <<"l", "x">>}
Said         == <<"a">>

AloneInit ==
    /\ which \in {"layout", "division", "strings", "printf", "drivers", "console"}
    /\ IF which = "layout" THEN Init
       ELSE size = 0 /\ order = 0 /\ at = "none" /\ i = 0 /\ s = 0 /\ pl = 0
    /\ IF which = "division" THEN DivInit
       ELSE /\ label = "ret" /\ r4 = 1 /\ xh = 0 /\ xl = 0 /\ yh = 0 /\ yl = 0
            /\ ip = 0 /\ dividend = 0
    /\ IF which = "strings" THEN StringInit
       ELSE mem = [a \in Addr |-> 0] /\ strtokAt = Null /\ call = NoCall
    /\ PrintfInit /\ (which # "printf" => buf = 8 /\ bufSize = 0)
    /\ DriversInit
    /\ ConsoleInit

AloneNext ==
    /\ UNCHANGED which
    /\ \/ which = "layout" /\ Next /\ UNCHANGED <<divVars, stringVars, printfVars, driverVars, consoleVars>>
       \/ which = "division" /\ DivNext /\ UNCHANGED <<vars, stringVars, printfVars, driverVars, consoleVars>>
       \/ which = "strings" /\ StringNext /\ UNCHANGED <<vars, divVars, printfVars, driverVars, consoleVars>>
       \/ which = "printf" /\ PrintfNext /\ UNCHANGED <<vars, divVars, stringVars, driverVars, consoleVars>>
       \/ which = "drivers" /\ DriversNext /\ UNCHANGED <<vars, divVars, stringVars, printfVars, consoleVars>>
       \/ which = "console" /\ ConsoleNext /\ UNCHANGED <<vars, divVars, stringVars, printfVars, driverVars>>

allVars == <<which, vars, divVars, stringVars, printfVars, driverVars, consoleVars>>

\* Straight code of one task, which the timer always comes back to.
AloneSpec == AloneInit /\ [][AloneNext]_allVars /\ WF_allVars(AloneNext)

Working == CASE which = "layout"   -> at \in {"find", "line"}
             [] which = "division" -> label # "ret"
             [] which = "strings"  -> call # NoCall
             [] which = "printf"   -> stage \notin {"done", "refused"}
             [] which = "drivers"  -> ~NotRegistering
             [] which = "console"  -> Goes /\ \E t \in Printer : InPrintk(t)

\* Every loop ends: the order and the string of a cache are found, the quotient
\* of any division, the text of any format, the devices of a bus and a call of printk.
LoopsEnd == Working ~> ~Working
=============================================================================
