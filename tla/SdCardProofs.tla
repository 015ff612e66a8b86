---------------------------- MODULE SdCardProofs ----------------------------
(***************************************************************************)
(* The SD card driver for any size of card, block and FIFO and any number  *)
(* of faults.  As long as none of the cases of breach has come up, an      *)
(* initialised card is ready between calls and holds what was written.     *)
(* Whatever has come up, the card lacks no more than the end of the last   *)
(* write, and a read that returns 0 has delivered all but its last block.  *)
(*                                                                         *)
(* There are two invariants.  SdInv holds until the first breach: caller,  *)
(* controller and card are in step, what the card has taken and what the   *)
(* caller knows of it differ only while a command is under way.  SdAlways  *)
(* holds behind it too: it follows the words of a write from the caller's  *)
(* buffer through FIFO and block to the memory, and says what a read that  *)
(* has ended holds.                                                        *)
(***************************************************************************)
EXTENDS SdCard, TLAPS

CardState == {"idle", "ready", "ident", "stby", "tran", "data", "rcv", "prg"}
CardRecord == [state : CardState, wide : BOOLEAN, ptr : Nat, mem : [0 .. Blocks * W -> Int],
               block : Seq(Int), deaf : BOOLEAN]
Operation == [at   : {"idle", "issue", "wait", "words", "take"},
              cmd  : Command \cup {None},
              op   : {None, "init", "read", "write"},
              addr : Nat, n : Nat, i : Nat, p : Nat, buf : Seq(Int), tries : Nat]

SdTypes ==
    /\ card \in CardRecord
    /\ busy \in Command \cup {None}
    /\ fifo \in Seq(Int) /\ dmode \in {"off", "rx", "tx"} /\ dleft \in Int
    /\ dsta \subseteq {"bad"} /\ spoilt \in BOOLEAN
    /\ info \in [up : BOOLEAN, rca : {"right", "wrong"}, wide : BOOLEAN]
    /\ c \in Operation
    /\ image \in [Word -> Int]
    /\ calls \in Nat

\* The card took the command the caller waits for, and the caller is told so.
Heard == c.at = "wait" /\ busy = None /\ "timeout" \notin csta

\* Caller and controller: a command is under way, or has an answer, only while
\* the caller waits for it.
InStep ==
    /\ c.at # "wait" => busy = None /\ csta = {}
    /\ c.at = "wait" =>
          \/ busy = c.cmd /\ csta = {}
          \/ busy = None /\ csta \in {{"rsp"}, {"sent"}, {"timeout"}, {"rsp", "crc"}}
    /\ busy = None /\ c.cmd = "CMD0" => "timeout" \notin csta
    /\ c.at = "idle" => c = Idle
    /\ c.op = None => c.at = "idle"
    /\ c.op = "init" => c.at \in {"issue", "wait"} /\ c.cmd \in Command \ {"CMD18", "CMD25", "CMD12"}
    /\ c.op = "read" => c.at # "idle" /\ c.cmd \in {"CMD18", "CMD12"}
    /\ c.op = "write" => c.at \notin {"idle", "take"} /\ c.cmd \in {"CMD25", "CMD12"}
    /\ c.at \in {"words", "take"} => c.cmd \in {"CMD18", "CMD25"}

\* Three stages of a transfer: the card waits for it, is at it, has ended it.
Opening == c.cmd \in {"CMD18", "CMD25"} /\ c.at \in {"issue", "wait"} /\ ~Heard
Open    == c.cmd \in {"CMD18", "CMD25"} /\ (c.at \in {"words", "take"} \/ Heard)
Closing == c.cmd = "CMD12"

\* Caller and card
Selected == card.state \in {"tran", "prg"}
Agreed   == info.rca = "right" /\ info.wide = card.wide
Chosen   == {"tran", "data", "rcv", "prg"}
CardInStep ==
    /\ card.wide => card.state \in Chosen
    /\ c.op = None /\ info.up => Selected /\ Agreed
    /\ c.op = "init" =>
          /\ ~info.up
          /\ c.cmd \in {"CMD13", "CMD55w", "ACMD6"} \/ (c.cmd = "CMD7" /\ Heard) =>
                card.state = "tran" /\ info.rca = "right" /\ card.wide = (c.cmd = "ACMD6" /\ Heard)
    /\ c.op \in {"read", "write"} =>
          /\ info.up /\ Agreed
          /\ Opening \/ (Closing /\ Heard) => Selected
          /\ Open \/ (Closing /\ ~Heard) => card.state = IF c.op = "read" THEN "data" ELSE "rcv"

\* The words the call is about
First == c.addr * W
Count == c.n * W
Top   == Blocks * W

\* The words of a read that have arrived, in the caller's buffer or the FIFO, and
\* the first of them that are what the card holds
Got(q)   == IF q <= c.i THEN c.buf[q] ELSE fifo[q - c.i]
Right(m) == \A q \in 1 .. m : Got(q) = card.mem[First + q - 1]
Clean    == dsta = {} /\ ~spoilt

\* As long as no word was spoilt, all are right; of a block that was spoilt the
\* caller is told before the next one comes.
ReadInStep ==
    /\ c.i <= Count /\ Len(c.buf) = c.i
    /\ c.at = "take" => c.i < Count
    /\ Opening => dmode = "rx" /\ fifo = <<>> /\ dleft = Count /\ c.i = 0 /\ Clean
    /\ Open => /\ dmode = "rx" /\ dleft >= 0
               /\ card.ptr = First + Count - dleft
               /\ c.i + Len(fifo) = Count - dleft
               /\ Clean => Right(Count - dleft)
               /\ spoilt /\ dsta = {} /\ dleft < W => Right(Count - W)
               /\ dsta # {} /\ c.i > Count - W /\ (c.at = "take" \/ c.i = Count) => Right(Count - W)
    /\ Closing => dmode = "off" /\ Clean /\ c.i = Count /\ Right(Count)

\* A write under way has met none of the cases of breach.
WriteInStep ==
    /\ Clean /\ card.wide
    /\ c.p = c.i /\ c.i <= Count /\ Count < HalfWord
    /\ ~Closing => dmode = "tx"
    /\ Open => ~card.deaf
    /\ Closing => dmode = "off"

\* The data path
DataInStep ==
    /\ c.op \in {None, "init"} => dmode = "off" /\ Clean
    /\ c.op \in {"read", "write"} => First + Count <= Top
    /\ c.op # "write" \/ Closing => \A w \in Word : card.mem[w] = image[w]
    /\ c.op = "read" => ReadInStep
    /\ c.op = "write" => WriteInStep

SdState == SdTypes /\ InStep /\ CardInStep /\ DataInStep
SdInv   == breach = {} => SdState

-----------------------------------------------------------------------------
\* What holds whatever has gone wrong: what the variables are
Core ==
    /\ card \in CardRecord
    /\ busy \in Command \cup {None}
    /\ dmode \in {"off", "rx", "tx"}
    /\ c \in Operation
    /\ image \in [Word -> Int] /\ before \in [Word -> Int]
    /\ calls \in Nat
    /\ c.at = "take" => c.op = "read"

\* The words of a write on their way: in the FIFO, in the block the card is sent,
\* and in its memory, in the order of the caller's buffer.
Sent == Count - dleft
InBlock == Len(card.block)
Sending ==
    /\ c.op = "write" /\ c.cmd = "CMD25" /\ busy \in {None, "CMD25"}
    /\ First + Count <= Top /\ dleft \in 0 .. Count
    /\ fifo \in Seq(Int) /\ c.p = Sent + Len(fifo)
    /\ \A j \in 1 .. Len(fifo) : fifo[j] = Meant(Sent + j - 1)
    /\ \A w \in Word : image[w] = IF w \in First .. First + Count - 1 THEN Meant(w - First) ELSE before[w]
    /\ card.state # "rcv" => dleft = Count /\ \A w \in Word : card.mem[w] = before[w]
    /\ card.state = "rcv" =>
          /\ InBlock < W /\ InBlock <= Sent
          /\ \A j \in 1 .. InBlock : card.block[j] = Meant(Sent - InBlock + j - 1)
          /\ ~card.deaf => /\ \E k \in Nat : card.ptr = k * W
                           /\ card.ptr + InBlock = First + Sent
                           /\ \A w \in Word : card.mem[w] = IF w < card.ptr THEN image[w] ELSE before[w]
SendInv == dmode = "tx" => Sending

\* A read that has ended, and one whose answer was lost
ReadEnds ==
    /\ c.op = "read" => c.cmd \in {"CMD18", "CMD12"}
    /\ c.op = "read" /\ c.cmd = "CMD12" =>
          /\ c.at \in {"issue", "wait"}
          /\ Len(c.buf) = Count /\ Delivered(Count - W)
          /\ "late" \notin breach => Delivered(Count)
    /\ c.op = "read" /\ c.cmd = "CMD18" /\ breach # {} =>
          /\ c.at \in {"issue", "wait"} /\ card.state = "data"
          /\ busy \in {None, "CMD18"} /\ csta \subseteq {"timeout"}

SdAlways == Core /\ SendInv /\ LostAtEnd /\ ReadEnds

-----------------------------------------------------------------------------
(* Facts about the constants and the commands                              *)

Commands == {"CMD0", "CMD1", "CMD55", "ACMD41", "CMD2", "CMD3", "CMD9", "CMD7", "CMD13",
             "CMD55w", "ACMD6", "CMD18", "CMD25", "CMD12"}

\* The commands are those of the table, and None is none of them.
LEMMA CommandNames == Command = Commands /\ None \notin Commands \cup {"init", "read", "write"}
  <1>1. Command = Commands
    BY DEF Command, Takes, Commands
  <1> QED BY <1>1, SdNoneAssumption

\* Where each command finds the card, and leaves it.
LEMMA CommandTable ==
    ASSUME NEW cmd \in Command, NEW s \in CardState, s \in Takes[cmd]
    PROVE  /\ NextState(cmd, s) \in CardState
           /\ cmd # "CMD0" /\ s \in Chosen => NextState(cmd, s) \in Chosen
           /\ cmd = "CMD0" => NextState(cmd, s) = "idle"
           /\ cmd = "CMD7" => s \notin Chosen /\ NextState(cmd, s) = "tran"
           /\ cmd \in {"CMD13", "CMD55w", "ACMD6"} => NextState(cmd, s) = s
           /\ cmd = "ACMD6" => s = "tran"
           /\ cmd = "CMD18" => s = "tran" /\ NextState(cmd, s) = "data"
           /\ cmd = "CMD25" => s = "tran" /\ NextState(cmd, s) = "rcv"
           /\ cmd = "CMD12" => s \in {"data", "rcv"} /\ NextState(cmd, s) \in {"tran", "prg"}
  <1>1. cmd \in Commands
    BY CommandNames
  <1> QED BY <1>1 DEF Commands, CardState, Takes, NextState, After, Chosen

LEMMA SdConstants == /\ Blocks \in Nat /\ W \in Nat /\ W > 1 /\ HalfWord \in Nat
                     /\ Top \in Nat /\ Word = 0 .. Top - 1
  <1>1. Blocks \in Nat /\ W \in Nat /\ W > 1 /\ HalfWord \in Nat
    BY SdAssumption
  <1> QED BY <1>1 DEF Top, Word

\* A block ends where a whole number of blocks is left.
LEMMA BlockLeft == W % W = 0
  BY SdConstants

\* Between two ends of blocks lies less than a block, or nothing.
LEMMA BlocksApart ==
    ASSUME NEW k \in Nat, NEW m \in Nat, NEW b \in Nat, b < W, k * W + b = m * W
    PROVE  b = 0
  <1>1. m = k \/ m >= k + 1 \/ m + 1 <= k
    OBVIOUS
  <1>2. CASE m = k
    <2>1. k * W \in Nat
      BY SdConstants
    <2> QED BY <1>2, <2>1
  <1>3. CASE m >= k + 1
    <2>1. PICK r \in Nat : m = k + 1 + r
      <3>1. m - (k + 1) \in Nat /\ m = k + 1 + (m - (k + 1))
        BY <1>3
      <3> QED BY <3>1
    <2>2. m * W = k * W + W + r * W /\ r * W \in Nat /\ k * W \in Nat
      BY <2>1, SdConstants
    <2> QED BY <2>2, SdConstants
  <1>4. CASE m + 1 <= k
    <2>1. PICK r \in Nat : k = m + 1 + r
      <3>1. k - (m + 1) \in Nat /\ k = m + 1 + (k - (m + 1))
        BY <1>4
      <3> QED BY <3>1
    <2>2. k * W = m * W + W + r * W /\ r * W \in Nat /\ m * W \in Nat
      BY <2>1, SdConstants
    <2> QED BY <2>2, SdConstants
  <1> QED BY <1>1, <1>2, <1>3, <1>4

\* As many words, as many blocks at most
LEMMA BlocksBelow ==
    ASSUME NEW k \in Nat, k * W <= Top
    PROVE  k <= Blocks
  <1> SUFFICES ASSUME k >= Blocks + 1 PROVE FALSE
    BY SdConstants
  <1>1. PICK r \in Nat : k = Blocks + 1 + r
    <2>1. k - (Blocks + 1) \in Nat /\ k = Blocks + 1 + (k - (Blocks + 1))
      BY SdConstants
    <2> QED BY <2>1
  <1>2. k * W = Blocks * W + W + r * W /\ r * W \in Nat /\ Blocks * W \in Nat
    BY <1>1, SdConstants
  <1> QED BY <1>2, SdConstants DEF Top

\* What the memory and the variables of the caller hold are whole numbers.
LEMMA MeantInt == ASSUME c \in Operation, calls \in Nat, NEW k \in Int PROVE Meant(k) \in Int
  <1>1. c.addr \in Nat
    BY DEF Operation
  <1>2. c.addr * W \in Int /\ calls * Blocks * W \in Int
    <2>1. calls * Blocks \in Int
      BY SdConstants
    <2> QED BY <1>1, <2>1, SdConstants
  <1> QED BY <1>2 DEF Meant

-----------------------------------------------------------------------------
(* The controller                                                          *)

LEMMA SdInit == Init => SdState
  <1> SUFFICES ASSUME Init PROVE SdState
    OBVIOUS
  <1>1. c.at = "idle" /\ c.op = None /\ c.cmd = None /\ busy = None /\ csta = {} /\ None \notin Commands
    BY CommandNames DEF Init, Idle
  <1>2. SdTypes
    <2>1. card \in CardRecord
      <3>1. [w \in 0 .. Blocks * W |-> w] \in [0 .. Blocks * W -> Int] /\ <<>> \in Seq(Int)
        BY SdConstants
      <3> QED BY <3>1 DEF Init, CardRecord, CardState
    <2>2. c \in Operation
      BY DEF Init, Idle, Operation
    <2>3. fifo \in Seq(Int) /\ image \in [Word -> Int]
      <3>1. Word \subseteq Int /\ <<>> \in Seq(Int)
        BY SdConstants
      <3>2. [w \in Word |-> w] \in [Word -> Int]
        BY <3>1
      <3>3. fifo = <<>> /\ image = [w \in Word |-> w]
        BY DEF Init
      <3> QED BY <3>1, <3>2, <3>3
    <2>4. /\ busy = None /\ dmode = "off" /\ dleft = 0 /\ dsta = {} /\ spoilt = FALSE /\ calls = 0
          /\ info = [up |-> FALSE, rca |-> "wrong", wide |-> FALSE]
      BY DEF Init
    <2>5. /\ busy \in Command \cup {None} /\ dmode \in {"off", "rx", "tx"} /\ dleft \in Int
          /\ dsta \subseteq {"bad"} /\ calls \in Nat
      BY <2>4
    <2>6. spoilt \in BOOLEAN /\ info \in [up : BOOLEAN, rca : {"right", "wrong"}, wide : BOOLEAN]
      BY <2>4
    <2> QED BY <2>1, <2>2, <2>3, <2>5, <2>6, Zenon DEF SdTypes
  <1>3. InStep
    BY <1>1, CommandNames DEF InStep, Commands, Init
  <1>4. CardInStep
    BY <1>1, CommandNames DEF Init, CardInStep
  <1>5. DataInStep
    <2>1. card.mem = [w \in 0 .. Blocks * W |-> w] /\ image = [w \in Word |-> w]
      BY DEF Init
    <2>2. Word \subseteq 0 .. Blocks * W
      BY SdConstants DEF Word, Top
    <2>3. \A w \in Word : card.mem[w] = image[w]
      BY <2>1, <2>2
    <2>4. dmode = "off" /\ Clean
      BY DEF Init, Clean
    <2> QED BY <1>1, <2>3, <2>4, CommandNames DEF DataInStep
  <1> QED BY <1>2, <1>3, <1>4, <1>5 DEF SdState

\* What the card is after it has taken a command
LEMMA CardTakes ==
    ASSUME card \in CardRecord, c \in Operation, NEW cmd \in Command, card.state \in Takes[cmd]
    PROVE  LET d == TakenCard(cmd)
           IN  /\ d \in CardRecord
               /\ d.state = NextState(cmd, card.state)
               /\ d.wide = IF cmd = "CMD0" THEN FALSE ELSE IF cmd = "ACMD6" THEN TRUE ELSE card.wide
               /\ d.ptr = IF cmd \in {"CMD18", "CMD25"} THEN First ELSE card.ptr
               /\ d.mem = card.mem /\ d.block = <<>>
               /\ d.deaf = (cmd = "CMD25" /\ ~card.wide)
  <1> DEFINE M == [0 .. Blocks * W -> Int]
             st == NextState(cmd, card.state)
             wd == CASE cmd = "CMD0" -> FALSE [] cmd = "ACMD6" -> TRUE [] OTHER -> card.wide
             pt == IF cmd \in {"CMD18", "CMD25"} THEN c.addr * W ELSE card.ptr
             df == cmd = "CMD25" /\ ~card.wide
             d  == TakenCard(cmd)
  <1>1. card \in [state : CardState, wide : BOOLEAN, ptr : Nat, mem : M, block : Seq(Int), deaf : BOOLEAN]
    BY DEF CardRecord
  <1>2. st \in CardState
    BY <1>1, CommandTable
  <1>3. wd \in BOOLEAN /\ wd = IF cmd = "CMD0" THEN FALSE ELSE IF cmd = "ACMD6" THEN TRUE ELSE card.wide
    BY <1>1
  <1>4. pt \in Nat /\ pt = IF cmd \in {"CMD18", "CMD25"} THEN First ELSE card.ptr
    BY <1>1, SdConstants DEF Operation, First
  <1>5. df \in BOOLEAN
    OBVIOUS
  <1>6. d = [card EXCEPT !.state = st, !.wide = wd, !.ptr = pt, !.block = <<>>, !.deaf = df]
    BY <1>1 DEF TakenCard
  <1> HIDE DEF M, st, wd, pt, df, d
  <1>7. d = [state |-> st, wide |-> wd, ptr |-> pt, mem |-> card.mem, block |-> <<>>, deaf |-> df]
    BY <1>1, <1>6
  <1>8. <<>> \in Seq(Int) /\ card.mem \in M
    BY <1>1
  <1>9. d \in [state : CardState, wide : BOOLEAN, ptr : Nat, mem : M, block : Seq(Int), deaf : BOOLEAN]
    BY <1>2, <1>3, <1>4, <1>5, <1>7, <1>8
  <1>10. d.state = st /\ d.wide = wd /\ d.ptr = pt /\ d.mem = card.mem /\ d.block = <<>> /\ d.deaf = df
    BY <1>7
  <1> QED BY <1>3, <1>4, <1>9, <1>10 DEF M, CardRecord, st, df, d

\* What the answer to a command leaves alone
Answered == busy' = None /\ UNCHANGED <<data, info, c, image, calls>>

LEMMA AnsweredFacts ==
    ASSUME SdState, busy # None, Answered
    PROVE  /\ c.at = "wait" /\ c.cmd = busy /\ c.cmd \in Command /\ csta = {} /\ ~Heard
           /\ First' = First /\ Count' = Count /\ Closing' = Closing /\ Top' = Top
           /\ c' = c /\ info' = info /\ fifo' = fifo /\ dmode' = dmode /\ dleft' = dleft
           /\ dsta' = dsta /\ spoilt' = spoilt /\ image' = image /\ calls' = calls /\ busy' = None
           /\ ~Open
           /\ Opening <=> c.cmd \in {"CMD18", "CMD25"}
  BY CommandNames DEF SdState, InStep, Answered, data, Heard, First, Count, Closing, Top, SdTypes, Open, Opening

\* The card takes the command, or answers ACMD41 that it is not ready, or never
\* gets CMD0, and the caller hears what it expects.
LEMMA HeardKeeps ==
    ASSUME SdState, busy # None, Answered,
           \/ Taken(busy) /\ card' = TakenCard(busy)
           \/ busy \in {"ACMD41", "CMD0"} /\ card' = card,
           csta' \in {{"rsp"}, {"sent"}, {"rsp", "crc"}}
    PROVE  SdState'
  <1>1. /\ c.at = "wait" /\ c.cmd = busy /\ c.cmd \in Command /\ csta = {} /\ ~Heard
        /\ First' = First /\ Count' = Count /\ Closing' = Closing /\ Top' = Top
        /\ c' = c /\ info' = info /\ fifo' = fifo /\ dmode' = dmode /\ dleft' = dleft
        /\ dsta' = dsta /\ spoilt' = spoilt /\ image' = image /\ calls' = calls /\ busy' = None
        /\ ~Open
        /\ Opening <=> c.cmd \in {"CMD18", "CMD25"}
    BY AnsweredFacts
  <1>2. Heard' /\ ~Opening' /\ (Open' <=> c.cmd \in {"CMD18", "CMD25"})
    BY <1>1 DEF Heard, Opening, Open
  <1>3. card \in CardRecord /\ c \in Operation /\ card.state \in CardState
    BY DEF SdState, SdTypes, CardRecord
  <1>4. /\ card' \in CardRecord
        /\ card'.mem = card.mem
        /\ c.cmd \in {"CMD18", "CMD25"} => card'.ptr = First
        /\ c.cmd \notin {"CMD0", "ACMD6"} => card'.wide = card.wide
        /\ c.cmd = "ACMD6" => card'.wide
        /\ c.cmd = "CMD25" => card'.deaf = ~card.wide
    BY <1>1, <1>3, CardTakes DEF Taken
  <1>5. ASSUME c.cmd \notin {"ACMD41", "CMD0"}
        PROVE  /\ card.state \in Takes[c.cmd]
               /\ card'.state = NextState(c.cmd, card.state)
               /\ c.cmd \in Addressed => info.rca = "right"
    BY <1>1, <1>3, <1>5, CardTakes DEF Taken
  <1>6. /\ c.cmd = "CMD7" => card.state \notin Chosen /\ card'.state = "tran" /\ info.rca = "right"
        /\ c.cmd \in {"CMD13", "CMD55w", "ACMD6"} => card'.state = card.state
        /\ c.cmd = "CMD18" => card'.state = "data"
        /\ c.cmd = "CMD25" => card'.state = "rcv"
        /\ c.cmd = "CMD12" => card'.state \in {"tran", "prg"}
    <2>1. CASE c.cmd \in {"ACMD41", "CMD0"}
      BY <2>1
    <2>2. CASE c.cmd \notin {"ACMD41", "CMD0"}
      <3>1. card.state \in Takes[c.cmd] /\ card'.state = NextState(c.cmd, card.state)
        BY <1>5, <2>2
      <3>2. c.cmd = "CMD7" => info.rca = "right"
        BY <1>5, <2>2 DEF Addressed
      <3> QED BY <1>1, <1>3, <3>1, <3>2, CommandTable
    <2> QED BY <2>1, <2>2
  <1>7. card'.wide => card'.state \in Chosen
    <2>1. card.wide => card.state \in Chosen
      BY DEF SdState, CardInStep
    <2>2. CASE card' = card
      BY <2>1, <2>2
    <2>3. CASE Taken(busy) /\ card' = TakenCard(busy)
      <3>1. c.cmd = "CMD0" => ~card'.wide
        BY <1>1, <1>3, <2>3, CardTakes DEF Taken
      <3>2. /\ card'.state = NextState(c.cmd, card.state)
            /\ c.cmd # "CMD0" /\ card.state \in Chosen => card'.state \in Chosen
            /\ c.cmd = "ACMD6" => card.state = "tran"
        <4>1. card.state \in Takes[c.cmd] /\ c.cmd \in Command /\ card'.state = NextState(c.cmd, card.state)
          BY <1>1, <1>3, <2>3, CardTakes DEF Taken
        <4> QED BY <1>3, <4>1, CommandTable
      <3>3. "tran" \in Chosen
        BY DEF Chosen
      <3> QED BY <1>4, <2>1, <3>1, <3>2, <3>3
    <2> QED BY <2>2, <2>3
  <1>8. SdTypes'
    BY <1>1, <1>4 DEF SdState, SdTypes
  <1>9. InStep'
    BY <1>1, CommandNames DEF SdState, InStep, Commands
  <1>10. CardInStep'
    <2>1. CASE c.op = "init"
      <3>1. /\ ~info.up
            /\ c.cmd \in {"CMD13", "CMD55w", "ACMD6"} =>
                  card.state = "tran" /\ info.rca = "right" /\ ~card.wide
            /\ card.wide => card.state \in Chosen
        BY <1>1, <2>1 DEF SdState, CardInStep
      <3>2. c.cmd \in {"CMD13", "CMD55w", "ACMD6", "CMD7"} =>
                  card'.state = "tran" /\ info.rca = "right" /\ card'.wide = (c.cmd = "ACMD6")
        <4>1. card'.wide \in BOOLEAN
          BY <1>4 DEF CardRecord
        <4> QED BY <1>4, <1>6, <3>1, <4>1
      <3> QED BY <1>1, <1>2, <1>7, <2>1, <3>1, <3>2, CommandNames DEF CardInStep
    <2>2. CASE c.op # "init"
      BY <1>1, <1>2, <1>4, <1>6, <1>7, <2>2, CommandNames DEF SdState, InStep, CardInStep, Selected, Agreed, Closing
    <2> QED BY <2>1, <2>2
  <1>11. DataInStep'
    <2>1. CASE c.op \notin {"read", "write"}
      BY <1>1, <1>4, <2>1 DEF SdState, DataInStep, Clean
    <2>2. CASE c.op = "read"
      <3>1. c.op' = "read" /\ ReadInStep /\ (\A w \in Word : card.mem[w] = image[w]) /\ First + Count <= Top
        BY <1>1, <2>2 DEF SdState, DataInStep
      <3>2. First \in Nat /\ Count \in Nat /\ c.i \in Nat
        BY SdConstants DEF First, Count, SdState, SdTypes, Operation
      <3>3. /\ c.i <= Count /\ Len(c.buf) = c.i /\ c.at # "take"
            /\ Closing => dmode = "off" /\ Clean' /\ c.i = Count /\ Right(Count)
        BY <1>1, <3>1 DEF ReadInStep, Clean
      <3>4. ASSUME Open'
            PROVE  /\ dmode = "rx" /\ dleft >= 0
                   /\ card'.ptr = First + Count - dleft
                   /\ c.i + Len(fifo) = Count - dleft
                   /\ Clean' /\ Right(Count - dleft)'
        <4>1. dmode = "rx" /\ fifo = <<>> /\ dleft = Count /\ c.i = 0 /\ card'.ptr = First /\ Clean'
          BY <1>1, <1>2, <1>4, <3>1, <3>4 DEF ReadInStep, Clean
        <4>2. Count - dleft = 0
          BY <3>2, <4>1
        <4>3. Right(0)'
          BY DEF Right
        <4> QED BY <1>1, <3>2, <4>1, <4>2, <4>3
      <3>5. Right(Count) => Right(Count)'
        BY <1>1, <1>4 DEF Right, Got
      <3>6. ReadInStep'
        BY <1>1, <1>2, <3>3, <3>4, <3>5 DEF ReadInStep, Clean
      <3> QED BY <1>1, <1>4, <3>1, <3>6, CommandNames DEF DataInStep
    <2>3. CASE c.op = "write"
      <3>1. c.op' = "write" /\ WriteInStep /\ First + Count <= Top
        BY <1>1, <2>3 DEF SdState, DataInStep
      <3>2. c.cmd \in {"CMD25", "CMD12"}
        BY <1>1, <2>3 DEF SdState, InStep
      <3>3. card.wide \in BOOLEAN
        BY <1>3 DEF CardRecord
      <3>4. WriteInStep'
        BY <1>1, <1>2, <1>4, <3>1, <3>2, <3>3 DEF WriteInStep, Clean
      <3>5. Closing => \A w \in Word : card.mem[w] = image[w]
        BY DEF SdState, DataInStep
      <3> QED BY <1>1, <1>4, <3>1, <3>4, <3>5, CommandNames DEF DataInStep
    <2> QED BY <2>1, <2>2, <2>3
  <1> QED BY <1>8, <1>9, <1>10, <1>11 DEF SdState

\* The caller hears of no answer, and the card has not taken the command, or
\* taken one that is tried again without harm.
LEMMA UnheardKeeps ==
    ASSUME SdState, busy \notin {None, "CMD0"}, Answered,
           \/ card' = card
           \/ Taken(busy) /\ card' = TakenCard(busy) /\ busy \notin {"CMD18", "CMD25", "CMD12", "ACMD6"},
           csta' = {"timeout"}
    PROVE  SdState'
  <1>1. /\ c.at = "wait" /\ c.cmd = busy /\ c.cmd \in Command /\ csta = {} /\ ~Heard
        /\ First' = First /\ Count' = Count /\ Closing' = Closing /\ Top' = Top
        /\ c' = c /\ info' = info /\ fifo' = fifo /\ dmode' = dmode /\ dleft' = dleft
        /\ dsta' = dsta /\ spoilt' = spoilt /\ image' = image /\ calls' = calls /\ busy' = None
        /\ ~Open
        /\ Opening <=> c.cmd \in {"CMD18", "CMD25"}
    BY AnsweredFacts
  <1>2. ~Heard' /\ (Opening' <=> Opening) /\ ~Open'
    BY <1>1 DEF Heard, Opening, Open
  <1>3. /\ card' \in CardRecord
        /\ card'.mem = card.mem
        /\ card'.wide = card.wide
        /\ c.cmd \in {"CMD18", "CMD25", "CMD12", "ACMD6"} => card' = card
        /\ card'.state = card.state \/ c.cmd \notin {"CMD13", "CMD55w"}
        /\ card.state \in Chosen => card'.state \in Chosen
    <2>1. CASE card' = card
      BY <2>1 DEF SdState, SdTypes
    <2>2. CASE Taken(busy) /\ card' = TakenCard(busy) /\ busy \notin {"CMD18", "CMD25", "CMD12", "ACMD6"}
      <3>1. card.state \in Takes[busy] /\ busy \in Command /\ card.state \in CardState
        BY <1>1, <2>2 DEF Taken, SdState, SdTypes, CardRecord
      <3>2. /\ busy \in {"CMD13", "CMD55w"} => NextState(busy, card.state) = card.state
            /\ card.state \in Chosen => NextState(busy, card.state) \in Chosen
        BY <3>1, CommandTable
      <3>3. card \in CardRecord /\ c \in Operation
        BY DEF SdState, SdTypes
      <3> QED BY <1>1, <2>2, <3>1, <3>2, <3>3, CardTakes
    <2> QED BY <2>1, <2>2
  <1>4. SdTypes'
    BY <1>1, <1>3 DEF SdState, SdTypes
  <1>5. InStep'
    BY <1>1, CommandNames DEF SdState, InStep, Commands
  <1>6. CardInStep'
    BY <1>1, <1>2, <1>3, CommandNames DEF SdState, InStep, CardInStep, Selected, Agreed, Closing
  <1>7. DataInStep'
    <2>1. CASE c.op \notin {"read", "write"}
      BY <1>1, <1>3, <2>1 DEF SdState, DataInStep, Clean
    <2>2. CASE c.op \in {"read", "write"}
      <3>1. card' = card
        BY <1>1, <1>3, <2>2 DEF SdState, InStep
      <3>2. (ReadInStep => ReadInStep') /\ (WriteInStep => WriteInStep')
        BY <1>1, <1>2, <3>1 DEF ReadInStep, WriteInStep, Clean, Right, Got
      <3> QED BY <1>1, <2>2, <3>1, <3>2, CommandNames DEF SdState, DataInStep
    <2> QED BY <2>1, <2>2
  <1> QED BY <1>4, <1>5, <1>6, <1>7 DEF SdState

LEMMA AnswerKeeps ==
    ASSUME SdState, Answer \/ NoAnswer \/ SpoiltAnswer, breach' = {}
    PROVE  SdState'
  <1>1. Answered /\ busy # None /\ csta = {}
    BY DEF Answer, NoAnswer, SpoiltAnswer, Answered, images, SdState, InStep
  <1>2. CASE Answer
    <2>1. csta' \in {{"rsp"}, {"sent"}, {"rsp", "crc"}}
      BY <1>1, <1>2 DEF Answer
    <2>2. \/ Taken(busy) /\ card' = TakenCard(busy)
          \/ busy \in {"ACMD41", "CMD0"} /\ card' = card
      BY <1>2 DEF Answer
    <2> QED BY <1>1, <2>1, <2>2, HeardKeeps
  <1>3. CASE NoAnswer
    <2>1. card' = card /\ csta' = {IF busy = "CMD0" THEN "sent" ELSE "timeout"}
      BY <1>1, <1>3 DEF NoAnswer
    <2> QED BY <1>1, <2>1, HeardKeeps, UnheardKeeps
  <1>4. CASE SpoiltAnswer
    <2>1. busy \notin {None, "CMD0"} /\ Taken(busy) /\ card' = TakenCard(busy)
      BY <1>4 DEF SpoiltAnswer
    <2>2. CASE csta' = csta \cup {"rsp", "crc"}
      BY <1>1, <2>1, <2>2, HeardKeeps
    <2>3. CASE csta' = csta \cup {"timeout"} /\ breach' = breach \cup Only("answer", busy \in {"CMD18", "CMD25", "CMD12", "ACMD6"})
      BY <1>1, <2>1, <2>3, UnheardKeeps DEF Only
    <2> QED BY <1>4, <2>2, <2>3 DEF SpoiltAnswer
  <1> QED BY <1>2, <1>3, <1>4

\* A word moves between controller and card only while a transfer is open.
LEMMA DataMoves ==
    ASSUME SdState
    PROVE  /\ dmode = "rx" /\ card.state = "data" => c.op = "read" /\ Open
           /\ dmode = "tx" /\ card.state = "rcv" => c.op = "write" /\ Open
  <1>1. c.op \in {None, "init", "read", "write"}
    BY DEF SdState, SdTypes, Operation
  <1>2. c.op \in {"read", "write"} => Opening \/ Open \/ Closing
    BY CommandNames DEF SdState, SdTypes, Operation, InStep, Opening, Open, Closing
  <1>3. c.op \in {"read", "write"} /\ Opening => card.state \in {"tran", "prg"}
    BY DEF SdState, CardInStep, Selected
  <1>4. c.op = "read" => (Opening \/ Open => dmode = "rx") /\ (Closing => dmode = "off")
    BY DEF SdState, DataInStep, ReadInStep
  <1>5. c.op = "write" => (Opening \/ Open => dmode = "tx") /\ (Closing => dmode = "off")
    BY CommandNames DEF SdState, DataInStep, WriteInStep, Opening, Open, Closing
  <1>6. c.op \in {None, "init"} => dmode = "off"
    BY DEF SdState, DataInStep
  <1> QED BY <1>1, <1>2, <1>3, <1>4, <1>5, <1>6

\* The words of the call, and where they lie
LEMMA CallWords ==
    ASSUME SdState
    PROVE  /\ First \in Nat /\ Count \in Nat /\ c.i \in Nat /\ c.p \in Nat /\ Top \in Nat /\ Word = 0 .. Top - 1
           /\ c.op \in {"read", "write"} => First + Count <= Top
           /\ card.mem \in [0 .. Top -> Int] /\ image \in [0 .. Top - 1 -> Int]
           /\ card.ptr \in Nat /\ fifo \in Seq(Int) /\ c.buf \in Seq(Int) /\ dleft \in Int
  BY SdConstants DEF First, Count, Top, SdState, SdTypes, CardRecord, Operation, DataInStep

\* The words of a read on their way, counted from the first
LEMMA WordsOnTheWay ==
    ASSUME SdState, c.op = "read", Open
    PROVE  /\ ReadInStep /\ dmode = "rx" /\ dleft \in Nat
           /\ First \in Nat /\ Count \in Nat /\ c.i \in Nat /\ Len(fifo) \in Nat
           /\ c.i + Len(fifo) = Count - dleft /\ card.ptr = First + Count - dleft
           /\ First + Count <= Top /\ c.i <= Count
           /\ (\A w \in Word : card.mem[w] = image[w])
  <1>1. ReadInStep /\ First + Count <= Top /\ (\A w \in Word : card.mem[w] = image[w])
    BY DEF SdState, DataInStep
  <1> QED BY <1>1, CallWords DEF ReadInStep

LEMMA ArrivesKeeps ==
    ASSUME SdState, NEW w \in Int, Arrives(w), dsta' = dsta,
           \/ spoilt' = spoilt /\ w = card.mem[card.ptr]
           \/ spoilt' = TRUE
    PROVE  SdState'
  <1>1. /\ c' = c /\ busy' = busy /\ csta' = csta /\ info' = info /\ dmode' = dmode
        /\ image' = image /\ calls' = calls
        /\ First' = First /\ Count' = Count /\ Top' = Top
        /\ (Open' <=> Open) /\ (Opening' <=> Opening) /\ (Closing' <=> Closing) /\ (Heard' <=> Heard)
    BY DEF Arrives, regs, images, First, Count, Top, Open, Opening, Closing, Heard
  <1>2. c.op = "read" /\ Open /\ ~Opening /\ ~Closing
    BY DataMoves, CommandNames DEF Arrives, Opening, Open, Closing
  <1>3. /\ fifo' = Append(fifo, w) /\ dleft' = dleft - 1 /\ dleft > 0
        /\ ~(spoilt /\ dleft % W = 0)
        /\ card' = [card EXCEPT !.ptr = @ + 1]
    BY DEF Arrives, BlockEnd
  <1>4. card \in CardRecord
    BY DEF SdState, SdTypes
  <1>5. /\ card' \in CardRecord
        /\ card'.ptr = card.ptr + 1 /\ card'.mem = card.mem /\ card'.state = card.state
        /\ card'.wide = card.wide
    <2> DEFINE M == [0 .. Blocks * W -> Int]
    <2>1. card \in [state : CardState, wide : BOOLEAN, ptr : Nat, mem : M, block : Seq(Int), deaf : BOOLEAN]
      BY <1>4 DEF CardRecord
    <2> HIDE DEF M
    <2>2. card' = [state |-> card.state, wide |-> card.wide, ptr |-> card.ptr + 1, mem |-> card.mem,
                   block |-> card.block, deaf |-> card.deaf]
      BY <1>3, <2>1
    <2>3. card' \in [state : CardState, wide : BOOLEAN, ptr : Nat, mem : M, block : Seq(Int), deaf : BOOLEAN]
      BY <2>1, <2>2
    <2> QED BY <2>2, <2>3 DEF M, CardRecord
  <1>6. SdTypes'
    <2>1. fifo' \in Seq(Int) /\ dleft' \in Int
      BY <1>3, CallWords
    <2>2. spoilt' \in BOOLEAN
      BY DEF SdState, SdTypes
    <2> QED BY <1>1, <1>5, <2>1, <2>2 DEF SdState, SdTypes
  <1>7. InStep'
    BY <1>1 DEF SdState, InStep
  <1>8. CardInStep'
    BY <1>1, <1>5 DEF SdState, CardInStep, Selected, Agreed
  <1>9. ReadInStep'
    <2>1. /\ ReadInStep /\ dmode = "rx" /\ dleft \in Nat
          /\ First \in Nat /\ Count \in Nat /\ c.i \in Nat /\ Len(fifo) \in Nat
          /\ c.i + Len(fifo) = Count - dleft /\ card.ptr = First + Count - dleft
      BY <1>2, WordsOnTheWay
    <2>2. /\ Len(fifo') = Len(fifo) + 1 /\ fifo'[Len(fifo) + 1] = w
          /\ \A j \in 1 .. Len(fifo) : fifo'[j] = fifo[j]
      BY <1>3, CallWords
    <2>3. ASSUME NEW q \in 1 .. Count - dleft PROVE Got(q)' = Got(q)
      <3>1. CASE q <= c.i
        BY <1>1, <3>1 DEF Got
      <3>2. CASE ~(q <= c.i)
        <4>1. q - c.i \in 1 .. Len(fifo)
          BY <2>1, <3>2
        <4>2. fifo'[q - c.i] = fifo[q - c.i]
          BY <2>2, <4>1
        <4> QED BY <1>1, <3>2, <4>2 DEF Got
      <3> QED BY <3>1, <3>2
    <2>4. ASSUME NEW m \in Int, m <= Count - dleft, Right(m)
          PROVE  \A q \in 1 .. m : Got(q)' = card'.mem[First' + q - 1]
      <3> TAKE q \in 1 .. m
      <3>1. q \in 1 .. Count - dleft /\ Got(q) = card.mem[First + q - 1]
        BY <2>1, <2>4 DEF Right
      <3> QED BY <1>1, <1>5, <2>3, <3>1
    <2>5. ASSUME Clean' PROVE Right(Count - dleft)'
      <3>1. Clean /\ w = card.mem[card.ptr]
        BY <2>4, <2>5 DEF Clean
      <3>2. \A q \in 1 .. Count - dleft : Got(q)' = card'.mem[First' + q - 1]
        BY <1>2, <2>1, <2>4, <3>1 DEF ReadInStep
      <3>3. ASSUME NEW q, q = Count - dleft + 1 PROVE Got(q)' = card'.mem[First' + q - 1]
        <4>1. ~(q <= c.i) /\ q - c.i = Len(fifo) + 1 /\ First + q - 1 = card.ptr
          BY <2>1, <3>3
        <4> QED BY <1>1, <1>5, <2>2, <3>1, <4>1 DEF Got
      <3>4. ASSUME NEW q \in 1 .. Count - dleft + 1 PROVE Got(q)' = card'.mem[First' + q - 1]
        <4>1. q \in 1 .. Count - dleft \/ q = Count - dleft + 1
          BY <2>1
        <4> QED BY <3>2, <3>3, <4>1
      <3>5. Count' - dleft' = Count - dleft + 1
        BY <1>1, <1>3, <2>1
      <3> QED BY <3>4, <3>5 DEF Right
    <2>6. ASSUME Right(Count - W), Count - W <= Count - dleft PROVE Right(Count - W)'
      BY <1>1, <2>1, <2>4, <2>6, SdConstants DEF Right
    <2>7. spoilt' /\ dsta' = {} /\ dleft' < W => Right(Count - W)'
      <3> SUFFICES ASSUME spoilt', dsta' = {}, dleft' < W PROVE Right(Count - W) /\ Count - W <= Count - dleft
        BY <2>6
      <3>1. dleft <= W
        BY <1>3, <2>1, SdConstants
      <3>2. CASE spoilt
        <4>1. dleft # W
          BY <1>3, <3>2, BlockLeft
        <4> QED BY <1>2, <2>1, <3>1, <3>2, <4>1, SdConstants DEF ReadInStep
      <3>3. CASE ~spoilt
        <4>1. Right(Count - dleft)
          BY <1>2, <2>1, <3>3 DEF ReadInStep, Clean
        <4> QED BY <2>1, <3>1, <4>1, SdConstants DEF Right
      <3>4. spoilt \in BOOLEAN
        BY DEF SdState, SdTypes
      <3> QED BY <3>2, <3>3, <3>4
    <2>8. dsta # {} /\ c.i > Count - W /\ (c.at = "take" \/ c.i = Count) => Right(Count - W)'
      <3>1. c.i > Count - W => Count - W <= Count - dleft
        BY <2>1, SdConstants
      <3> QED BY <1>2, <2>1, <2>6, <3>1 DEF ReadInStep
    <2>9. /\ dleft' >= 0 /\ card'.ptr = First' + Count' - dleft'
          /\ c'.i + Len(fifo') = Count' - dleft'
      <3>1. /\ dleft' = dleft - 1 /\ dleft > 0 /\ card'.ptr = card.ptr + 1 /\ Len(fifo') = Len(fifo) + 1
            /\ c' = c /\ First' = First /\ Count' = Count
        BY <1>1, <1>3, <1>5, <2>2
      <3> QED BY <2>1, <3>1
    <2>10. c.i <= Count /\ Len(c.buf) = c.i /\ (c.at = "take" => c.i < Count)
      BY <2>1 DEF ReadInStep
    <2> QED BY <1>1, <1>2, <2>1, <2>5, <2>7, <2>8, <2>9, <2>10 DEF ReadInStep
  <1>10. DataInStep'
    BY <1>1, <1>2, <1>5, <1>9, CommandNames DEF SdState, DataInStep
  <1> QED BY <1>6, <1>7, <1>8, <1>10 DEF SdState

LEMMA ReceiveKeeps ==
    ASSUME SdState, Receive \/ ReceiveBad
    PROVE  SdState'
  <1>1. CASE Receive
    <2>1. c.op = "read" /\ Open
      BY <1>1, DataMoves DEF Receive, Arrives
    <2>2. card.ptr \in 0 .. Top
      <3>1. dleft > 0
        BY <1>1 DEF Receive, Arrives
      <3> QED BY <2>1, <3>1, WordsOnTheWay, CallWords
    <2>3. card.mem[card.ptr] \in Int
      BY <2>2, CallWords
    <2>4. Arrives(card.mem[card.ptr]) /\ spoilt' = spoilt /\ dsta' = dsta
      BY <1>1 DEF Receive, Arrives
    <2> QED BY <2>3, <2>4, ArrivesKeeps
  <1>2. CASE ReceiveBad
    <2>1. Arrives(Bad) /\ spoilt' = TRUE /\ dsta' = dsta
      BY <1>2 DEF ReceiveBad, Arrives
    <2>2. Bad \in Int
      BY DEF Bad
    <2> QED BY <2>1, <2>2, ArrivesKeeps
  <1> QED BY <1>1, <1>2

\* The controller reports a block as bad before a word of the next has come.
LEMMA ReportKeeps ==
    ASSUME SdState, Report
    PROVE  SdState'
  <1>1. /\ c' = c /\ busy' = busy /\ csta' = csta /\ info' = info /\ dmode' = dmode
        /\ image' = image /\ calls' = calls /\ card' = card /\ fifo' = fifo /\ dleft' = dleft
        /\ First' = First /\ Count' = Count /\ Top' = Top
        /\ (Open' <=> Open) /\ (Opening' <=> Opening) /\ (Closing' <=> Closing) /\ (Heard' <=> Heard)
        /\ dmode = "rx" /\ spoilt /\ dsta' = dsta \cup {"bad"} /\ spoilt' = FALSE
    BY DEF Report, regs, ghosts, images, First, Count, Top, Open, Opening, Closing, Heard
  <1>2. c.op = "read" /\ Open /\ ~Opening /\ ~Closing
    <2>1. c.op = "read"
      <3>1. c.op \in {None, "init", "read", "write"}
        BY DEF SdState, SdTypes, Operation
      <3> QED BY <1>1, <3>1, CommandNames DEF SdState, DataInStep, WriteInStep, Clean
    <2>2. Opening \/ Open \/ Closing
      BY <2>1, CommandNames DEF SdState, SdTypes, Operation, InStep, Opening, Open, Closing
    <2>3. ~Opening /\ ~Closing
      BY <1>1, <2>1 DEF SdState, DataInStep, ReadInStep, Clean
    <2> QED BY <2>1, <2>2, <2>3
  <1>3. SdTypes'
    <2>1. dsta' \subseteq {"bad"} /\ spoilt' \in BOOLEAN
      BY <1>1 DEF SdState, SdTypes
    <2> QED BY <1>1, <2>1 DEF SdState, SdTypes
  <1>4. InStep'
    BY <1>1 DEF SdState, InStep
  <1>5. CardInStep'
    BY <1>1 DEF SdState, CardInStep, Selected, Agreed
  <1>6. ReadInStep'
    <2>1. /\ ReadInStep /\ dleft \in Nat
          /\ Count \in Nat /\ c.i \in Nat /\ Len(fifo) \in Nat /\ c.i + Len(fifo) = Count - dleft
      BY <1>2, WordsOnTheWay
    <2>2. dsta # {} \/ dsta = {}
      OBVIOUS
    <2>3. c.i > Count - W /\ (c.at = "take" \/ c.i = Count) => Right(Count - W)
      <3>1. c.i > Count - W => dleft < W
        BY <2>1, SdConstants
      <3> QED BY <1>1, <1>2, <2>1, <2>2, <3>1 DEF ReadInStep
    <2>4. Right(Count - W) => Right(Count - W)'
      BY <1>1 DEF Right, Got
    <2>5. dsta' # {}
      BY <1>1
    <2> QED BY <1>1, <1>2, <2>1, <2>3, <2>4, <2>5 DEF ReadInStep, Clean
  <1>7. DataInStep'
    BY <1>1, <1>2, <1>6, CommandNames DEF SdState, DataInStep
  <1> QED BY <1>3, <1>4, <1>5, <1>7 DEF SdState

\* The card after it has been sent a word
LEMMA CardSent ==
    ASSUME card \in CardRecord, fifo \in Seq(Int), Send
    PROVE  /\ card' \in CardRecord
           /\ card'.state = card.state /\ card'.wide = card.wide /\ card'.deaf = card.deaf
  <1> DEFINE M == [0 .. Blocks * W -> Int]
             m == [w \in DOMAIN card.mem |-> IF w - card.ptr \in 0 .. W - 1
                                             THEN Block[w - card.ptr + 1] ELSE card.mem[w]]
             CR == [state : CardState, wide : BOOLEAN, ptr : Nat, mem : M, block : Seq(Int), deaf : BOOLEAN]
             Keeps(d) == d.state = card.state /\ d.wide = card.wide /\ d.deaf = card.deaf
  <1>1. card \in CR
    BY DEF CardRecord
  <1>2. fifo # <<>> /\ Head(fifo) \in Int /\ Block \in Seq(Int) /\ Len(Block) = Len(card.block) + 1
    <2>1. fifo # <<>>
      BY DEF Send, Sends
    <2>2. Head(fifo) \in Int /\ card.block \in Seq(Int)
      BY <1>1, <2>1
    <2> QED BY <2>1, <2>2 DEF Block
  <1>3. ~(Len(Block) < W) => m \in M
    <2> SUFFICES ASSUME ~(Len(Block) < W), NEW w \in 0 .. Blocks * W
                 PROVE  (IF w - card.ptr \in 0 .. W - 1 THEN Block[w - card.ptr + 1] ELSE card.mem[w]) \in Int
      BY <1>1
    <2>1. CASE w - card.ptr \in 0 .. W - 1
      <3>1. w \in Int /\ card.ptr \in Int
        BY <1>1, SdConstants
      <3>2. w - card.ptr + 1 \in 1 .. Len(Block)
        <4>1. Len(Block) \in Nat /\ ~(Len(Block) < W)
          BY <1>2
        <4> HIDE DEF Block
        <4> QED BY <2>1, <3>1, <4>1, SdConstants
      <3> QED BY <1>2, <2>1, <3>2
    <2>2. CASE w - card.ptr \notin 0 .. W - 1
      BY <1>1, <2>2
    <2> QED BY <2>1, <2>2
  <1>4. Stored = [card EXCEPT !.block = <<>>, !.ptr = card.ptr + W, !.mem = m]
    BY <1>1 DEF Stored
  <1> HIDE DEF M, m
  <1>5. <<>> \in Seq(Int) /\ card.ptr + W \in Nat
    BY <1>1, SdConstants
  <1>6. card' = IF Len(Block) < W THEN [card EXCEPT !.block = Block]
                ELSE IF card.deaf THEN [card EXCEPT !.block = <<>>] ELSE Stored
    BY DEF Send, Sends
  <1>7. CASE card' = [card EXCEPT !.block = Block]
    BY <1>1, <1>2, <1>7 DEF M, CardRecord
  <1>8. CASE card' = [card EXCEPT !.block = <<>>]
    BY <1>1, <1>5, <1>8 DEF M, CardRecord
  <1>9. CASE card' = Stored /\ ~(Len(Block) < W)
    <2>1. Stored = [state |-> card.state, wide |-> card.wide, ptr |-> card.ptr + W, mem |-> m,
                    block |-> <<>>, deaf |-> card.deaf]
      BY <1>1, <1>4
    <2>2. card.state \in CardState /\ card.wide \in BOOLEAN /\ card.deaf \in BOOLEAN
      BY <1>1
    <2> HIDE DEF CR
    <2>3. Keeps(Stored)
      BY <2>1
    <2>4. Stored \in CR
      BY <1>3, <1>5, <1>9, <2>1, <2>2 DEF CR
    <2> QED BY <1>9, <2>3, <2>4 DEF CR, M, CardRecord
  <1> QED BY <1>6, <1>7, <1>8, <1>9

LEMMA SendKeeps ==
    ASSUME SdState, Send
    PROVE  SdState'
  <1>1. /\ c' = c /\ busy' = busy /\ csta' = csta /\ info' = info /\ dmode' = dmode /\ dsta' = dsta
        /\ image' = image /\ calls' = calls /\ spoilt' = spoilt
        /\ First' = First /\ Count' = Count /\ Top' = Top
        /\ (Open' <=> Open) /\ (Opening' <=> Opening) /\ (Closing' <=> Closing) /\ (Heard' <=> Heard)
        /\ fifo # <<>> /\ fifo' = Tail(fifo) /\ dleft' = dleft - 1
    BY DEF Send, Sends, regs, ghosts, images, First, Count, Top, Open, Opening, Closing, Heard
  <1>2. c.op = "write" /\ Open /\ ~Opening /\ ~Closing
    BY DataMoves, CommandNames DEF Send, Sends, Opening, Open, Closing
  <1>3. card' \in CardRecord /\ card'.state = card.state /\ card'.wide = card.wide /\ card'.deaf = card.deaf
    BY CardSent DEF SdState, SdTypes
  <1>4. SdTypes'
    <2>1. fifo' \in Seq(Int) /\ dleft' \in Int
      BY <1>1, CallWords
    <2> QED BY <1>1, <1>3, <2>1 DEF SdState, SdTypes
  <1>5. InStep'
    BY <1>1 DEF SdState, InStep
  <1>6. CardInStep'
    BY <1>1, <1>3 DEF SdState, CardInStep, Selected, Agreed
  <1>7. DataInStep'
    BY <1>1, <1>2, <1>3, CommandNames DEF SdState, DataInStep, WriteInStep, Clean
  <1> QED BY <1>4, <1>5, <1>6, <1>7 DEF SdState

LEMMA ProgramKeeps ==
    ASSUME SdState, Program
    PROVE  SdState'
  <1>1. /\ c' = c /\ busy' = busy /\ csta' = csta /\ info' = info /\ dmode' = dmode /\ dsta' = dsta
        /\ image' = image /\ calls' = calls /\ fifo' = fifo /\ dleft' = dleft /\ spoilt' = spoilt
        /\ First' = First /\ Count' = Count /\ Top' = Top
        /\ (Open' <=> Open) /\ (Opening' <=> Opening) /\ (Closing' <=> Closing) /\ (Heard' <=> Heard)
    BY DEF Program, regs, ghosts, images, data, First, Count, Top, Open, Opening, Closing, Heard
  <1>2. card \in CardRecord
    BY DEF SdState, SdTypes
  <1>3. /\ card' \in CardRecord
        /\ card'.mem = card.mem /\ card'.ptr = card.ptr /\ card'.wide = card.wide
        /\ card'.deaf = card.deaf /\ card.state = "prg" /\ card'.state = "tran"
    BY <1>2 DEF Program, CardState, CardRecord
  <1>4. SdTypes'
    BY <1>1, <1>3 DEF SdState, SdTypes
  <1>5. InStep'
    BY <1>1 DEF SdState, InStep
  <1>6. CardInStep'
    BY <1>1, <1>3 DEF SdState, CardInStep, Selected, Agreed, Chosen
  <1>7. DataInStep'
    <2>1. (ReadInStep => ReadInStep') /\ (WriteInStep => WriteInStep')
      BY <1>1, <1>3 DEF ReadInStep, WriteInStep, Clean, Right, Got
    <2> QED BY <1>1, <1>3, <2>1 DEF SdState, DataInStep, Clean
  <1> QED BY <1>4, <1>5, <1>6, <1>7 DEF SdState

-----------------------------------------------------------------------------
(* The caller                                                              *)

LEMMA IssueKeeps ==
    ASSUME SdState, Issue
    PROVE  SdState'
  <1>1. /\ c.at = "issue" /\ c' = [c EXCEPT !.at = "wait"] /\ busy' = c.cmd
        /\ card' = card /\ csta' = csta /\ fifo' = fifo /\ dmode' = dmode /\ dleft' = dleft
        /\ dsta' = dsta /\ spoilt' = spoilt /\ info' = info /\ image' = image /\ calls' = calls
    BY DEF Issue, data, ghosts, images
  <1>2. c \in Operation
    BY DEF SdState, SdTypes
  <1>3. /\ c' \in Operation /\ c'.at = "wait" /\ c'.cmd = c.cmd /\ c'.op = c.op
        /\ c'.addr = c.addr /\ c'.n = c.n /\ c'.i = c.i /\ c'.p = c.p /\ c'.buf = c.buf
    BY <1>1, <1>2 DEF Operation
  <1>4. c.op \in {"init", "read", "write"} /\ c.cmd \in Command /\ c.cmd # None
    BY <1>1, <1>2, CommandNames DEF SdState, InStep, Operation, Commands
  <1>5. /\ First' = First /\ Count' = Count /\ Top' = Top
        /\ ~Heard /\ ~Heard' /\ (Opening' <=> Opening) /\ ~Open /\ ~Open' /\ (Closing' <=> Closing)
    BY <1>1, <1>3, <1>4 DEF First, Count, Top, Heard, Opening, Open, Closing
  <1>6. SdTypes'
    BY <1>1, <1>3, <1>4 DEF SdState, SdTypes
  <1>7. InStep'
    BY <1>1, <1>3, <1>4, CommandNames DEF SdState, InStep
  <1>8. CardInStep'
    BY <1>1, <1>3, <1>4, <1>5 DEF SdState, CardInStep, Selected, Agreed
  <1>9. DataInStep'
    <2>1. (ReadInStep => ReadInStep') /\ (WriteInStep => WriteInStep')
      BY <1>1, <1>3, <1>5 DEF ReadInStep, WriteInStep, Clean, Right, Got
    <2> QED BY <1>1, <1>3, <1>4, <1>5, <2>1 DEF SdState, DataInStep, Clean
  <1> QED BY <1>6, <1>7, <1>8, <1>9 DEF SdState

\* What sdi_init sends next
LEMMA NextCommandIs ==
    ASSUME c \in Operation, c.cmd \in Command \ {"CMD18", "CMD25", "CMD12"}
    PROVE  \/ NextCommand = Idle
           \/ \E k \in Command \ {"CMD0", "CMD18", "CMD25", "CMD12"}, t \in Nat :
                /\ NextCommand = [c EXCEPT !.at = "issue", !.cmd = k, !.tries = t]
                /\ c.cmd # "ACMD6"
                /\ k = "CMD13" => c.cmd \in {"CMD7", "CMD13"}
                /\ k = "CMD13" /\ c.cmd = "CMD7" => Succeeded
                /\ k = "CMD55w" => c.cmd = "CMD13"
                /\ k = "ACMD6" => c.cmd = "CMD55w"
  <1> DEFINE Goes(k, t) == /\ NextCommand = [c EXCEPT !.at = "issue", !.cmd = k, !.tries = t]
                           /\ c.cmd # "ACMD6"
                           /\ k = "CMD13" => c.cmd \in {"CMD7", "CMD13"}
                           /\ k = "CMD13" /\ c.cmd = "CMD7" => Succeeded
                           /\ k = "CMD55w" => c.cmd = "CMD13"
                           /\ k = "ACMD6" => c.cmd = "CMD55w"
             Known == Command \ {"CMD0", "CMD18", "CMD25", "CMD12"}
  <1>1. c.tries \in Nat /\ c.cmd \in Commands \ {"CMD18", "CMD25", "CMD12"}
    BY CommandNames DEF Operation
  <1>2. Known = Commands \ {"CMD0", "CMD18", "CMD25", "CMD12"}
    BY CommandNames
  <1>3. ASSUME NEW k \in Known, NEW t \in Nat, Goes(k, t)
        PROVE  NextCommand = Idle \/ \E x \in Known, y \in Nat : Goes(x, y)
    BY <1>3
  <1>4. ASSUME NEW k
        PROVE  /\ Issuing(c, k) = [c EXCEPT !.at = "issue", !.cmd = k, !.tries = c.tries]
               /\ TryAgain(k) = [c EXCEPT !.at = "issue", !.cmd = k, !.tries = c.tries + 1]
               /\ Issuing([c EXCEPT !.tries = 0], k) = [c EXCEPT !.at = "issue", !.cmd = k, !.tries = 0]
    BY DEF Issuing, TryAgain, Operation
  <1>5. CASE c.cmd \in DOMAIN Then /\ Passed
    <2>0. c.cmd \in {"CMD0", "CMD55", "ACMD41", "CMD2", "CMD3", "CMD9", "CMD7", "CMD13", "CMD55w"}
      BY <1>5 DEF Then
    <2>1. Then[c.cmd] \in Known /\ c.cmd # "ACMD6" /\ Succeeded
      BY <1>2, <1>5, <2>0 DEF Then, Commands, Passed
    <2>2. NextCommand = Issuing(c, Then[c.cmd])
      BY <1>5, <2>0 DEF NextCommand
    <2>3. NextCommand = [c EXCEPT !.at = "issue", !.cmd = Then[c.cmd], !.tries = c.tries]
      BY <1>4, <2>1, <2>2
    <2>4. Goes(Then[c.cmd], c.tries)
      BY <1>1, <1>5, <2>1, <2>3 DEF Then, Commands
    <2> QED BY <1>1, <1>3, <2>1, <2>4
  <1>6. CASE ~(c.cmd \in DOMAIN Then /\ Passed)
    <2>1. CASE c.cmd = "CMD1" /\ c.tries + 1 < MmcTries
      <3>1. NextCommand = TryAgain("CMD1")
        BY <1>1, <1>6, <2>1 DEF NextCommand
      <3>2. Goes("CMD1", c.tries + 1)
        BY <1>4, <2>1, <3>1
      <3>3. "CMD1" \in Known /\ c.tries + 1 \in Nat
        BY <1>1, <1>2 DEF Commands
      <3> QED BY <1>3, <3>2, <3>3
    <2>2. CASE c.cmd = "CMD1" /\ c.tries + 1 = MmcTries
      <3>1. NextCommand = Issuing([c EXCEPT !.tries = 0], "CMD55")
        BY <1>1, <1>6, <2>2 DEF NextCommand
      <3>2. Goes("CMD55", 0)
        BY <1>4, <2>2, <3>1
      <3>3. "CMD55" \in Known /\ 0 \in Nat
        BY <1>2 DEF Commands
      <3> QED BY <1>3, <3>2, <3>3
    <2>3. CASE c.cmd \in {"CMD55", "ACMD41"} /\ ~Passed /\ c.tries + 1 < SdTries
      <3>1. NextCommand = TryAgain("CMD55")
        BY <1>6, <2>3 DEF NextCommand
      <3>2. Goes("CMD55", c.tries + 1)
        BY <1>4, <2>3, <3>1
      <3>3. "CMD55" \in Known /\ c.tries + 1 \in Nat
        BY <1>1, <1>2 DEF Commands
      <3> QED BY <1>3, <3>2, <3>3
    <2>4. CASE c.cmd = "CMD13" /\ ~Passed
      <3>1. NextCommand = Issuing(c, "CMD13")
        BY <1>6, <2>4 DEF NextCommand
      <3>2. Goes("CMD13", c.tries)
        BY <1>4, <2>4, <3>1
      <3>3. "CMD13" \in Known
        BY <1>2 DEF Commands
      <3> QED BY <1>1, <1>3, <3>2, <3>3
    <2>5. CASE /\ ~(c.cmd = "CMD1" /\ c.tries + 1 < MmcTries)
               /\ ~(c.cmd = "CMD1" /\ c.tries + 1 = MmcTries)
               /\ ~(c.cmd \in {"CMD55", "ACMD41"} /\ ~Passed /\ c.tries + 1 < SdTries)
               /\ ~(c.cmd = "CMD13" /\ ~Passed)
      BY <1>6, <2>5 DEF NextCommand
    <2> QED BY <2>1, <2>2, <2>3, <2>4, <2>5
  <1> QED BY <1>5, <1>6

LEMMA InitCommandKeeps ==
    ASSUME SdState, InitCommand
    PROVE  SdState'
  <1>1. /\ c.at = "wait" /\ c.cmd \in Command \ {"CMD18", "CMD25", "CMD12"} /\ csta # {} /\ csta' = {}
        /\ busy' = busy /\ c' = NextCommand
        /\ card' = card /\ fifo' = fifo /\ dmode' = dmode /\ dleft' = dleft
        /\ dsta' = dsta /\ spoilt' = spoilt /\ image' = image /\ calls' = calls
    BY DEF InitCommand, Ended, data, ghosts, images
  <1>2. c \in Operation /\ c.op = "init" /\ busy = None /\ (Heard <=> Succeeded)
        /\ (c.cmd = "CMD0" => Heard)
    BY <1>1 DEF SdState, SdTypes, InStep, Operation, Heard, Succeeded
  <1>3. /\ card.wide => card.state \in Chosen
        /\ c.cmd \in {"CMD13", "CMD55w", "ACMD6"} \/ (c.cmd = "CMD7" /\ Heard) =>
              card.state = "tran" /\ info.rca = "right" /\ card.wide = (c.cmd = "ACMD6" /\ Heard)
    BY <1>2 DEF SdState, CardInStep
  <1>4. /\ info' \in [up : BOOLEAN, rca : {"right", "wrong"}, wide : BOOLEAN]
        /\ info'.up = (c' = Idle /\ c.cmd \in {"CMD55w", "ACMD6"})
        /\ c.cmd # "CMD3" => info'.rca = info.rca
        /\ info'.up => info'.wide = (c.cmd = "ACMD6" /\ Succeeded)
    BY DEF InitCommand, SdState, SdTypes
  <1>5. /\ dmode = "off" /\ Clean
        /\ \A w \in Word : card.mem[w] = image[w]
    BY <1>2, CommandNames DEF SdState, DataInStep
  <1>6. Word' = Word /\ Closing' = (c'.cmd = "CMD12")
    BY DEF Word, Closing
  <1>7. CASE c' = Idle
    <2>1. c' \in Operation /\ c'.at = "idle" /\ c'.op = None /\ c'.cmd = None /\ Idle' = Idle
      BY <1>7 DEF Idle, Operation
    <2>2. SdTypes'
      BY <1>1, <1>4, <2>1 DEF SdState, SdTypes
    <2>3. InStep'
      BY <1>1, <1>2, <1>7, <2>1, CommandNames DEF InStep, Commands
    <2>4. CardInStep'
      BY <1>1, <1>2, <1>3, <1>4, <2>1, CommandNames DEF CardInStep, Selected, Agreed
    <2>5. DataInStep'
      BY <1>1, <1>5, <2>1, CommandNames DEF DataInStep, Clean
    <2> QED BY <2>2, <2>3, <2>4, <2>5 DEF SdState
  <1>8. CASE c' # Idle
    <2>1. PICK k \in Command \ {"CMD0", "CMD18", "CMD25", "CMD12"}, t \in Nat :
            /\ NextCommand = [c EXCEPT !.at = "issue", !.cmd = k, !.tries = t]
            /\ c.cmd # "ACMD6"
            /\ k = "CMD13" => c.cmd \in {"CMD7", "CMD13"}
            /\ k = "CMD13" /\ c.cmd = "CMD7" => Succeeded
            /\ k = "CMD55w" => c.cmd = "CMD13"
            /\ k = "ACMD6" => c.cmd = "CMD55w"
      BY <1>1, <1>2, <1>8, NextCommandIs
    <2>2. c' \in Operation /\ c'.at = "issue" /\ c'.op = "init" /\ c'.cmd = k /\ ~Heard'
      BY <1>1, <1>2, <2>1 DEF Operation, Heard
    <2>3. SdTypes'
      BY <1>1, <1>4, <2>2 DEF SdState, SdTypes
    <2>4. InStep'
      BY <1>1, <1>2, <2>2, CommandNames DEF InStep, Commands
    <2>5. CardInStep'
      BY <1>1, <1>2, <1>3, <1>4, <1>8, <2>1, <2>2, CommandNames DEF CardInStep
    <2>6. DataInStep'
      BY <1>1, <1>5, <2>2, CommandNames DEF DataInStep, Clean
    <2> QED BY <2>3, <2>4, <2>5, <2>6 DEF SdState
  <1> QED BY <1>7, <1>8

LEMMA OpenedKeeps ==
    ASSUME SdState, Opened
    PROVE  SdState'
  <1>1. /\ c.at = "wait" /\ c.cmd \in {"CMD18", "CMD25"} /\ csta # {} /\ csta' = {}
        /\ busy' = busy /\ card' = card /\ fifo' = fifo /\ dmode' = dmode /\ dleft' = dleft
        /\ dsta' = dsta /\ spoilt' = spoilt /\ info' = info /\ image' = image /\ calls' = calls
    BY DEF Opened, Ended, data, ghosts, images
  <1>2. c \in Operation /\ busy = None /\ (Heard <=> Succeeded)
    BY <1>1 DEF SdState, SdTypes, InStep, Heard, Succeeded
  <1>3. c' = IF Succeeded THEN [c EXCEPT !.at = "words"] ELSE [c EXCEPT !.at = "issue", !.cmd = c.cmd]
    BY DEF Opened, Issuing
  <1>4. /\ c' \in Operation /\ c'.at = (IF Succeeded THEN "words" ELSE "issue") /\ c'.cmd = c.cmd
        /\ c'.op = c.op /\ c'.addr = c.addr /\ c'.n = c.n /\ c'.i = c.i /\ c'.p = c.p /\ c'.buf = c.buf
    BY <1>2, <1>3 DEF Operation
  <1>5. c.op \in {"read", "write"}
    BY <1>1, <1>2, CommandNames DEF SdState, InStep, Operation
  <1>6. /\ First' = First /\ Count' = Count /\ Top' = Top
        /\ (Opening' <=> Opening) /\ (Open' <=> Open) /\ ~Closing' /\ ~Closing
    BY <1>1, <1>2, <1>4 DEF First, Count, Top, Heard, Opening, Open, Closing
  <1>7. SdTypes'
    BY <1>1, <1>4 DEF SdState, SdTypes
  <1>8. InStep'
    BY <1>1, <1>2, <1>4, <1>5, CommandNames DEF SdState, InStep
  <1>9. CardInStep'
    BY <1>1, <1>4, <1>5, <1>6, CommandNames DEF SdState, CardInStep, Selected, Agreed
  <1>10. DataInStep'
    <2>1. (ReadInStep => ReadInStep') /\ (WriteInStep => WriteInStep')
      BY <1>1, <1>4, <1>6 DEF ReadInStep, WriteInStep, Clean, Right, Got
    <2> QED BY <1>1, <1>4, <1>5, <1>6, <2>1, CommandNames DEF SdState, DataInStep, Clean
  <1> QED BY <1>7, <1>8, <1>9, <1>10 DEF SdState

LEMMA ClosedKeeps ==
    ASSUME SdState, Closed
    PROVE  SdState'
  <1>1. /\ c.at = "wait" /\ c.cmd = "CMD12" /\ csta # {} /\ csta' = {}
        /\ busy' = busy /\ card' = card /\ fifo' = fifo /\ dmode' = dmode /\ dleft' = dleft
        /\ (dsta' = dsta \/ dsta' = {}) /\ spoilt' = spoilt
        /\ info' = info /\ image' = image /\ calls' = calls
    BY DEF Closed, Ended, ghosts, images
  <1>2. c \in Operation /\ busy = None /\ (Heard <=> Succeeded)
    BY <1>1 DEF SdState, SdTypes, InStep, Heard, Succeeded
  <1>3. c.op \in {"read", "write"} /\ Closing /\ ~Opening /\ ~Open
    BY <1>1, <1>2, CommandNames DEF SdState, InStep, Operation, Closing, Opening, Open
  <1>4. /\ dmode = "off" /\ Clean /\ Clean' /\ dsta' = dsta /\ info.up /\ Agreed
        /\ \A w \in Word : card.mem[w] = image[w]
    BY <1>1, <1>3 DEF Clean, SdState, CardInStep, DataInStep, ReadInStep, WriteInStep
  <1>5. Word' = Word
    BY DEF Word
  <1>6. CASE Succeeded
    <2>1. c' = Idle /\ Idle' = Idle
      BY <1>6 DEF Closed, Idle
    <2>2. c' \in Operation /\ c'.at = "idle" /\ c'.op = None /\ c'.cmd = None
      BY <2>1 DEF Idle, Operation
    <2>3. SdTypes'
      BY <1>1, <1>4, <2>2 DEF SdState, SdTypes
    <2>4. InStep'
      BY <1>1, <1>2, <2>1, <2>2, CommandNames DEF InStep, Commands
    <2>5. Selected
      BY <1>2, <1>3, <1>6 DEF SdState, CardInStep
    <2>6. CardInStep'
      BY <1>1, <1>4, <2>2, <2>5, CommandNames DEF CardInStep, Selected, Agreed, Chosen, Chosen
    <2>7. DataInStep'
      BY <1>1, <1>4, <1>5, <2>2, CommandNames DEF DataInStep
    <2> QED BY <2>3, <2>4, <2>6, <2>7 DEF SdState
  <1>7. CASE ~Succeeded
    <2>1. c' = [c EXCEPT !.at = "issue", !.cmd = "CMD12"]
      BY <1>7 DEF Closed, Issuing
    <2>2. /\ c' \in Operation /\ c'.at = "issue" /\ c'.cmd = "CMD12"
          /\ c'.op = c.op /\ c'.addr = c.addr /\ c'.n = c.n /\ c'.i = c.i /\ c'.p = c.p /\ c'.buf = c.buf
      BY <1>1, <1>2, <2>1 DEF Operation
    <2>3. /\ First' = First /\ Count' = Count /\ Top' = Top
          /\ ~Opening' /\ ~Open' /\ Closing' /\ ~Heard' /\ ~Heard
      BY <1>1, <1>2, <1>7, <2>2 DEF First, Count, Top, Heard, Opening, Open, Closing
    <2>4. SdTypes'
      BY <1>1, <1>4, <2>2 DEF SdState, SdTypes
    <2>5. InStep'
      BY <1>1, <1>2, <1>3, <2>2, CommandNames DEF SdState, InStep
    <2>6. CardInStep'
      BY <1>1, <1>3, <2>2, <2>3, CommandNames DEF SdState, CardInStep, Selected, Agreed
    <2>7. DataInStep'
      <3>1. ReadInStep => ReadInStep'
        BY <1>1, <1>3, <1>4, <2>2, <2>3 DEF ReadInStep, Right, Got
      <3>2. WriteInStep => WriteInStep'
        BY <1>1, <1>3, <1>4, <2>2, <2>3 DEF WriteInStep
      <3> QED BY <1>1, <1>3, <1>4, <1>5, <2>2, <2>3, <3>1, <3>2, CommandNames DEF SdState, DataInStep
    <2> QED BY <2>4, <2>5, <2>6, <2>7 DEF SdState
  <1> QED BY <1>6, <1>7

\* Between calls the data path is off, and memory and image agree.
LEMMA IdleFacts ==
    ASSUME SdState, c.at = "idle"
    PROVE  /\ c = Idle /\ busy = None /\ csta = {} /\ dmode = "off" /\ Clean /\ c.op = None
           /\ info.up => Selected /\ Agreed
           /\ \A w \in Word : card.mem[w] = image[w]
  <1>1. c = Idle /\ busy = None /\ csta = {}
    BY DEF SdState, InStep
  <1>2. c.op = None
    BY <1>1 DEF Idle
  <1> QED BY <1>1, <1>2, CommandNames DEF SdState, CardInStep, DataInStep

LEMMA SdiInitKeeps ==
    ASSUME SdState, SdiInit
    PROVE  SdState'
  <1>1. /\ c.at = "idle" /\ csta' = {} /\ dsta' = {} /\ fifo' = <<>>
        /\ c' = Issuing([Idle EXCEPT !.op = "init"], "CMD0")
        /\ info' = [info EXCEPT !.up = FALSE] /\ calls' = calls + 1
        /\ card' = card /\ busy' = busy /\ dmode' = dmode /\ dleft' = dleft
        /\ spoilt' = spoilt /\ image' = image
    BY DEF SdiInit, Begins, images
  <1>2. "CMD0" \in Command
    BY CommandNames DEF Commands
  <1>3. c' \in Operation /\ c'.at = "issue" /\ c'.cmd = "CMD0" /\ c'.op = "init"
    <2>1. c' = [at |-> "issue", cmd |-> "CMD0", op |-> "init", addr |-> 0, n |-> 0, i |-> 0, p |-> 0,
                buf |-> <<>>, tries |-> 0]
      BY <1>1 DEF Issuing, Idle
    <2> QED BY <1>2, <2>1 DEF Operation
  <1>4. info' \in [up : BOOLEAN, rca : {"right", "wrong"}, wide : BOOLEAN] /\ ~info'.up
    BY <1>1 DEF SdState, SdTypes
  <1>5. ~Heard' /\ ~Closing'
    BY <1>3 DEF Heard, Closing
  <1>6. /\ busy = None /\ dmode = "off" /\ Clean /\ (card.wide => card.state \in Chosen)
        /\ \A w \in Word : card.mem[w] = image[w]
    BY <1>1, IdleFacts DEF SdState, CardInStep
  <1>7. SdTypes'
    <2>1. fifo' \in Seq(Int) /\ dsta' \subseteq {"bad"} /\ calls' \in Nat
      BY <1>1 DEF SdState, SdTypes
    <2> QED BY <1>1, <1>3, <1>4, <2>1 DEF SdState, SdTypes
  <1>8. InStep'
    BY <1>1, <1>2, <1>3, <1>6, CommandNames DEF InStep, Commands
  <1>9. CardInStep'
    BY <1>1, <1>3, <1>4, <1>5, <1>6, CommandNames DEF CardInStep
  <1>10. Word' = Word
    BY DEF Word
  <1>11. DataInStep'
    BY <1>1, <1>3, <1>6, <1>10, CommandNames DEF DataInStep, Clean
  <1> QED BY <1>7, <1>8, <1>9, <1>11 DEF SdState

\* The words of a call lie on the card.
LEMMA WordsOnCard ==
    ASSUME NEW a \in Nat, NEW n \in Nat, a + n <= Blocks
    PROVE  a * W \in Nat /\ n * W \in Nat /\ a * W + n * W <= Blocks * W
  <1>1. PICK r \in Nat : Blocks = a + n + r
    <2>1. Blocks - (a + n) \in Nat /\ Blocks = a + n + (Blocks - (a + n))
      BY SdConstants
    <2> QED BY <2>1
  <1>2. r * W \in Nat /\ a * W \in Nat /\ n * W \in Nat
    BY SdConstants
  <1>3. Blocks * W = a * W + n * W + r * W
    BY <1>1, SdConstants
  <1> QED BY <1>2, <1>3

\* What both transfers begin with
LEMMA SetUpFacts ==
    ASSUME SdState, NEW a \in Nat, NEW n \in Nat, NEW op \in {"read", "write"}, NEW cmd \in {"CMD18", "CMD25"},
           NEW mode \in {"rx", "tx"}, SetUp(op, cmd, a, n, mode)
    PROVE  /\ c.at = "idle" /\ info.up /\ fifo' = <<>> /\ dmode' = mode /\ dleft' = n * W
           /\ card' = card /\ csta' = {} /\ busy' = None /\ Clean' /\ dsta' = {} /\ spoilt' = spoilt /\ info' = info
           /\ calls' \in Nat
           /\ c' \in Operation /\ c'.at = "issue" /\ c'.cmd = cmd /\ c'.op = op
           /\ c'.addr = a /\ c'.n = n /\ c'.i = 0 /\ c'.p = 0 /\ c'.buf = <<>>
           /\ First' = a * W /\ Count' = n * W /\ Top' = Top /\ First' + Count' <= Top
           /\ First' \in Nat /\ Count' \in Nat
           /\ Opening' /\ ~Open' /\ ~Closing' /\ ~Heard'
  <1>1. /\ c.at = "idle" /\ info.up /\ fifo' = <<>> /\ dmode' = mode /\ dleft' = n * W
        /\ c' = Issuing([Idle EXCEPT !.op = op, !.addr = a, !.n = n], cmd)
        /\ card' = card /\ csta' = csta /\ busy' = busy /\ dsta' = dsta /\ spoilt' = spoilt /\ info' = info
        /\ calls' = calls + 1 /\ a + n <= Blocks
    BY DEF SetUp, Begins, regs
  <1>2. csta = {} /\ busy = None /\ dsta = {} /\ ~spoilt /\ calls' \in Nat
    BY <1>1, IdleFacts DEF SdState, SdTypes, Clean
  <1>3. cmd \in Command
    BY CommandNames DEF Commands
  <1>4. /\ c' \in Operation /\ c'.at = "issue" /\ c'.cmd = cmd /\ c'.op = op
        /\ c'.addr = a /\ c'.n = n /\ c'.i = 0 /\ c'.p = 0 /\ c'.buf = <<>>
    <2>1. c' = [at |-> "issue", cmd |-> cmd, op |-> op, addr |-> a, n |-> n, i |-> 0, p |-> 0,
                buf |-> <<>>, tries |-> 0]
      BY <1>1 DEF Issuing, Idle
    <2> QED BY <1>3, <2>1 DEF Operation
  <1>5. /\ First' = a * W /\ Count' = n * W /\ Top' = Top /\ First' + Count' <= Top
        /\ First' \in Nat /\ Count' \in Nat
    BY <1>1, <1>4, WordsOnCard DEF First, Count, Top
  <1>6. Opening' /\ ~Open' /\ ~Closing' /\ ~Heard'
    BY <1>4 DEF Opening, Open, Closing, Heard
  <1> QED BY <1>1, <1>2, <1>4, <1>5, <1>6 DEF Clean

LEMMA ReadStartKeeps ==
    ASSUME SdState, NEW a \in Nat, NEW n \in Nat, ReadStart(a, n)
    PROVE  SdState'
  <1>1. SetUp("read", "CMD18", a, n, "rx") /\ image' = image
    BY DEF ReadStart, images
  <1>2. /\ c.at = "idle" /\ info.up /\ fifo' = <<>> /\ dmode' = "rx" /\ dleft' = n * W
        /\ card' = card /\ csta' = {} /\ busy' = None /\ Clean' /\ dsta' = {} /\ spoilt' = spoilt /\ info' = info
        /\ calls' \in Nat
        /\ c' \in Operation /\ c'.at = "issue" /\ c'.cmd = "CMD18" /\ c'.op = "read"
        /\ c'.addr = a /\ c'.n = n /\ c'.i = 0 /\ c'.p = 0 /\ c'.buf = <<>>
        /\ First' = a * W /\ Count' = n * W /\ Top' = Top /\ First' + Count' <= Top
        /\ First' \in Nat /\ Count' \in Nat
        /\ Opening' /\ ~Open' /\ ~Closing' /\ ~Heard'
    BY <1>1, SetUpFacts
  <1>3. Selected /\ Agreed /\ (\A w \in Word : card.mem[w] = image[w]) /\ (card.wide => card.state \in Chosen)
    BY <1>2, IdleFacts DEF SdState, CardInStep
  <1>4. SdTypes'
    <2>1. fifo' \in Seq(Int) /\ dleft' \in Int /\ dsta' \subseteq {"bad"} /\ spoilt' \in BOOLEAN
      BY <1>2 DEF SdState, SdTypes
    <2> QED BY <1>1, <1>2, <2>1, CommandNames DEF SdState, SdTypes
  <1>5. InStep'
    BY <1>2, CommandNames DEF InStep
  <1>6. CardInStep'
    BY <1>2, <1>3, CommandNames DEF CardInStep, Selected, Agreed
  <1>7. ReadInStep'
    BY <1>2 DEF ReadInStep
  <1>8. Word' = Word
    BY DEF Word
  <1>9. DataInStep'
    BY <1>1, <1>2, <1>3, <1>7, <1>8, CommandNames DEF DataInStep
  <1> QED BY <1>4, <1>5, <1>6, <1>9 DEF SdState

\* What a write means the card to hold
LEMMA ImageIs ==
    ASSUME calls' \in Nat, image \in [Word -> Int], NEW a \in Nat, NEW n \in Nat, WriteStart(a, n)
    PROVE  image' \in [Word -> Int]
  <1>1. image' = [w \in Word |-> IF w - a * W \in 0 .. n * W - 1 THEN calls' * Blocks * W + w ELSE image[w]]
    BY DEF WriteStart
  <1> DEFINE base == calls' * Blocks * W
  <1>2. base \in Int /\ Word \subseteq Int
    <2>1. calls' * Blocks \in Int
      BY SdConstants
    <2> QED BY <2>1, SdConstants
  <1> HIDE DEF base
  <1>3. image' = [w \in Word |-> IF w - a * W \in 0 .. n * W - 1 THEN base + w ELSE image[w]]
    BY <1>1 DEF base
  <1>4. ASSUME NEW w \in Word
        PROVE  (IF w - a * W \in 0 .. n * W - 1 THEN base + w ELSE image[w]) \in Int
    BY <1>2
  <1> QED BY <1>3, <1>4

LEMMA WriteStartKeeps ==
    ASSUME SdState, NEW a \in Nat, NEW n \in Nat, WriteStart(a, n), breach' = {}
    PROVE  SdState'
  <1>1. SetUp("write", "CMD25", a, n, "tx") /\ card.wide /\ n * W < HalfWord
    <2>1. card.wide /\ ~(n * W >= HalfWord)
      BY DEF WriteStart, Only
    <2>2. n * W \in Nat
      BY SdConstants
    <2> QED BY <2>1, <2>2, SdConstants DEF WriteStart
  <1>2. /\ c.at = "idle" /\ info.up /\ fifo' = <<>> /\ dmode' = "tx" /\ dleft' = n * W
        /\ card' = card /\ csta' = {} /\ busy' = None /\ Clean' /\ dsta' = {} /\ spoilt' = spoilt /\ info' = info
        /\ calls' \in Nat
        /\ c' \in Operation /\ c'.at = "issue" /\ c'.cmd = "CMD25" /\ c'.op = "write"
        /\ c'.addr = a /\ c'.n = n /\ c'.i = 0 /\ c'.p = 0 /\ c'.buf = <<>>
        /\ First' = a * W /\ Count' = n * W /\ Top' = Top /\ First' + Count' <= Top
        /\ First' \in Nat /\ Count' \in Nat
        /\ Opening' /\ ~Open' /\ ~Closing' /\ ~Heard'
    BY <1>1, SetUpFacts
  <1>3. Selected /\ Agreed /\ (card.wide => card.state \in Chosen)
    BY <1>2, IdleFacts DEF SdState, CardInStep
  <1>4. SdTypes'
    <2>1. fifo' \in Seq(Int) /\ dleft' \in Int /\ dsta' \subseteq {"bad"} /\ spoilt' \in BOOLEAN
      BY <1>2 DEF SdState, SdTypes
    <2>2. image' \in [Word -> Int] /\ Word' = Word
      BY <1>2, ImageIs DEF SdState, SdTypes, Word
    <2> QED BY <1>2, <2>1, <2>2, CommandNames DEF SdState, SdTypes
  <1>5. InStep'
    BY <1>2, CommandNames DEF InStep
  <1>6. CardInStep'
    BY <1>2, <1>3, CommandNames DEF CardInStep, Selected, Agreed
  <1>7. WriteInStep'
    BY <1>1, <1>2 DEF WriteInStep
  <1>8. DataInStep'
    BY <1>2, <1>7, CommandNames DEF DataInStep
  <1> QED BY <1>4, <1>5, <1>6, <1>8 DEF SdState

\* A word is moved by the caller only while its transfer is open.
LEMMA WordsMove ==
    ASSUME SdState, c.at \in {"words", "take"}
    PROVE  /\ c \in Operation /\ busy = None /\ csta = {} /\ c.cmd \in {"CMD18", "CMD25"}
           /\ c.op \in {"read", "write"} /\ info.up /\ Agreed
           /\ ~Heard /\ ~Opening /\ Open /\ ~Closing
  <1>1. c \in Operation /\ busy = None /\ csta = {} /\ c.cmd \in {"CMD18", "CMD25"}
    BY DEF SdState, SdTypes, InStep
  <1>2. c.op \in {"read", "write"}
    BY <1>1, CommandNames DEF SdState, InStep, Operation
  <1>3. ~Heard /\ ~Opening /\ Open /\ ~Closing
    BY <1>1 DEF Heard, Opening, Open, Closing
  <1> QED BY <1>1, <1>2, <1>3 DEF SdState, CardInStep

LEMMA CheckStatusKeeps ==
    ASSUME SdState, CheckStatus
    PROVE  SdState'
  <1>1. /\ c.at = "words" /\ c.op = "read" /\ c.i < Count /\ "bad" \notin dsta
        /\ c' = [c EXCEPT !.at = "take"]
        /\ card' = card /\ csta' = csta /\ busy' = busy /\ dmode' = dmode /\ dleft' = dleft /\ fifo' = fifo
        /\ dsta' = dsta /\ spoilt' = spoilt /\ info' = info /\ image' = image /\ calls' = calls
    BY DEF CheckStatus, regs, data, ghosts, images, Count
  <1>2. /\ c \in Operation /\ busy = None /\ csta = {} /\ c.cmd \in {"CMD18", "CMD25"}
        /\ info.up /\ Agreed /\ ~Heard /\ ~Opening /\ Open /\ ~Closing
    BY <1>1, WordsMove
  <1>3. /\ c' \in Operation /\ c'.at = "take" /\ c'.cmd = c.cmd /\ c'.op = c.op
        /\ c'.addr = c.addr /\ c'.n = c.n /\ c'.i = c.i /\ c'.p = c.p /\ c'.buf = c.buf
    BY <1>1, <1>2 DEF Operation
  <1>4. /\ First' = First /\ Count' = Count /\ Top' = Top /\ ~Heard' /\ ~Opening' /\ Open' /\ ~Closing'
    BY <1>1, <1>2, <1>3 DEF First, Count, Top, Heard, Opening, Open, Closing
  <1>5. SdTypes'
    BY <1>1, <1>3 DEF SdState, SdTypes
  <1>6. InStep'
    BY <1>1, <1>2, <1>3, CommandNames DEF SdState, InStep
  <1>7. CardInStep'
    BY <1>1, <1>2, <1>3, <1>4, CommandNames DEF SdState, CardInStep, Agreed
  <1>8. ReadInStep'
    <2>1. ReadInStep /\ dsta = {}
      BY <1>1 DEF SdState, DataInStep, SdTypes
    <2> QED BY <1>1, <1>2, <1>3, <1>4, <2>1 DEF ReadInStep, Clean, Right, Got
  <1>9. DataInStep'
    BY <1>1, <1>2, <1>3, <1>4, <1>8, CommandNames DEF SdState, DataInStep
  <1> QED BY <1>5, <1>6, <1>7, <1>9 DEF SdState

\* The caller's operation after it has taken a word
LEMMA WordTaken ==
    ASSUME c \in Operation, fifo \in Seq(Int), fifo # <<>>, TakeWord
    PROVE  /\ c' \in Operation /\ c'.at = "words" /\ c'.cmd = c.cmd /\ c'.op = c.op
           /\ c'.addr = c.addr /\ c'.n = c.n /\ c'.i = c.i + 1 /\ c'.p = c.p
           /\ c'.buf = Append(c.buf, Head(fifo)) /\ fifo' = Tail(fifo)
  <1> DEFINE b == Append(c.buf, Head(fifo))
  <1>1. c' = [c EXCEPT !.at = "words", !.buf = b, !.i = c.i + 1] /\ fifo' = Tail(fifo)
    BY DEF TakeWord
  <1>2. b \in Seq(Int) /\ c.i + 1 \in Nat
    BY DEF Operation
  <1> HIDE DEF b
  <1>3. c' = [at |-> "words", cmd |-> c.cmd, op |-> c.op, addr |-> c.addr, n |-> c.n, i |-> c.i + 1,
              p |-> c.p, buf |-> b, tries |-> c.tries]
    BY <1>1 DEF Operation
  <1>4. c' \in Operation
    BY <1>2, <1>3 DEF Operation
  <1> QED BY <1>1, <1>3, <1>4 DEF b

LEMMA TakeWordKeeps ==
    ASSUME SdState, TakeWord
    PROVE  SdState'
  <1>1. /\ c.at = "take"
        /\ card' = card /\ csta' = csta /\ busy' = busy /\ dmode' = dmode /\ dleft' = dleft
        /\ dsta' = dsta /\ spoilt' = spoilt /\ info' = info /\ image' = image /\ calls' = calls
    BY DEF TakeWord, regs, ghosts, images
  <1>2. /\ c \in Operation /\ busy = None /\ csta = {} /\ c.cmd \in {"CMD18", "CMD25"}
        /\ info.up /\ Agreed /\ ~Heard /\ ~Opening /\ Open /\ ~Closing /\ c.op = "read"
    BY <1>1, WordsMove DEF SdState, InStep
  <1>3. /\ ReadInStep /\ dmode = "rx" /\ dleft \in Nat
        /\ First \in Nat /\ Count \in Nat /\ c.i \in Nat /\ Len(fifo) \in Nat
        /\ c.i + Len(fifo) = Count - dleft /\ card.ptr = First + Count - dleft
        /\ First + Count <= Top /\ c.i < Count
    BY <1>1, <1>2, WordsOnTheWay DEF ReadInStep
  <1>4. /\ c' \in Operation /\ c'.at = "words" /\ c'.cmd = c.cmd /\ c'.op = c.op
        /\ c'.addr = c.addr /\ c'.n = c.n /\ c'.p = c.p
        /\ fifo' \in Seq(Int) /\ c'.i \in c.i .. c.i + 1 /\ c'.i + Len(fifo') = c.i + Len(fifo)
        /\ Len(c'.buf) = c'.i
        /\ \A q \in 1 .. c.i + Len(fifo) :
              (IF q <= c'.i THEN c'.buf[q] ELSE fifo'[q - c'.i]) = (IF q <= c.i THEN c.buf[q] ELSE fifo[q - c.i])
    <2>1. CASE fifo = <<>>
      <3>1. c' = [c EXCEPT !.at = "words"] /\ fifo' = fifo
        BY <2>1 DEF TakeWord
      <3>2. /\ c' \in Operation /\ c'.at = "words" /\ c'.cmd = c.cmd /\ c'.op = c.op
            /\ c'.addr = c.addr /\ c'.n = c.n /\ c'.p = c.p /\ c'.i = c.i /\ c'.buf = c.buf
        BY <1>2, <3>1 DEF Operation
      <3> QED BY <1>3, <3>1, <3>2, CallWords DEF ReadInStep
    <2>2. CASE fifo # <<>>
      <3>1. c.buf \in Seq(Int) /\ fifo \in Seq(Int) /\ Len(c.buf) = c.i
        BY <1>3, CallWords DEF ReadInStep
      <3>2. /\ c' \in Operation /\ c'.at = "words" /\ c'.cmd = c.cmd /\ c'.op = c.op
            /\ c'.addr = c.addr /\ c'.n = c.n /\ c'.i = c.i + 1 /\ c'.p = c.p
            /\ c'.buf = Append(c.buf, Head(fifo)) /\ fifo' = Tail(fifo)
        BY <1>2, <2>2, <3>1, WordTaken
      <3>3. /\ Len(fifo) > 0 /\ Head(fifo) \in Int /\ Head(fifo) = fifo[1]
            /\ fifo' \in Seq(Int) /\ Len(fifo') = Len(fifo) - 1
            /\ \A j \in 1 .. Len(fifo') : fifo'[j] = fifo[j + 1]
        BY <2>2, <3>1, <3>2
      <3>4. /\ Len(c'.buf) = c.i + 1 /\ c'.buf[c.i + 1] = fifo[1]
            /\ \A k \in 1 .. c.i : c'.buf[k] = c.buf[k]
        BY <3>1, <3>2, <3>3
      <3>5. ASSUME NEW q \in 1 .. c.i + Len(fifo)
            PROVE  (IF q <= c'.i THEN c'.buf[q] ELSE fifo'[q - c'.i])
                 = (IF q <= c.i THEN c.buf[q] ELSE fifo[q - c.i])
        <4>1. CASE q <= c.i
          BY <1>3, <3>2, <3>4, <4>1
        <4>2. CASE q = c.i + 1
          <5>1. q - c.i = 1 /\ ~(q <= c.i) /\ q <= c'.i
            BY <1>3, <3>2, <4>2
          <5> QED BY <3>4, <4>2, <5>1
        <4>3. CASE q > c.i + 1
          <5>1. /\ ~(q <= c.i) /\ ~(q <= c'.i) /\ q - c'.i \in 1 .. Len(fifo')
                /\ (q - c'.i) + 1 = q - c.i
            <6>1. c'.i = c.i + 1 /\ Len(fifo') = Len(fifo) - 1 /\ c.i \in Nat /\ Len(fifo) \in Nat
              BY <1>3, <3>2, <3>3
            <6> QED BY <4>3, <6>1
          <5>2. fifo'[q - c'.i] = fifo[q - c.i]
            BY <3>3, <5>1
          <5> QED BY <5>1, <5>2
        <4> QED BY <1>3, <4>1, <4>2, <4>3
      <3>6. /\ fifo' \in Seq(Int) /\ c'.i \in c.i .. c.i + 1 /\ c'.i + Len(fifo') = c.i + Len(fifo)
            /\ Len(c'.buf) = c'.i
        <4>1. /\ c'.i = c.i + 1 /\ Len(fifo') = Len(fifo) - 1 /\ c.i \in Nat /\ Len(fifo) \in Nat
              /\ fifo' \in Seq(Int) /\ Len(c'.buf) = c.i + 1
          BY <1>3, <3>2, <3>3, <3>4
        <4> QED BY <4>1
      <3> QED BY <3>2, <3>5, <3>6
    <2> QED BY <2>1, <2>2
  <1>5. /\ First' = First /\ Count' = Count /\ Top' = Top /\ ~Heard' /\ ~Opening' /\ Open' /\ ~Closing'
    BY <1>1, <1>2, <1>4 DEF First, Count, Top, Heard, Opening, Open, Closing
  <1>6. SdTypes'
    BY <1>1, <1>4 DEF SdState, SdTypes
  <1>7. InStep'
    BY <1>1, <1>2, <1>4, CommandNames DEF SdState, InStep
  <1>8. CardInStep'
    BY <1>1, <1>2, <1>4, <1>5, CommandNames DEF SdState, CardInStep, Agreed
  <1>9. ReadInStep'
    <2>1. ASSUME NEW m \in Int, m <= Count - dleft, Right(m)
          PROVE  \A q \in 1 .. m : Got(q)' = card'.mem[First' + q - 1]
      <3> TAKE q \in 1 .. m
      <3>1. q \in 1 .. c.i + Len(fifo)
        BY <1>3, <2>1
      <3> QED BY <1>1, <1>4, <1>5, <2>1, <3>1 DEF Right, Got
    <2>2. Clean => Right(Count - dleft)'
      <3>1. Clean => Right(Count - dleft) /\ Count - dleft \in Int /\ Count - dleft <= Count - dleft
        BY <1>2, <1>3 DEF ReadInStep
      <3> QED BY <1>1, <1>5, <2>1, <3>1 DEF Right
    <2>3. Right(Count - W) /\ Count - W <= Count - dleft => Right(Count - W)'
      <3> SUFFICES ASSUME Right(Count - W), Count - W <= Count - dleft PROVE Right(Count - W)'
        OBVIOUS
      <3>1. Count - W \in Int /\ (Count - W)' = Count - W
        BY <1>3, <1>5, SdConstants
      <3>2. \A q \in 1 .. Count - W : Got(q)' = card'.mem[First' + q - 1]
        BY <2>1, <3>1
      <3> QED BY <3>1, <3>2 DEF Right
    <2>4. spoilt /\ dsta = {} /\ dleft < W => Right(Count - W)'
      BY <1>2, <1>3, <2>3, SdConstants DEF ReadInStep
    <2>5. dsta # {} /\ c'.i > Count - W /\ c'.i = Count => Right(Count - W)'
      <3> SUFFICES ASSUME dsta # {}, c'.i = Count PROVE Right(Count - W) /\ Count - W <= Count - dleft
        BY <2>3
      <3>1. c.i + 1 = Count
        BY <1>3, <1>4
      <3>2. c.i > Count - W /\ Count - W <= Count - dleft
        BY <1>3, <3>1, SdConstants
      <3> QED BY <1>1, <1>2, <1>3, <3>2 DEF ReadInStep
    <2>6. c'.i <= Count
      BY <1>3, <1>4
    <2> QED BY <1>1, <1>3, <1>4, <1>5, <2>2, <2>4, <2>5, <2>6 DEF ReadInStep, Clean
  <1>10. DataInStep'
    BY <1>1, <1>2, <1>4, <1>5, <1>9, CommandNames DEF SdState, DataInStep
  <1> QED BY <1>6, <1>7, <1>8, <1>10 DEF SdState

\* The caller's operation after it has written a word
LEMMA WordWritten ==
    ASSUME c \in Operation, WriteWord
    PROVE  /\ c' \in Operation /\ c'.at = c.at /\ c'.cmd = c.cmd /\ c'.op = c.op
           /\ c'.addr = c.addr /\ c'.n = c.n /\ c'.i = (c.i + 1) % HalfWord /\ c'.p = c.p + 1
           /\ c'.buf = c.buf
  <1> DEFINE x == (c.i + 1) % HalfWord
  <1>1. x \in Nat /\ c.p + 1 \in Nat
    <2>1. c.i \in Nat /\ c.p \in Nat
      BY Zenon DEF Operation
    <2>2. HalfWord \in Nat \ {0}
      BY SdAssumption
    <2>3. c.i + 1 \in Nat /\ c.p + 1 \in Nat
      BY <2>1
    <2> QED BY <2>2, <2>3
  <1>2. c' = [c EXCEPT !.i = x, !.p = c.p + 1]
    BY DEF WriteWord
  <1> HIDE DEF x
  <1>3. c' = [at |-> c.at, cmd |-> c.cmd, op |-> c.op, addr |-> c.addr, n |-> c.n, i |-> x,
              p |-> c.p + 1, buf |-> c.buf, tries |-> c.tries]
    BY <1>2 DEF Operation
  <1>4. c' \in Operation
    BY <1>1, <1>3 DEF Operation
  <1> QED BY <1>3, <1>4 DEF x

LEMMA WriteWordKeeps ==
    ASSUME SdState, WriteWord
    PROVE  SdState'
  <1>1. /\ c.at = "words" /\ c.op = "write" /\ c.i < Count
        /\ fifo' = Append(fifo, Meant(c.p))
        /\ card' = card /\ csta' = csta /\ busy' = busy /\ dmode' = dmode /\ dleft' = dleft
        /\ dsta' = dsta /\ spoilt' = spoilt /\ info' = info /\ image' = image /\ calls' = calls
    BY DEF WriteWord, regs, ghosts, images, Count
  <1>2. /\ c \in Operation /\ busy = None /\ csta = {} /\ c.cmd \in {"CMD18", "CMD25"}
        /\ info.up /\ Agreed /\ ~Heard /\ ~Opening /\ Open /\ ~Closing
    BY <1>1, WordsMove
  <1>3. WriteInStep /\ Count \in Nat /\ c.i \in Nat
    BY <1>1, CallWords DEF SdState, DataInStep
  <1>4. /\ c' \in Operation /\ c'.at = c.at /\ c'.cmd = c.cmd /\ c'.op = c.op
        /\ c'.addr = c.addr /\ c'.n = c.n /\ c'.i = c.i + 1 /\ c'.p = c.p + 1 /\ c'.buf = c.buf
    <2>1. c.i + 1 \in 0 .. HalfWord - 1
      BY <1>1, <1>3, SdConstants DEF WriteInStep
    <2>2. (c.i + 1) % HalfWord = c.i + 1
      BY <2>1, SdConstants
    <2> QED BY <1>2, <2>2, WordWritten
  <1>5. /\ First' = First /\ Count' = Count /\ Top' = Top /\ ~Heard' /\ ~Opening' /\ Open' /\ ~Closing'
    BY <1>1, <1>2, <1>4 DEF First, Count, Top, Heard, Opening, Open, Closing
  <1>6. SdTypes'
    <2>1. Meant(c.p) \in Int
      <3>1. calls \in Nat /\ c.p \in Int
        BY CallWords DEF SdState, SdTypes
      <3> QED BY <1>2, <3>1, MeantInt
    <2>2. fifo' \in Seq(Int)
      BY <1>1, <2>1, CallWords
    <2> QED BY <1>1, <1>4, <2>2 DEF SdState, SdTypes
  <1>7. InStep'
    BY <1>1, <1>2, <1>4, CommandNames DEF SdState, InStep
  <1>8. CardInStep'
    BY <1>1, <1>2, <1>4, <1>5, CommandNames DEF SdState, CardInStep, Agreed
  <1>9. WriteInStep'
    BY <1>1, <1>2, <1>3, <1>4, <1>5 DEF WriteInStep, Clean
  <1>10. DataInStep'
    BY <1>1, <1>2, <1>4, <1>5, <1>9, CommandNames DEF SdState, DataInStep
  <1> QED BY <1>6, <1>7, <1>8, <1>10 DEF SdState

\* A write whose words have all gone out has them all in the card's memory.
LEMMA AllSent ==
    ASSUME SdState, Sending, c.at = "words", c.op = "write", c.i = Count, fifo = <<>>
    PROVE  \A w \in Word : card.mem[w] = image[w]
  <1>1. card.state = "rcv" /\ ~card.deaf /\ c.p = Count
    BY WordsMove, CommandNames DEF SdState, CardInStep, DataInStep, WriteInStep
  <1>2. First \in Nat /\ Count \in Nat /\ Sent = Count /\ InBlock \in Nat
    <2>1. First \in Nat /\ Count \in Nat
      BY CallWords
    <2>2. c.p = Sent + 0 /\ dleft \in 0 .. Count
      BY DEF Sending
    <2>3. InBlock \in Nat
      BY DEF SdState, SdTypes, CardRecord, InBlock
    <2> QED BY <1>1, <2>1, <2>2, <2>3 DEF Sent
  <1>3. /\ InBlock < W /\ \E k \in Nat : card.ptr = k * W
        /\ card.ptr + InBlock = First + Count
        /\ \A w \in Word : card.mem[w] = IF w < card.ptr THEN image[w] ELSE before[w]
    BY <1>1, <1>2 DEF Sending
  <1>4. PICK k \in Nat : card.ptr = k * W
    BY <1>3
  <1>5. First + Count = (c.addr + c.n) * W /\ c.addr + c.n \in Nat
    BY SdConstants DEF First, Count, SdState, SdTypes, Operation
  <1>6. InBlock = 0
    BY <1>2, <1>3, <1>4, <1>5, BlocksApart
  <1>7. card.ptr = First + Count
    BY <1>2, <1>3, <1>6, CallWords
  <1>8. \A w \in Word : image[w] = IF w \in First .. First + Count - 1 THEN Meant(w - First) ELSE before[w]
    BY DEF Sending
  <1>9. ASSUME NEW w \in Word, ~(w < card.ptr) PROVE w \notin First .. First + Count - 1
    BY <1>2, <1>7, <1>9, SdConstants
  <1> QED BY <1>3, <1>8, <1>9

LEMMA SwitchOffKeeps ==
    ASSUME SdState, SendInv, SwitchOff, breach' = {}
    PROVE  SdState'
  <1>1. /\ c.at = "words" /\ c.i = Count /\ dmode' = "off"
        /\ c' = [c EXCEPT !.at = "issue", !.cmd = "CMD12"]
        /\ card' = card /\ csta' = csta /\ busy' = busy /\ fifo' = fifo /\ dleft' = dleft
        /\ dsta' = dsta /\ spoilt' = spoilt /\ info' = info /\ image' = image /\ calls' = calls
        /\ ~Late /\ ~Cut
    BY DEF SwitchOff, regs, images, Count, Only, Issuing
  <1>2. /\ c \in Operation /\ busy = None /\ csta = {} /\ c.cmd \in {"CMD18", "CMD25"}
        /\ c.op \in {"read", "write"} /\ info.up /\ Agreed /\ ~Heard /\ ~Opening /\ Open /\ ~Closing
    BY <1>1, WordsMove
  <1>3. /\ c' \in Operation /\ c'.at = "issue" /\ c'.cmd = "CMD12" /\ c'.op = c.op
        /\ c'.addr = c.addr /\ c'.n = c.n /\ c'.i = c.i /\ c'.p = c.p /\ c'.buf = c.buf
    BY <1>1, <1>2, CommandNames DEF Operation, Commands
  <1>4. /\ First' = First /\ Count' = Count /\ Top' = Top /\ ~Heard' /\ ~Opening' /\ ~Open' /\ Closing'
    BY <1>3 DEF First, Count, Top, Heard, Opening, Open, Closing
  <1>5. SdTypes'
    BY <1>1, <1>3 DEF SdState, SdTypes
  <1>6. InStep'
    BY <1>1, <1>2, <1>3, CommandNames DEF InStep
  <1>7. CardInStep'
    BY <1>1, <1>2, <1>3, <1>4, CommandNames DEF SdState, CardInStep, Agreed
  <1>8. CASE c.op = "read"
    <2>1. /\ ReadInStep /\ dleft \in Nat /\ Count \in Nat /\ Len(fifo) \in Nat
          /\ c.i + Len(fifo) = Count - dleft /\ First + Count <= Top
          /\ (\A w \in Word : card.mem[w] = image[w])
      BY <1>2, <1>8, WordsOnTheWay
    <2>2. Clean
      BY <1>1, <1>8 DEF Late, Clean, SdState, SdTypes
    <2>3. Right(Count)
      <3>1. Count - dleft = Count
        BY <1>1, <2>1
      <3> QED BY <1>2, <2>1, <2>2, <3>1 DEF ReadInStep
    <2>4. ReadInStep'
      BY <1>1, <1>3, <1>4, <2>1, <2>2, <2>3 DEF ReadInStep, Clean, Right, Got
    <2>5. DataInStep'
      BY <1>1, <1>3, <1>4, <1>8, <2>1, <2>4, CommandNames DEF DataInStep
    <2> QED BY <1>5, <1>6, <1>7, <2>5 DEF SdState
  <1>9. CASE c.op = "write"
    <2>1. WriteInStep /\ First + Count <= Top /\ fifo = <<>>
      BY <1>1, <1>9 DEF SdState, DataInStep, Cut
    <2>2. Sending
      BY <1>2, <2>1 DEF WriteInStep, SendInv
    <2>3. \A w \in Word : card.mem[w] = image[w]
      BY <1>1, <1>9, <2>1, <2>2, AllSent
    <2>4. WriteInStep'
      BY <1>1, <1>3, <1>4, <2>1 DEF WriteInStep, Clean
    <2>5. DataInStep'
      BY <1>1, <1>3, <1>4, <1>9, <2>1, <2>3, <2>4, CommandNames DEF DataInStep
    <2> QED BY <1>5, <1>6, <1>7, <2>5 DEF SdState
  <1> QED BY <1>2, <1>8, <1>9

LEMMA StutterKeeps ==
    ASSUME SdState, UNCHANGED vars
    PROVE  SdState'
  <1>1. /\ c' = c /\ busy' = busy /\ csta' = csta /\ info' = info /\ dmode' = dmode /\ dsta' = dsta
        /\ spoilt' = spoilt
        /\ image' = image /\ calls' = calls /\ fifo' = fifo /\ dleft' = dleft /\ card' = card
    BY DEF vars, regs, data, ghosts, images
  <1> QED BY <1>1 DEF SdState, SdTypes, InStep, CardInStep, DataInStep, ReadInStep, WriteInStep, Heard,
                      Opening, Open, Closing, Selected, Agreed, First, Count, Top, Word, Clean, Right, Got

-----------------------------------------------------------------------------
(* What the variables are, whatever has gone wrong                         *)

LEMMA AlwaysInit == Init => SdAlways
  <1> SUFFICES ASSUME Init PROVE SdAlways
    OBVIOUS
  <1>1. SdState
    BY SdInit
  <1>2. before = image /\ dmode = "off" /\ c = Idle
    BY DEF Init
  <1>3. c.op = None /\ c.at = "idle" /\ c.cmd = None
    BY <1>2 DEF Idle
  <1>4. Core
    BY <1>1, <1>2, <1>3 DEF SdState, SdTypes, Core
  <1>5. SendInv
    BY <1>2 DEF SendInv
  <1>6. LostAtEnd
    <2>1. 0 \in 0 .. Blocks /\ \A w \in Word : ~(w < 0 * W)
      BY SdConstants
    <2>2. \A w \in Word : card.mem[w] = before[w]
      BY <1>1, <1>2, <1>3, CommandNames DEF SdState, DataInStep
    <2> QED BY <2>1, <2>2 DEF LostAtEnd
  <1>7. ReadEnds
    BY <1>3, CommandNames DEF ReadEnds
  <1> QED BY <1>4, <1>5, <1>6, <1>7 DEF SdAlways

\* A read that still looks for words has met none of the cases of breach.
LEMMA ReadOpen ==
    ASSUME SdInv, ReadEnds, c.op = "read", c.at \notin {"issue", "wait"}
    PROVE  breach = {} /\ SdState
  BY DEF SdInv, ReadEnds

\* Before a call nothing has gone wrong either.
LEMMA BeginsFacts ==
    ASSUME SdInv, Begins
    PROVE  SdState /\ breach = {} /\ dmode = "off" /\ \A w \in Word : card.mem[w] = image[w]
  BY IdleFacts DEF SdInv, Begins

LEMMA IssuingIs ==
    ASSUME NEW d \in Operation, NEW k \in Command \cup {None}
    PROVE  LET e == Issuing(d, k)
           IN  /\ e \in Operation /\ e.at = "issue" /\ e.cmd = k /\ e.op = d.op
               /\ e.addr = d.addr /\ e.n = d.n /\ e.i = d.i /\ e.p = d.p /\ e.buf = d.buf
  <1> DEFINE e == Issuing(d, k)
  <1>0. e = [d EXCEPT !.at = "issue", !.cmd = k]
    BY DEF Issuing
  <1> HIDE DEF e
  <1>1. e = [at |-> "issue", cmd |-> k, op |-> d.op, addr |-> d.addr, n |-> d.n, i |-> d.i, p |-> d.p,
             buf |-> d.buf, tries |-> d.tries]
    BY <1>0 DEF Operation
  <1>2. e \in Operation
    BY <1>1 DEF Operation
  <1>3. /\ e.at = "issue" /\ e.cmd = k /\ e.op = d.op
        /\ e.addr = d.addr /\ e.n = d.n /\ e.i = d.i /\ e.p = d.p /\ e.buf = d.buf
    BY <1>1
  <1> QED BY <1>2, <1>3 DEF e

LEMMA IdleIs == Idle \in Operation /\ Idle.at = "idle" /\ Idle.op = None /\ Idle.cmd = None
  BY DEF Idle, Operation

\* What a call begins with
LEMMA CallIs ==
    ASSUME NEW op \in {"init", "read", "write"}, NEW a \in Nat, NEW n \in Nat, NEW k \in Command, NEW e,
           e = [at |-> "issue", cmd |-> k, op |-> op, addr |-> a, n |-> n, i |-> 0, p |-> 0, buf |-> <<>>,
                tries |-> 0]
    PROVE  e \in Operation /\ e.at = "issue" /\ e.cmd = k /\ e.op = op
  <1>1. e \in Operation
    BY DEF Operation
  <1> QED BY <1>1

\* The steps with which a caller goes on are those of Code.
LEMMA CallerIs ==
    ASSUME Core, SdInv, ReadEnds, [Next]_vars
    PROVE  c' \in Operation /\ (c'.at = "take" => c'.op = "read")
  <1>1. c \in Operation /\ (c.at = "take" => c.op = "read")
    BY DEF Core
  <1>2. CASE Card \/ Program \/ Data \/ UNCHANGED vars
    <2>1. c' = c
      BY <1>2 DEF Card, Program, Data, vars, Answer, NoAnswer, SpoiltAnswer, Receive, ReceiveBad, Arrives,
                  Report, Send, SendRefused, Sends
    <2> QED BY <1>1, <2>1
  <1>3. CASE SdiInit
    <2>1. c' = Issuing([Idle EXCEPT !.op = "init"], "CMD0") /\ "CMD0" \in Command
      BY <1>3, CommandNames DEF SdiInit, Commands
    <2>2. c' = [at |-> "issue", cmd |-> "CMD0", op |-> "init", addr |-> 0, n |-> 0, i |-> 0, p |-> 0,
                buf |-> <<>>, tries |-> 0]
      BY <2>1 DEF Idle, Issuing
    <2>3. ASSUME NEW a \in Nat, NEW n \in Nat, NEW k \in Command,
                 c' = [at |-> "issue", cmd |-> k, op |-> "init", addr |-> a, n |-> n, i |-> 0, p |-> 0,
                       buf |-> <<>>, tries |-> 0]
          PROVE  c' \in Operation /\ c'.at = "issue"
      BY <2>3, CallIs
    <2>4. 0 \in Nat /\ "take" # "issue"
      OBVIOUS
    <2> QED BY <2>1, <2>2, <2>3, <2>4, Zenon
  <1>4. ASSUME NEW a \in 0 .. Blocks - 1, NEW n \in 1 .. Blocks, ReadStart(a, n) \/ WriteStart(a, n)
        PROVE  c' \in Operation /\ (c'.at = "take" => c'.op = "read")
    <2>1. a \in Nat /\ n \in Nat /\ {"CMD18", "CMD25"} \subseteq Command
      BY SdConstants, CommandNames DEF Commands
    <2>2. ASSUME NEW op \in {"read", "write"}, NEW k \in {"CMD18", "CMD25"},
                 c' = Issuing([Idle EXCEPT !.op = op, !.addr = a, !.n = n], k)
          PROVE  c' \in Operation /\ c'.at = "issue"
      <3>1. c' = [at |-> "issue", cmd |-> k, op |-> op, addr |-> a, n |-> n, i |-> 0, p |-> 0, buf |-> <<>>,
                  tries |-> 0]
        BY <2>2 DEF Idle, Issuing
      <3> QED BY <2>1, <3>1, CallIs
    <2>3. \/ c' = Issuing([Idle EXCEPT !.op = "read", !.addr = a, !.n = n], "CMD18")
          \/ c' = Issuing([Idle EXCEPT !.op = "write", !.addr = a, !.n = n], "CMD25")
      BY <1>4 DEF ReadStart, WriteStart, SetUp
    <2> QED BY <2>2, <2>3
  <1>5. CASE Issue
    <2>1. c' = [c EXCEPT !.at = "wait"]
      BY <1>5 DEF Issue
    <2> QED BY <1>1, <2>1 DEF Operation
  <1>6. CASE InitCommand
    <2>1. c' = NextCommand /\ c.cmd \in Command \ {"CMD18", "CMD25", "CMD12"}
      BY <1>6 DEF InitCommand, Ended
    <2>2. CASE NextCommand = Idle
      BY <2>1, <2>2, IdleIs
    <2>3. ASSUME NEW k \in Command, NEW t \in Nat, NextCommand = [c EXCEPT !.at = "issue", !.cmd = k, !.tries = t]
          PROVE  c' \in Operation /\ c'.at = "issue"
      BY <1>1, <2>1, <2>3 DEF Operation
    <2> QED BY <1>1, <2>1, <2>2, <2>3, NextCommandIs
  <1>7. CASE Opened
    <2>1. c' = [c EXCEPT !.at = "words"] \/ c' = Issuing(c, c.cmd)
      BY <1>7 DEF Opened
    <2>2. [c EXCEPT !.at = "words"] \in Operation /\ [c EXCEPT !.at = "words"].at = "words"
      BY <1>1 DEF Operation
    <2>3. c.cmd \in Command \cup {None}
      BY <1>1 DEF Operation
    <2> QED BY <1>1, <2>1, <2>2, <2>3, IssuingIs
  <1>8. CASE Closed
    <2>1. c' = Idle \/ c' = Issuing(c, "CMD12")
      BY <1>8 DEF Closed
    <2>2. "CMD12" \in Command
      BY CommandNames DEF Commands
    <2> QED BY <1>1, <2>1, <2>2, IssuingIs, IdleIs
  <1>9. CASE GiveUp
    BY <1>9, IdleIs DEF GiveUp
  <1>10. CASE CheckStatus
    <2>1. c' = [c EXCEPT !.at = "take"] /\ c.op = "read"
      BY <1>10 DEF CheckStatus
    <2> QED BY <1>1, <2>1 DEF Operation
  <1>11. CASE TakeWord
    <2>1. c.at = "take" /\ SdState
      BY <1>1, <1>11, ReadOpen DEF TakeWord
    <2>2. fifo \in Seq(Int)
      BY <2>1, CallWords
    <2>3. CASE fifo = <<>>
      <3>1. c' = [c EXCEPT !.at = "words"]
        BY <1>11, <2>3 DEF TakeWord
      <3> QED BY <1>1, <3>1 DEF Operation
    <2>4. CASE fifo # <<>>
      BY <1>1, <1>11, <2>2, <2>4, WordTaken
    <2> QED BY <2>3, <2>4
  <1>12. CASE WriteWord
    <2>1. c.at = "words"
      BY <1>12 DEF WriteWord
    <2> QED BY <1>1, <1>12, <2>1, WordWritten
  <1>13. CASE SwitchOff
    <2>1. c' = Issuing(c, "CMD12") /\ "CMD12" \in Command
      BY <1>13, CommandNames DEF SwitchOff, Commands
    <2> QED BY <1>1, <2>1, IssuingIs
  <1> QED BY <1>2, <1>3, <1>4, <1>5, <1>6, <1>7, <1>8, <1>9, <1>10, <1>11, <1>12, <1>13 DEF Next, Calls, Code

\* The card after a command it takes
LEMMA TakenIs ==
    ASSUME Core, busy # None, Taken(busy), card' = TakenCard(busy)
    PROVE  /\ busy \in Command /\ card.state \in Takes[busy] /\ card.state \in CardState
           /\ card' \in CardRecord /\ card'.state = NextState(busy, card.state)
           /\ card'.mem = card.mem /\ card'.block = <<>>
           /\ busy = "CMD25" => card.state = "tran" /\ card'.state = "rcv" /\ card'.ptr = First
           /\ busy = "CMD18" => card.state = "tran" /\ card'.state = "data"
  <1>1. busy \in Command /\ card.state \in Takes[busy] /\ card.state \in CardState
        /\ card \in CardRecord /\ c \in Operation
    BY DEF Core, Taken, CardRecord
  <1>2. /\ card' \in CardRecord /\ card'.state = NextState(busy, card.state)
        /\ card'.mem = card.mem /\ card'.block = <<>>
        /\ busy = "CMD25" => card'.ptr = First
    BY <1>1, CardTakes
  <1> QED BY <1>1, <1>2, CommandTable

\* The card changes with its commands, and with the words.
LEMMA CardIs ==
    ASSUME Core, SendInv, [Next]_vars
    PROVE  card' \in CardRecord /\ (~Send => card'.mem = card.mem)
  <1>1. card \in CardRecord
    BY DEF Core
  <1>2. CASE Calls \/ Code \/ Report \/ UNCHANGED vars
    <2>1. card' = card
      BY <1>2 DEF Calls, Code, Report, vars, SdiInit, ReadStart, WriteStart, SetUp, Issue, InitCommand, Opened,
                  Closed, GiveUp, CheckStatus, TakeWord, WriteWord, SwitchOff
    <2> QED BY <1>1, <2>1
  <1>3. CASE Card
    <2>1. card' = card \/ (busy # None /\ Taken(busy) /\ card' = TakenCard(busy))
      BY <1>3 DEF Card, Answer, NoAnswer, SpoiltAnswer
    <2> QED BY <1>1, <2>1, TakenIs
  <1>4. CASE Program
    <2>1. card' = [card EXCEPT !.state = "tran"]
      BY <1>4 DEF Program
    <2> QED BY <1>1, <2>1 DEF CardRecord, CardState
  <1>5. CASE Receive \/ ReceiveBad
    <2> DEFINE M == [0 .. Blocks * W -> Int]
    <2>1. card' = [card EXCEPT !.ptr = @ + 1]
      BY <1>5 DEF Receive, ReceiveBad, Arrives
    <2>2. card \in [state : CardState, wide : BOOLEAN, ptr : Nat, mem : M, block : Seq(Int), deaf : BOOLEAN]
      BY <1>1 DEF CardRecord
    <2> HIDE DEF M
    <2>3. card' = [state |-> card.state, wide |-> card.wide, ptr |-> card.ptr + 1, mem |-> card.mem,
                   block |-> card.block, deaf |-> card.deaf]
      BY <2>1, <2>2
    <2>4. card' \in [state : CardState, wide : BOOLEAN, ptr : Nat, mem : M, block : Seq(Int), deaf : BOOLEAN]
      BY <2>2, <2>3
    <2> QED BY <2>3, <2>4 DEF M, CardRecord
  <1>6. CASE Send
    <2>1. fifo \in Seq(Int)
      BY <1>6 DEF Send, Sends, SendInv, Sending
    <2> QED BY <1>1, <1>6, <2>1, CardSent
  <1>7. CASE SendRefused
    <2>1. card' = [card EXCEPT !.block = <<>>, !.deaf = TRUE]
      BY <1>7 DEF SendRefused, Sends
    <2>2. <<>> \in Seq(Int)
      OBVIOUS
    <2> QED BY <1>1, <2>1, <2>2 DEF CardRecord
  <1> QED BY <1>2, <1>3, <1>4, <1>5, <1>6, <1>7 DEF Next, Data

LEMMA CoreStep ==
    ASSUME SdInv, SdAlways, [Next]_vars
    PROVE  Core'
  <1>1. Core /\ SendInv /\ ReadEnds
    BY DEF SdAlways
  <1>2. card' \in CardRecord /\ c' \in Operation /\ (c'.at = "take" => c'.op = "read")
    BY <1>1, CallerIs, CardIs
  <1>3. busy' \in Command \cup {None}
    <2>1. busy' = busy \/ busy' = None \/ busy' = c.cmd
      BY DEF Next, Calls, Code, Card, Data, vars, regs, SdiInit, ReadStart, WriteStart, SetUp, Issue, InitCommand,
             Ended, Opened, Closed, GiveUp, CheckStatus, TakeWord, WriteWord, SwitchOff, Answer, NoAnswer,
             SpoiltAnswer, Program, Receive, ReceiveBad, Arrives, Report, Send, SendRefused, Sends
    <2> QED BY <1>1, <2>1 DEF Core, Operation
  <1>4. dmode' \in {"off", "rx", "tx"}
    <2>1. dmode' \in {dmode, "off", "rx", "tx"}
      BY DEF Next, Calls, Code, Card, Data, vars, data, SdiInit, ReadStart, WriteStart, SetUp, Issue, InitCommand,
             Opened, Closed, GiveUp, CheckStatus, TakeWord, WriteWord, SwitchOff, Answer, NoAnswer,
             SpoiltAnswer, Program, Receive, ReceiveBad, Arrives, Report, Send, SendRefused, Sends
    <2> QED BY <1>1, <2>1 DEF Core
  <1>5. calls' \in Nat
    <2>1. calls' = calls \/ calls' = calls + 1
      BY DEF Next, Calls, Code, Card, Data, vars, ghosts, SdiInit, ReadStart, WriteStart, SetUp, Begins, Issue,
             InitCommand, Opened, Closed, GiveUp, CheckStatus, TakeWord, WriteWord, SwitchOff, Answer, NoAnswer,
             SpoiltAnswer, Program, Receive, ReceiveBad, Arrives, Report, Send, SendRefused, Sends
    <2> QED BY <1>1, <2>1 DEF Core
  <1>6. Word' = Word
    BY DEF Word
  <1>7. image' \in [Word -> Int] /\ before' \in [Word -> Int]
    <2>1. CASE UNCHANGED images
      BY <1>1, <2>1 DEF images, Core
    <2>2. ASSUME NEW a \in 0 .. Blocks - 1, NEW n \in 1 .. Blocks, WriteStart(a, n)
          PROVE  image' \in [Word -> Int] /\ before' \in [Word -> Int]
      <3>1. a \in Nat /\ n \in Nat /\ image \in [Word -> Int] /\ before' = image
        BY <1>1, <2>2, SdConstants DEF Core, WriteStart
      <3> QED BY <1>5, <2>2, <3>1, ImageIs
    <2>3. UNCHANGED images \/ \E a \in 0 .. Blocks - 1, n \in 1 .. Blocks : WriteStart(a, n)
      BY DEF Next, Calls, Code, Card, Data, vars, ghosts, SdiInit, ReadStart, Issue,
             InitCommand, Opened, Closed, GiveUp, CheckStatus, TakeWord, WriteWord, SwitchOff, Answer, NoAnswer,
             SpoiltAnswer, Program, Receive, ReceiveBad, Arrives, Report, Send, SendRefused, Sends
    <2> QED BY <2>1, <2>2, <2>3
  <1> QED BY <1>2, <1>3, <1>4, <1>5, <1>6, <1>7 DEF Core

-----------------------------------------------------------------------------
(* The words of a write                                                    *)

LEMMA SendingNumbers ==
    ASSUME Core, Sending
    PROVE  /\ First \in Nat /\ Count \in Nat /\ Sent \in Nat /\ Sent <= Count /\ First + Count <= Top
           /\ InBlock \in Nat /\ card.ptr \in Nat /\ c.p \in Nat /\ Len(fifo) \in Nat
           /\ dleft = Count - Sent
  <1>1. c.addr \in Nat /\ c.n \in Nat /\ c.p \in Nat /\ card.ptr \in Nat /\ card.block \in Seq(Int)
    BY DEF Core, Operation, CardRecord
  <1>2. First \in Nat /\ Count \in Nat
    BY <1>1, SdConstants DEF First, Count
  <1>3. dleft \in 0 .. Count /\ fifo \in Seq(Int) /\ First + Count <= Top
    BY DEF Sending
  <1>4. Sent \in Nat /\ Sent <= Count /\ dleft = Count - Sent
    BY <1>2, <1>3 DEF Sent
  <1> QED BY <1>1, <1>2, <1>3, <1>4 DEF InBlock

\* A write begins with all its words in the caller's buffer.
LEMMA SendingStarts ==
    ASSUME SdInv, NEW a \in Nat, NEW n \in Nat, WriteStart(a, n)
    PROVE  Sending'
  <1>1. /\ SetUp("write", "CMD25", a, n, "tx") /\ before' = image
        /\ image' = [w \in Word |-> IF w - a * W \in 0 .. n * W - 1 THEN calls' * Blocks * W + w ELSE image[w]]
    BY DEF WriteStart
  <1>2. SdState /\ \A w \in Word : card.mem[w] = image[w]
    BY <1>1, BeginsFacts DEF SetUp
  <1>3. /\ c.at = "idle" /\ info.up /\ fifo' = <<>> /\ dleft' = n * W
        /\ card' = card /\ busy' = None /\ calls' \in Nat
        /\ c'.cmd = "CMD25" /\ c'.op = "write" /\ c'.addr = a /\ c'.n = n /\ c'.p = 0
        /\ First' = a * W /\ Count' = n * W /\ Top' = Top /\ First' + Count' <= Top
        /\ First' \in Nat /\ Count' \in Nat
    BY <1>1, <1>2, SetUpFacts
  <1>4. card.state # "rcv"
    BY <1>2, <1>3, IdleFacts DEF Selected
  <1>5. dleft' = Count' /\ Sent' = 0 /\ dleft' \in 0 .. Count'
    BY <1>3 DEF Sent
  <1>6. fifo' \in Seq(Int) /\ Len(fifo') = 0 /\ c'.p = Sent' + Len(fifo')
    BY <1>3, <1>5
  <1>7. Word' = Word /\ Word = 0 .. Top - 1 /\ Top \in Nat
    BY SdConstants DEF Word
  <1> DEFINE base == calls' * Blocks * W
  <1>8. base \in Int
    <2>1. calls' * Blocks \in Int
      BY <1>3, SdConstants
    <2> QED BY <2>1, SdConstants
  <1>9. ASSUME NEW w \in Word PROVE Meant(w - First)' = base + First' + (w - First')
    BY <1>3 DEF Meant
  <1>10. image' = [w \in Word |-> IF w - First' \in 0 .. Count' - 1 THEN base + w ELSE image[w]]
    BY <1>1, <1>3
  <1> HIDE DEF base
  <1>11. ASSUME NEW w \in Word
         PROVE  image'[w] = IF w \in First' .. First' + Count' - 1 THEN Meant(w - First)' ELSE before'[w]
    <2>1. w - First' \in 0 .. Count' - 1 <=> w \in First' .. First' + Count' - 1
      BY <1>3, <1>7
    <2>2. Meant(w - First)' = base + w
      <3>1. base + First' + (w - First') = base + w
        BY <1>3, <1>7, <1>8
      <3> QED BY <1>9, <3>1
    <2> QED BY <1>1, <1>10, <2>1, <2>2
  <1>12. \A w \in Word : card'.mem[w] = before'[w]
    BY <1>1, <1>2, <1>3
  <1>13. \A w \in Word' : image'[w] = IF w \in First' .. First' + Count' - 1 THEN Meant(w - First)' ELSE before'[w]
    BY <1>7, <1>11
  <1>14. card'.state # "rcv" /\ \A w \in Word' : card'.mem[w] = before'[w]
    BY <1>3, <1>4, <1>7, <1>12
  <1> QED BY <1>3, <1>5, <1>6, <1>13, <1>14 DEF Sending

\* Steps that move no word of it
LEMMA SendingRests ==
    ASSUME Sending, UNCHANGED <<fifo, dleft, images, calls>>, busy' \in {None, "CMD25"},
           c'.op = c.op, c'.cmd = c.cmd, c'.addr = c.addr, c'.n = c.n, c'.p = c.p,
           \/ card' = card
           \/ card'.mem = card.mem /\ card.state # "rcv" /\ card'.state # "rcv"
    PROVE  Sending'
  <1>1. First' = First /\ Count' = Count /\ Top' = Top /\ Sent' = Sent /\ Word' = Word
    BY DEF First, Count, Top, Sent, Word
  <1>2. ASSUME NEW k \in Int PROVE Meant(k)' = Meant(k)
    BY DEF Meant
  <1>3. image' = image /\ before' = before
    BY DEF images
  <1>4. /\ c'.op = "write" /\ c'.cmd = "CMD25"
        /\ First' + Count' <= Top' /\ dleft' \in 0 .. Count'
        /\ fifo' \in Seq(Int) /\ c'.p = Sent' + Len(fifo')
    BY <1>1 DEF Sending
  <1>5. \A j \in 1 .. Len(fifo') : fifo'[j] = Meant(Sent + j - 1)'
    <2>1. \A j \in 1 .. Len(fifo) : fifo[j] = Meant(Sent + j - 1)
      BY DEF Sending
    <2>2. ASSUME NEW j \in 1 .. Len(fifo') PROVE Meant(Sent + j - 1)' = Meant(Sent + j - 1)
      BY <1>1 DEF Meant
    <2> QED BY <2>1, <2>2
  <1>6. \A w \in Word' : image'[w] = IF w \in First' .. First' + Count' - 1 THEN Meant(w - First)' ELSE before'[w]
    <2>1. ASSUME NEW w \in Word PROVE Meant(w - First)' = Meant(w - First)
      BY <1>1 DEF Meant
    <2> QED BY <1>1, <1>3, <2>1 DEF Sending
  <1>7. CASE card'.state # "rcv"
    <2>1. dleft' = Count' /\ \A w \in Word' : card'.mem[w] = before'[w]
      BY <1>1, <1>3, <1>7 DEF Sending
    <2> QED BY <1>4, <1>5, <1>6, <1>7, <2>1 DEF Sending
  <1>8. CASE card'.state = "rcv"
    <2>1. card' = card /\ InBlock' = InBlock
      BY <1>8 DEF InBlock
    <2>2. /\ InBlock < W /\ InBlock <= Sent
          /\ \A j \in 1 .. InBlock : card.block[j] = Meant(Sent - InBlock + j - 1)
          /\ ~card.deaf => /\ \E k \in Nat : card.ptr = k * W
                           /\ card.ptr + InBlock = First + Sent
                           /\ \A w \in Word : card.mem[w] = IF w < card.ptr THEN image[w] ELSE before[w]
      BY <1>8, <2>1 DEF Sending
    <2>3. ASSUME NEW j \in 1 .. InBlock
          PROVE  Meant(Sent - InBlock + j - 1)' = Meant(Sent - InBlock + j - 1)
      BY <1>1, <2>1 DEF Meant
    <2>4. \A j \in 1 .. InBlock' : card'.block[j] = Meant(Sent - InBlock + j - 1)'
      BY <2>1, <2>2, <2>3
    <2>5. ~card'.deaf => /\ \E k \in Nat : card'.ptr = k * W
                         /\ card'.ptr + InBlock' = First' + Sent'
                         /\ \A w \in Word' : card'.mem[w] = IF w < card'.ptr THEN image'[w] ELSE before'[w]
      BY <1>1, <1>3, <2>1, <2>2
    <2>6. InBlock' < W /\ InBlock' <= Sent'
      BY <1>1, <2>1, <2>2
    <2> QED BY <1>4, <1>5, <1>6, <1>8, <2>4, <2>5, <2>6 DEF Sending
  <1> QED BY <1>7, <1>8

\* The card takes CMD25.
LEMMA SendingTaken ==
    ASSUME Core, Sending, busy # None, Taken(busy), card' = TakenCard(busy), busy' = None,
           UNCHANGED <<fifo, dleft, images, calls, c>>
    PROVE  Sending'
  <1>1. busy = "CMD25"
    BY DEF Sending
  <1>2. /\ card.state = "tran" /\ card'.state = "rcv" /\ card'.ptr = First
        /\ card'.mem = card.mem /\ card'.block = <<>>
    BY <1>1, TakenIs
  <1>3. dleft = Count /\ \A w \in Word : card.mem[w] = before[w]
    BY <1>2 DEF Sending
  <1>4. First' = First /\ Count' = Count /\ Top' = Top /\ Sent' = Sent /\ Word' = Word
    BY DEF First, Count, Top, Sent, Word
  <1>5. First \in Nat /\ Sent = 0 /\ Count \in Nat /\ InBlock' = 0
    BY <1>2, <1>3, SendingNumbers DEF Sent, InBlock
  <1>6. image' = image /\ before' = before /\ c' = c /\ fifo' = fifo /\ calls' = calls /\ dleft' = dleft
    BY DEF images
  <1>7. \A j \in 1 .. Len(fifo') : fifo'[j] = Meant(Sent + j - 1)'
    <2>1. \A j \in 1 .. Len(fifo) : fifo[j] = Meant(Sent + j - 1)
      BY DEF Sending
    <2>2. ASSUME NEW j \in 1 .. Len(fifo') PROVE Meant(Sent + j - 1)' = Meant(Sent + j - 1)
      BY <1>4, <1>6 DEF Meant
    <2> QED BY <1>6, <2>1, <2>2
  <1>8. \A w \in Word' : image'[w] = IF w \in First' .. First' + Count' - 1 THEN Meant(w - First)' ELSE before'[w]
    <2>1. ASSUME NEW w \in Word PROVE Meant(w - First)' = Meant(w - First)
      BY <1>4, <1>6 DEF Meant
    <2> QED BY <1>4, <1>6, <2>1 DEF Sending
  <1>9. \E k \in Nat : card'.ptr = k * W
    BY <1>2 DEF First, Core, Operation
  <1>10. card'.ptr + InBlock' = First' + Sent'
    BY <1>2, <1>4, <1>5
  <1>11. \A w \in Word' : card'.mem[w] = IF w < card'.ptr THEN image'[w] ELSE before'[w]
    <2> SUFFICES ASSUME NEW w \in Word, w < First PROVE image[w] = before[w]
      BY <1>2, <1>3, <1>4, <1>6
    <2>1. w \notin First .. First + Count - 1
      BY <1>5, SdConstants
    <2> QED BY <2>1 DEF Sending
  <1>12. /\ c'.op = "write" /\ c'.cmd = "CMD25"
         /\ First' + Count' <= Top' /\ dleft' \in 0 .. Count'
         /\ fifo' \in Seq(Int) /\ c'.p = Sent' + Len(fifo')
    BY <1>4, <1>6 DEF Sending
  <1>13. InBlock' < W /\ InBlock' <= Sent' /\ \A j \in 1 .. InBlock' : FALSE
    BY <1>4, <1>5, SdConstants
  <1> QED BY <1>2, <1>7, <1>8, <1>9, <1>10, <1>11, <1>12, <1>13 DEF Sending

\* A word goes out: the block the card has grows, or is stored, or is lost.
LEMMA SendingSent ==
    ASSUME Core, Sending, Send \/ SendRefused
    PROVE  Sending'
  <1>1. /\ card.state = "rcv" /\ fifo # <<>> /\ dleft > 0 /\ fifo' = Tail(fifo) /\ dleft' = dleft - 1
        /\ c' = c /\ image' = image /\ before' = before /\ calls' = calls /\ busy' = busy
    BY DEF Send, SendRefused, Sends, regs, images
  <1>2. /\ First \in Nat /\ Count \in Nat /\ Sent \in Nat /\ Sent <= Count /\ First + Count <= Top
        /\ InBlock \in Nat /\ card.ptr \in Nat /\ c.p \in Nat /\ Len(fifo) \in Nat
        /\ dleft = Count - Sent
    BY SendingNumbers
  <1>3. First' = First /\ Count' = Count /\ Top' = Top /\ Sent' = Sent + 1 /\ Word' = Word /\ Sent + 1 <= Count
    BY <1>1, <1>2 DEF First, Count, Top, Sent, Word
  <1>4. /\ fifo \in Seq(Int) /\ fifo' \in Seq(Int) /\ Len(fifo') = Len(fifo) - 1 /\ Head(fifo) = fifo[1]
        /\ Head(fifo) \in Int /\ Len(fifo) > 0
        /\ \A j \in 1 .. Len(fifo') : fifo'[j] = fifo[j + 1]
    BY <1>1 DEF Sending
  <1>5. ASSUME NEW j \in 1 .. Len(fifo) PROVE fifo[j] = Meant(Sent + j - 1)
    BY DEF Sending
  <1>6. \A j \in 1 .. Len(fifo') : fifo'[j] = Meant(Sent + j - 1)'
    <2> TAKE j \in 1 .. Len(fifo')
    <2>1. j + 1 \in 1 .. Len(fifo) /\ Sent + (j + 1) - 1 = Sent' + j - 1
      BY <1>2, <1>3, <1>4
    <2>2. fifo'[j] = Meant(Sent + (j + 1) - 1)
      BY <1>4, <1>5, <2>1
    <2> QED BY <1>1, <2>1, <2>2 DEF Meant
  <1>7. \A w \in Word' : image'[w] = IF w \in First' .. First' + Count' - 1 THEN Meant(w - First)' ELSE before'[w]
    <2>1. ASSUME NEW w \in Word PROVE Meant(w - First)' = Meant(w - First)
      BY <1>1, <1>3 DEF Meant
    <2> QED BY <1>1, <1>3, <2>1 DEF Sending
  <1>8. /\ c'.op = "write" /\ c'.cmd = "CMD25" /\ busy' \in {None, "CMD25"}
        /\ First' + Count' <= Top' /\ dleft' \in 0 .. Count'
        /\ fifo' \in Seq(Int) /\ c'.p = Sent' + Len(fifo')
    <2>1. c.op = "write" /\ c.cmd = "CMD25" /\ busy \in {None, "CMD25"} /\ c.p = Sent + Len(fifo)
      BY DEF Sending
    <2>2. c.p = Sent' + Len(fifo') /\ dleft' \in 0 .. Count
      BY <1>1, <1>2, <1>3, <1>4, <2>1
    <2> QED BY <1>1, <1>2, <1>3, <1>4, <2>1, <2>2
  <1>9. /\ InBlock < W /\ InBlock <= Sent
        /\ \A j \in 1 .. InBlock : card.block[j] = Meant(Sent - InBlock + j - 1)
        /\ ~card.deaf => /\ \E k \in Nat : card.ptr = k * W
                         /\ card.ptr + InBlock = First + Sent
                         /\ \A w \in Word : card.mem[w] = IF w < card.ptr THEN image[w] ELSE before[w]
    BY <1>1 DEF Sending
  <1>10. card \in CardRecord /\ card.block \in Seq(Int)
    BY DEF Core, CardRecord
  <1>11. /\ Block \in Seq(Int) /\ Len(Block) = InBlock + 1
         /\ \A j \in 1 .. InBlock + 1 : Block[j] = Meant(Sent - InBlock + j - 1)
    <2>1. /\ Block \in Seq(Int) /\ Len(Block) = InBlock + 1 /\ Block[InBlock + 1] = fifo[1]
          /\ \A j \in 1 .. InBlock : Block[j] = card.block[j]
      BY <1>4, <1>10 DEF Block, InBlock
    <2>2. fifo[1] = Meant(Sent + 1 - 1)
      <3>1. 1 \in 1 .. Len(fifo)
        BY <1>2, <1>4
      <3> QED BY <1>5, <3>1
    <2>3. ASSUME NEW j \in 1 .. InBlock + 1 PROVE Block[j] = Meant(Sent - InBlock + j - 1)
      <3>1. CASE j \in 1 .. InBlock
        BY <1>9, <2>1, <3>1
      <3>2. CASE j = InBlock + 1
        <4>1. Sent - InBlock + j - 1 = Sent + 1 - 1
          BY <1>2, <3>2
        <4> QED BY <2>1, <2>2, <3>2, <4>1
      <3> QED BY <1>2, <3>1, <3>2
    <2> QED BY <2>1, <2>3
  <1> DEFINE OnCard == /\ InBlock < W /\ InBlock <= Sent
                       /\ \A j \in 1 .. InBlock : card.block[j] = Meant(Sent - InBlock + j - 1)
                       /\ ~card.deaf => /\ \E k \in Nat : card.ptr = k * W
                                        /\ card.ptr + InBlock = First + Sent
                                        /\ \A w \in Word : card.mem[w] = IF w < card.ptr THEN image[w] ELSE before[w]
  <1>12. CASE card' = [card EXCEPT !.block = Block] /\ Len(Block) < W
    <2>1. /\ card'.state = "rcv" /\ card'.block = Block /\ card'.deaf = card.deaf /\ card'.ptr = card.ptr
          /\ card'.mem = card.mem
      BY <1>1, <1>10, <1>12 DEF CardRecord
    <2>2. InBlock' = InBlock + 1 /\ InBlock' < W /\ InBlock' <= Sent'
      BY <1>2, <1>3, <1>9, <1>11, <1>12, <2>1 DEF InBlock
    <2>3. \A j \in 1 .. InBlock' : card'.block[j] = Meant(Sent - InBlock + j - 1)'
      <3> TAKE j \in 1 .. InBlock'
      <3>1. Sent - InBlock + j - 1 = Sent' - InBlock' + j - 1
        BY <1>2, <1>3, <2>2
      <3>2. Block[j] = Meant(Sent - InBlock + j - 1)
        BY <1>11, <2>2
      <3> QED BY <1>1, <2>1, <3>1, <3>2 DEF Meant
    <2>4. ASSUME card.ptr + InBlock = First + Sent PROVE card'.ptr + InBlock' = First' + Sent'
      <3>1. card'.ptr + InBlock' = card.ptr + (InBlock + 1) /\ First' + Sent' = First + (Sent + 1)
        BY <1>3, <2>1, <2>2, Zenon
      <3>2. card.ptr + (InBlock + 1) = First + (Sent + 1)
        BY <1>2, <2>4
      <3> QED BY <3>1, <3>2, Zenon
    <2>5. OnCard'
      BY <1>1, <1>3, <1>9, <2>1, <2>2, <2>3, <2>4
    <2> QED BY <1>6, <1>7, <1>8, <2>1, <2>5 DEF Sending
  <1>13. CASE card'.block = <<>> /\ card'.deaf /\ card'.state = "rcv"
    <2>1. InBlock' = 0
      BY <1>13 DEF InBlock
    <2>2. InBlock' < W /\ InBlock' <= Sent' /\ \A j \in 1 .. InBlock' : FALSE
      BY <1>2, <1>3, <2>1, SdConstants
    <2>3. OnCard'
      BY <1>13, <2>2
    <2> QED BY <1>6, <1>7, <1>8, <1>13, <2>3 DEF Sending
  <1>14. CASE card' = Stored /\ ~card.deaf /\ ~(Len(Block) < W)
    <2> DEFINE m == [w \in DOMAIN card.mem |-> IF w - card.ptr \in 0 .. W - 1
                                               THEN Block[w - card.ptr + 1] ELSE card.mem[w]]
    <2>1. card' = [card EXCEPT !.block = <<>>, !.ptr = card.ptr + W, !.mem = m]
      BY <1>10, <1>14 DEF Stored, CardRecord
    <2>2. DOMAIN card.mem = 0 .. Top
      BY <1>10 DEF CardRecord, Top
    <2> HIDE DEF m
    <2>3. /\ card'.state = "rcv" /\ card'.block = <<>> /\ ~card'.deaf /\ card'.ptr = card.ptr + W
          /\ card'.mem = m
      BY <1>1, <1>10, <1>14, <2>1 DEF CardRecord
    <2>4. InBlock + 1 = W
      BY <1>2, <1>9, <1>11, <1>14, SdConstants
    <2>5. InBlock' = 0 /\ card'.ptr + InBlock' = First' + Sent'
      <3>1. InBlock' = 0
        BY <2>3 DEF InBlock
      <3>2. card'.ptr + InBlock' = (card.ptr + W) + 0 /\ First' + Sent' = First + (Sent + 1)
        BY <1>3, <2>3, <3>1, Zenon
      <3>3. card.ptr + InBlock = First + Sent
        BY <1>9, <1>14, Zenon
      <3>4. (card.ptr + W) + 0 = First + (Sent + 1)
        BY <1>2, <2>4, <3>3, SdConstants
      <3> QED BY <3>1, <3>2, <3>4, Zenon
    <2>6. \E k \in Nat : card'.ptr = k * W
      <3>1. PICK k \in Nat : card.ptr = k * W
        BY <1>9, <1>14
      <3>2. k + 1 \in Nat /\ card'.ptr = (k + 1) * W
        BY <2>3, <3>1, SdConstants
      <3> QED BY <3>2
    <2>7. ASSUME NEW w \in Word
          PROVE  card'.mem[w] = IF w < card'.ptr THEN image'[w] ELSE before'[w]
      <3>1. w \in DOMAIN card.mem /\ w \in Int
        BY <2>2, SdConstants
      <3>2. m[w] = IF w - card.ptr \in 0 .. W - 1 THEN Block[w - card.ptr + 1] ELSE card.mem[w]
        BY <3>1 DEF m
      <3>3. CASE w - card.ptr \in 0 .. W - 1
        <4>1. w - card.ptr + 1 \in 1 .. InBlock + 1 /\ w < card'.ptr
          BY <1>2, <2>3, <2>4, <3>1, <3>3, SdConstants
        <4>2. Block[w - card.ptr + 1] = Meant(Sent - InBlock + (w - card.ptr + 1) - 1)
          BY <1>11, <4>1
        <4>3. card.ptr + InBlock = First + Sent
          BY <1>9, <1>14
        <4>4. Sent - InBlock + (w - card.ptr + 1) - 1 = w - First
          BY <1>2, <3>1, <4>3
        <4>5. w \in First .. First + Count - 1
          BY <1>2, <1>3, <1>9, <2>4, <3>1, <3>3, <4>3, SdConstants
        <4>6. image[w] = Meant(w - First)
          BY <4>5 DEF Sending
        <4> QED BY <1>1, <2>3, <3>2, <3>3, <4>1, <4>2, <4>4, <4>6
      <3>4. CASE w - card.ptr \notin 0 .. W - 1
        <4>1. card.mem[w] = IF w < card.ptr THEN image[w] ELSE before[w]
          BY <1>9, <1>14
        <4>2. w < card.ptr <=> w < card'.ptr
          BY <1>2, <2>3, <3>1, <3>4, SdConstants
        <4> QED BY <1>1, <2>3, <3>2, <3>4, <4>1, <4>2
      <3> QED BY <3>3, <3>4
    <2>8. InBlock' < W /\ InBlock' <= Sent' /\ \A j \in 1 .. InBlock' : FALSE
      BY <1>2, <1>3, <2>5, SdConstants
    <2>9. OnCard'
      BY <1>3, <2>5, <2>6, <2>7, <2>8
    <2> QED BY <1>6, <1>7, <1>8, <2>3, <2>9 DEF Sending
  <1>15. CASE Send
    <2>1. card' = IF Len(Block) < W THEN [card EXCEPT !.block = Block]
                  ELSE IF card.deaf THEN [card EXCEPT !.block = <<>>] ELSE Stored
      BY <1>15 DEF Send, Sends
    <2>2. card' = [card EXCEPT !.block = <<>>] /\ card.deaf => card'.block = <<>> /\ card'.deaf /\ card'.state = "rcv"
      BY <1>1, <1>10 DEF CardRecord
    <2> QED BY <1>12, <1>13, <1>14, <2>1, <2>2
  <1>16. CASE SendRefused
    <2>1. card' = [card EXCEPT !.block = <<>>, !.deaf = TRUE]
      BY <1>16 DEF SendRefused, Sends
    <2>2. card'.block = <<>> /\ card'.deaf /\ card'.state = "rcv"
      BY <1>1, <1>10, <2>1 DEF CardRecord
    <2> QED BY <1>13, <2>2
  <1> QED BY <1>15, <1>16

\* The caller hands over a word.
LEMMA SendingWritten ==
    ASSUME Core, Sending, WriteWord
    PROVE  Sending'
  <1>1. /\ fifo' = Append(fifo, Meant(c.p)) /\ card' = card /\ dleft' = dleft
        /\ image' = image /\ before' = before /\ calls' = calls /\ busy' = busy
    BY DEF WriteWord, regs, ghosts, images
  <1>2. /\ First \in Nat /\ Count \in Nat /\ Sent \in Nat /\ Sent <= Count /\ First + Count <= Top
        /\ InBlock \in Nat /\ card.ptr \in Nat /\ c.p \in Nat /\ Len(fifo) \in Nat
        /\ dleft = Count - Sent
    BY SendingNumbers
  <1>3. c'.op = c.op /\ c'.cmd = c.cmd /\ c'.addr = c.addr /\ c'.n = c.n /\ c'.p = c.p + 1
    BY WordWritten DEF Core
  <1>4. First' = First /\ Count' = Count /\ Top' = Top /\ Sent' = Sent /\ Word' = Word /\ InBlock' = InBlock
    BY <1>1, <1>3 DEF First, Count, Top, Sent, Word, InBlock
  <1>5. ASSUME NEW k \in Int PROVE calls' * Blocks * W + c'.addr * W + k = Meant(k)
    BY <1>1, <1>3 DEF Meant
  <1>6. Meant(c.p) \in Int
    BY <1>2, MeantInt DEF Core
  <1>7. /\ fifo \in Seq(Int) /\ fifo' \in Seq(Int) /\ Len(fifo') = Len(fifo) + 1
        /\ fifo'[Len(fifo) + 1] = Meant(c.p) /\ \A j \in 1 .. Len(fifo) : fifo'[j] = fifo[j]
        /\ c.p = Sent + Len(fifo)
    BY <1>1, <1>6 DEF Sending
  <1>8. \A j \in 1 .. Len(fifo') : fifo'[j] = Meant(Sent + j - 1)'
    <2> TAKE j \in 1 .. Len(fifo')
    <2>1. fifo'[j] = Meant(Sent + j - 1)
      <3>1. CASE j = Len(fifo) + 1
        <4>1. Sent + j - 1 = c.p
          BY <1>2, <1>7, <3>1
        <4> QED BY <1>7, <3>1, <4>1
      <3>2. CASE j \in 1 .. Len(fifo)
        BY <1>7, <3>2 DEF Sending
      <3> QED BY <1>7, <3>1, <3>2
    <2> QED BY <1>1, <1>3, <1>4, <2>1 DEF Meant
  <1>9. \A w \in Word' : image'[w] = IF w \in First' .. First' + Count' - 1 THEN Meant(w - First)' ELSE before'[w]
    <2>1. ASSUME NEW w \in Word PROVE Meant(w - First)' = Meant(w - First)
      BY <1>1, <1>3, <1>4 DEF Meant
    <2> QED BY <1>1, <1>4, <2>1 DEF Sending
  <1>10. /\ c'.op = "write" /\ c'.cmd = "CMD25" /\ busy' \in {None, "CMD25"}
         /\ First' + Count' <= Top' /\ dleft' \in 0 .. Count' /\ c'.p = Sent' + Len(fifo')
    <2>1. /\ c.op = "write" /\ c.cmd = "CMD25" /\ busy \in {None, "CMD25"}
          /\ First + Count <= Top /\ dleft \in 0 .. Count
      BY DEF Sending
    <2>2. c.p + 1 = Sent + Len(fifo')
      BY <1>2, <1>7
    <2> QED BY <1>1, <1>3, <1>4, <2>1, <2>2
  <1>11. card'.state # "rcv" => dleft' = Count' /\ \A w \in Word' : card'.mem[w] = before'[w]
    BY <1>1, <1>4 DEF Sending
  <1>12. CASE card.state = "rcv"
    <2>1. /\ InBlock < W /\ InBlock <= Sent
          /\ \A j \in 1 .. InBlock : card.block[j] = Meant(Sent - InBlock + j - 1)
          /\ ~card.deaf => /\ \E k \in Nat : card.ptr = k * W
                           /\ card.ptr + InBlock = First + Sent
                           /\ \A w \in Word : card.mem[w] = IF w < card.ptr THEN image[w] ELSE before[w]
      BY <1>12 DEF Sending
    <2>2. ASSUME NEW j \in 1 .. InBlock PROVE Meant(Sent - InBlock + j - 1)' = Meant(Sent - InBlock + j - 1)
      BY <1>1, <1>3, <1>4 DEF Meant
    <2>3. \A j \in 1 .. InBlock' : card'.block[j] = Meant(Sent - InBlock + j - 1)'
      BY <1>1, <1>4, <2>1, <2>2
    <2>4. ~card'.deaf => /\ \E k \in Nat : card'.ptr = k * W
                         /\ card'.ptr + InBlock' = First' + Sent'
                         /\ \A w \in Word' : card'.mem[w] = IF w < card'.ptr THEN image'[w] ELSE before'[w]
      BY <1>1, <1>4, <2>1
    <2>5. InBlock' < W /\ InBlock' <= Sent'
      BY <1>4, <2>1
    <2> QED BY <1>7, <1>8, <1>9, <1>10, <1>11, <2>3, <2>4, <2>5 DEF Sending
  <1>13. CASE card.state # "rcv"
    BY <1>1, <1>7, <1>8, <1>9, <1>10, <1>11, <1>13 DEF Sending
  <1> QED BY <1>12, <1>13

\* What a write is about is kept by every step until it is switched off.
LEMMA SendStep ==
    ASSUME SdInv, SdAlways, [Next]_vars
    PROVE  SendInv'
  <1> SUFFICES ASSUME dmode' = "tx" PROVE Sending'
    BY DEF SendInv
  <1>1. Core /\ SendInv
    BY DEF SdAlways
  <1>2. ASSUME NEW a \in 0 .. Blocks - 1, NEW n \in 1 .. Blocks, ReadStart(a, n) \/ WriteStart(a, n)
        PROVE  Sending'
    <2>1. a \in Nat /\ n \in Nat
      BY SdConstants
    <2>2. ~ReadStart(a, n)
      BY DEF ReadStart, SetUp
    <2> QED BY <1>2, <2>1, <2>2, SendingStarts
  <1>3. CASE ~(\E a \in 0 .. Blocks - 1, n \in 1 .. Blocks : ReadStart(a, n) \/ WriteStart(a, n))
    <2>1. ~SdiInit
      BY BeginsFacts DEF SdiInit
    <2>2. ~SwitchOff
      BY DEF SwitchOff
    <2>3. Sending
      <3>1. dmode' = dmode
        BY <1>3, <2>1, <2>2 DEF Next, Calls, Code, Card, Data, vars, data, Issue, InitCommand, Opened, Closed,
              GiveUp, CheckStatus, TakeWord, WriteWord, Answer, NoAnswer, SpoiltAnswer, Program, Receive,
              ReceiveBad, Arrives, Report, Send, SendRefused, Sends
      <3> QED BY <1>1, <3>1 DEF SendInv
    <2>4. /\ c.op = "write" /\ c.cmd = "CMD25" /\ busy \in {None, "CMD25"} /\ dmode = "tx"
      <3>1. dmode = "tx"
        BY <1>3, <2>1, <2>2 DEF Next, Calls, Code, Card, Data, vars, data, Issue, InitCommand, Opened, Closed,
              GiveUp, CheckStatus, TakeWord, WriteWord, Answer, NoAnswer, SpoiltAnswer, Program, Receive,
              ReceiveBad, Arrives, Report, Send, SendRefused, Sends
      <3> QED BY <2>3, <3>1 DEF Sending
    <2>5. ~InitCommand /\ ~Closed /\ ~GiveUp /\ ~CheckStatus /\ ~TakeWord /\ ~Receive /\ ~ReceiveBad /\ ~Report
      BY <1>1, <2>4 DEF InitCommand, Closed, Ended, GiveUp, CheckStatus, TakeWord, Core, Receive, ReceiveBad,
                        Arrives, Report
    <2>6. CASE Issue \/ Opened
      <3>1. c \in Operation
        BY <1>1 DEF Core
      <3>2. c'.op = c.op /\ c'.cmd = c.cmd /\ c'.addr = c.addr /\ c'.n = c.n /\ c'.p = c.p
        <4>1. c' = [c EXCEPT !.at = "wait"] \/ c' = [c EXCEPT !.at = "words"] \/ c' = Issuing(c, c.cmd)
          BY <2>6 DEF Issue, Opened
        <4>2. c.cmd \in Command \cup {None}
          BY <3>1 DEF Operation
        <4> QED BY <3>1, <4>1, <4>2, IssuingIs DEF Operation
      <3>3. /\ UNCHANGED <<fifo, dleft, images, calls>> /\ card' = card /\ busy' \in {None, "CMD25"}
        BY <2>4, <2>6 DEF Issue, Opened, Ended, data, ghosts
      <3> QED BY <2>3, <3>2, <3>3, SendingRests
    <2>7. CASE WriteWord
      BY <1>1, <2>3, <2>7, SendingWritten
    <2>8. CASE Card
      <3>1. UNCHANGED <<fifo, dleft, images, calls, c>> /\ busy' = None
        BY <2>8 DEF Card, Answer, NoAnswer, SpoiltAnswer, data
      <3>2. card' = card \/ (busy # None /\ Taken(busy) /\ card' = TakenCard(busy))
        BY <2>8 DEF Card, Answer, NoAnswer, SpoiltAnswer
      <3>3. CASE card' = card
        BY <2>3, <3>1, <3>3, SendingRests
      <3> QED BY <1>1, <2>3, <3>1, <3>2, <3>3, SendingTaken
    <2>9. CASE Program
      <3>1. card' = [card EXCEPT !.state = "tran"] /\ card.state = "prg"
        BY <2>9 DEF Program
      <3>2. card'.mem = card.mem /\ card.state # "rcv" /\ card'.state # "rcv"
        BY <1>1, <3>1 DEF Core, CardRecord
      <3>3. UNCHANGED <<fifo, dleft, images, calls, c, busy>>
        BY <2>9 DEF Program, data, ghosts, regs
      <3> QED BY <2>3, <2>4, <3>2, <3>3, SendingRests
    <2>10. CASE Send \/ SendRefused
      BY <1>1, <2>3, <2>10, SendingSent
    <2>11. CASE UNCHANGED vars
      <3>1. UNCHANGED <<fifo, dleft, images, calls, c, busy, card>>
        BY <2>11 DEF vars, data, ghosts, regs
      <3> QED BY <2>3, <2>4, <3>1, SendingRests
    <2> QED BY <1>3, <2>1, <2>2, <2>5, <2>6, <2>7, <2>8, <2>9, <2>10, <2>11 DEF Next, Calls, Code, Data
  <1> QED BY <1>2, <1>3


\* The card keeps the first blocks of a write, and lacks no others.
LEMMA LostStep ==
    ASSUME SdInv, SdAlways, Core', SendInv', [Next]_vars
    PROVE  LostAtEnd'
  <1>1. Core /\ SendInv /\ LostAtEnd
    BY DEF SdAlways
  <1>2. Word' = Word
    BY DEF Word
  <1>3. CASE card'.mem = card.mem /\ UNCHANGED images
    <2>1. PICK k \in 0 .. Blocks : \A w \in Word : card.mem[w] = IF w < k * W THEN image[w] ELSE before[w]
      BY <1>1 DEF LostAtEnd
    <2>2. \A w \in Word' : card'.mem[w] = IF w < k * W THEN image'[w] ELSE before'[w]
      BY <1>2, <1>3, <2>1 DEF images
    <2> QED BY <2>2 DEF LostAtEnd
  <1>4. ASSUME NEW a \in 0 .. Blocks - 1, NEW n \in 1 .. Blocks, WriteStart(a, n)
        PROVE  LostAtEnd'
    <2>1. before' = image /\ card' = card /\ \A w \in Word : card.mem[w] = image[w]
      BY <1>4, BeginsFacts DEF WriteStart, SetUp
    <2>2. 0 \in 0 .. Blocks /\ \A w \in Word : ~(w < 0 * W)
      BY SdConstants
    <2> QED BY <1>2, <2>1, <2>2 DEF LostAtEnd
  <1>5. CASE Send
    <2>1. /\ dmode = "tx" /\ dmode' = "tx" /\ card.state = "rcv" /\ UNCHANGED images
          /\ card' = IF Len(Block) < W THEN [card EXCEPT !.block = Block]
                     ELSE IF card.deaf THEN [card EXCEPT !.block = <<>>] ELSE Stored
      BY <1>5 DEF Send, Sends
    <2>2. Sending /\ Sending' /\ card \in CardRecord /\ fifo \in Seq(Int)
      BY <1>1, <2>1 DEF SendInv, Core, Sending
    <2>3. CASE Len(Block) < W \/ card.deaf
      <3>1. card'.mem = card.mem
        BY <2>1, <2>2, <2>3 DEF CardRecord
      <3> QED BY <1>3, <2>1, <3>1
    <2>4. CASE ~(Len(Block) < W \/ card.deaf)
      <3>1. card'.state = "rcv" /\ ~card'.deaf
        BY <1>5, <2>1, <2>2, <2>4, CardSent
      <3>2. PICK k \in Nat : card'.ptr = k * W
        BY <2>2, <3>1 DEF Sending
      <3>3. /\ card'.ptr + InBlock' = First' + Sent'
            /\ \A w \in Word' : card'.mem[w] = IF w < card'.ptr THEN image'[w] ELSE before'[w]
        BY <2>2, <3>1 DEF Sending
      <3>4. /\ First' \in Nat /\ Count' \in Nat /\ First' + Count' <= Top' /\ dleft' \in 0 .. Count'
            /\ InBlock' \in Nat /\ card'.ptr \in Nat /\ Top' = Top
        <4>1. c' \in Operation /\ card' \in CardRecord
          BY DEF Core
        <4>2. First' \in Nat /\ Count' \in Nat
          BY <4>1, SdConstants DEF Operation, First, Count
        <4>3. InBlock' \in Nat /\ card'.ptr \in Nat
          BY <4>1 DEF CardRecord, InBlock
        <4> QED BY <2>2, <4>2, <4>3 DEF Sending, Top
      <3>5. Sent' = Count' - dleft'
        BY DEF Sent
      <3>6. card'.ptr <= Top
        <4>1. card'.ptr + InBlock' = First' + (Count' - dleft')
          BY <3>3, <3>5, Zenon
        <4>2. /\ First' \in Nat /\ Count' \in Nat /\ First' + Count' <= Top /\ dleft' \in 0 .. Count'
              /\ InBlock' \in Nat /\ card'.ptr \in Nat
          BY <3>4, Zenon
        <4>3. ASSUME NEW p \in Nat, NEW b \in Nat, NEW f \in Nat, NEW n \in Nat, NEW d \in 0 .. n, NEW t \in Nat,
                     p + b = f + (n - d), f + n <= t
              PROVE  p <= t
          BY <4>3
        <4>4. Top \in Nat
          BY SdConstants
        <4> QED BY <4>1, <4>2, <4>3, <4>4, Zenon
      <3>7. k \in 0 .. Blocks
        <4>1. k * W <= Top
          BY <3>2, <3>6
        <4> QED BY <4>1, BlocksBelow, SdConstants
      <3>8. \A w \in Word' : card'.mem[w] = IF w < k * W THEN image'[w] ELSE before'[w]
        BY <3>2, <3>3
      <3> QED BY <3>7, <3>8 DEF LostAtEnd
    <2> QED BY <2>3, <2>4
  <1>6. CASE ~Send /\ ~(\E a \in 0 .. Blocks - 1, n \in 1 .. Blocks : WriteStart(a, n))
    <2>1. card'.mem = card.mem
      BY <1>1, <1>6, CardIs
    <2>2. UNCHANGED images
      BY <1>6 DEF Next, Calls, Code, Card, Data, vars, ghosts, SdiInit, ReadStart, Issue,
             InitCommand, Opened, Closed, GiveUp, CheckStatus, TakeWord, WriteWord, SwitchOff, Answer, NoAnswer,
             SpoiltAnswer, Program, Receive, ReceiveBad, Arrives, Report, Send, SendRefused, Sends
    <2> QED BY <1>3, <2>1, <2>2
  <1> QED BY <1>4, <1>5, <1>6

-----------------------------------------------------------------------------
(* What a read has delivered                                               *)

\* Steps that leave a read that has ended alone
LEMMA ReadEndsRests ==
    ASSUME ReadEnds, c.op = "read", c.cmd = "CMD12",
           c'.op = c.op, c'.cmd = c.cmd, c'.addr = c.addr, c'.n = c.n, c'.buf = c.buf,
           c'.at \in {"issue", "wait"}, image' = image, breach \subseteq breach'
    PROVE  ReadEnds'
  <1>1. Count' = Count /\ First' = First
    BY DEF Count, First
  <1>2. Len(c.buf) = Count /\ Delivered(Count - W) /\ ("late" \notin breach => Delivered(Count))
    BY DEF ReadEnds
  <1>3. Delivered(Count - W)' /\ ("late" \notin breach' => Delivered(Count)')
    BY <1>1, <1>2 DEF Delivered
  <1> QED BY <1>1, <1>2, <1>3 DEF ReadEnds

\* The read loop has ended: every word is right, or every word but those of the
\* last block.
LEMMA ReadSwitchedOff ==
    ASSUME SdInv, Core, ReadEnds, SwitchOff, c.op = "read"
    PROVE  ReadEnds'
  <1>1. /\ c.at = "words" /\ c.i = Count /\ c' = Issuing(c, "CMD12") /\ image' = image
        /\ breach' = breach \cup Only("late", Late) \cup Only("cut", Cut)
    BY DEF SwitchOff, images, Count
  <1>2. SdState
    BY <1>1, ReadOpen
  <1>3. Open /\ c \in Operation
    BY <1>1, <1>2, WordsMove
  <1>4. /\ ReadInStep /\ First \in Nat /\ Count \in Nat /\ Len(fifo) \in Nat /\ dleft \in Nat
        /\ c.i + Len(fifo) = Count - dleft /\ First + Count <= Top
        /\ \A w \in Word : card.mem[w] = image[w]
    BY <1>2, <1>3, WordsOnTheWay
  <1>5. dleft = 0 /\ Count - dleft = Count
    BY <1>1, <1>4
  <1>6. ASSUME NEW m \in Int, m <= Count, Right(m)
        PROVE  \A k \in 1 .. m : c.buf[k] = image[First + k - 1]
    <2> TAKE k \in 1 .. m
    <2>1. Got(k) = card.mem[First + k - 1]
      BY <1>6 DEF Right
    <2>2. First + k - 1 \in Word
      BY <1>4, <1>6, SdConstants
    <2>3. k <= c.i
      BY <1>1, <1>4, <1>6
    <2> QED BY <1>4, <2>1, <2>2, <2>3 DEF Got
  <1>7. Clean => Right(Count)
    BY <1>3, <1>4, <1>5 DEF ReadInStep
  <1>8. Right(Count - W)
    <2>1. CASE Clean
      <3>1. \A q \in 1 .. Count - W : q \in 1 .. Count
        BY <1>4, SdConstants
      <3> QED BY <1>7, <2>1, <3>1 DEF Right
    <2>2. CASE spoilt /\ dsta = {}
      <3>1. dleft < W
        BY <1>5, SdConstants
      <3> QED BY <1>3, <1>4, <2>2, <3>1 DEF ReadInStep
    <2>3. CASE dsta # {}
      <3>1. c.i > Count - W
        BY <1>1, <1>4, SdConstants
      <3> QED BY <1>1, <1>3, <1>4, <2>3, <3>1 DEF ReadInStep
    <2> QED BY <2>1, <2>2, <2>3 DEF Clean
  <1>9. "late" \notin breach' => Clean
    <2>1. dsta \subseteq {"bad"}
      BY <1>2 DEF SdState, SdTypes
    <2> QED BY <1>1, <2>1 DEF Only, Late, Clean
  <1>10. /\ c'.op = "read" /\ c'.cmd = "CMD12" /\ c'.at = "issue" /\ c'.addr = c.addr /\ c'.n = c.n
         /\ c'.buf = c.buf
    <2>1. "CMD12" \in Command \cup {None}
      BY CommandNames DEF Commands
    <2> QED BY <1>1, <1>3, <2>1, IssuingIs
  <1>11. Count' = Count /\ First' = First /\ Len(c'.buf) = Count
    BY <1>1, <1>4, <1>10 DEF Count, First, ReadInStep
  <1>12. ASSUME NEW m \in Int, m <= Count, Right(m)
         PROVE  \A k \in 1 .. m : c'.buf[k] = image'[c'.addr * W + k - 1]
    BY <1>1, <1>6, <1>10, <1>12 DEF First
  <1>13. \A k \in 1 .. Count' - W : c'.buf[k] = image'[c'.addr * W + k - 1]
    <2>1. Count - W \in Int /\ Count - W <= Count
      BY <1>4, SdConstants
    <2> QED BY <1>8, <1>11, <1>12, <2>1
  <1>14. "late" \notin breach' => \A k \in 1 .. Count' : c'.buf[k] = image'[c'.addr * W + k - 1]
    <2>1. Count \in Int /\ Count <= Count
      BY <1>4
    <2> QED BY <1>7, <1>9, <1>11, <1>12, <2>1
  <1> QED BY <1>10, <1>11, <1>13, <1>14 DEF ReadEnds, Delivered

\* A read whose CMD18 was taken and whose answer was lost waits for ever.
LEMMA ReadStuck ==
    ASSUME Core, ReadEnds, [Next]_vars, c.op = "read", c.cmd = "CMD18", breach # {}
    PROVE  ReadEnds'
  <1>1. /\ c.at \in {"issue", "wait"} /\ card.state = "data" /\ busy \in {None, "CMD18"}
        /\ csta \subseteq {"timeout"} /\ c \in Operation /\ card \in CardRecord /\ "CMD18" \in Command
    BY CommandNames DEF ReadEnds, Core, Commands
  <1>2. c.at # "idle" /\ c.at # "words" /\ c.at # "take" /\ breach # {}
    BY <1>1
  <1>3. ~Calls /\ ~InitCommand /\ ~Closed /\ ~GiveUp /\ ~CheckStatus /\ ~TakeWord /\ ~WriteWord /\ ~SwitchOff
        /\ ~Program /\ ~Send /\ ~SendRefused
    BY <1>1, <1>2 DEF Calls, SdiInit, ReadStart, WriteStart, SetUp, Begins, InitCommand, Closed, Ended, GiveUp,
                      CheckStatus, TakeWord, WriteWord, SwitchOff, Program, Send, SendRefused, Sends
  <1>4. ~Answer /\ ~SpoiltAnswer
    <2>1. ASSUME busy = "CMD18" PROVE ~Taken(busy)
      BY <1>1, <2>1 DEF Taken, Takes
    <2> QED BY <1>1, <2>1 DEF Answer, SpoiltAnswer
  <1>5. ASSUME c'.op = "read", c'.cmd = "CMD18", c'.at \in {"issue", "wait"}, card'.state = "data",
               busy' \in {None, "CMD18"}, csta' \subseteq {"timeout"}
        PROVE  ReadEnds'
    BY <1>5 DEF ReadEnds
  <1>6. CASE Issue
    <2>1. c' = [c EXCEPT !.at = "wait"] /\ busy' = "CMD18" /\ card' = card /\ csta' = csta
      BY <1>6 DEF Issue
    <2>2. c'.op = "read" /\ c'.cmd = "CMD18" /\ c'.at = "wait"
      BY <1>1, <2>1 DEF Operation
    <2> QED BY <1>1, <1>5, <2>1, <2>2
  <1>7. CASE Opened
    <2>1. csta = {"timeout"} /\ csta' = {} /\ busy' = busy /\ card' = card
      BY <1>1, <1>7 DEF Opened, Ended
    <2>2. c' = Issuing(c, "CMD18")
      BY <1>7, <2>1 DEF Opened, Succeeded
    <2>3. c'.op = "read" /\ c'.cmd = "CMD18" /\ c'.at = "issue"
      BY <1>1, <2>2, IssuingIs
    <2> QED BY <1>1, <1>5, <2>1, <2>3
  <1>8. CASE NoAnswer
    <2>1. busy = "CMD18"
      BY <1>1, <1>8 DEF NoAnswer
    <2>2. csta' = csta \cup {"timeout"} /\ busy' = None /\ card' = card /\ c' = c
      BY <1>8, <2>1 DEF NoAnswer
    <2> QED BY <1>1, <1>5, <2>2
  <1>9. CASE Receive \/ ReceiveBad
    <2>1. card' = [card EXCEPT !.ptr = @ + 1] /\ c' = c /\ busy' = busy /\ csta' = csta
      BY <1>9 DEF Receive, ReceiveBad, Arrives, regs
    <2>2. card'.state = card.state
      BY <1>1, <2>1 DEF CardRecord
    <2> QED BY <1>1, <1>5, <2>1, <2>2
  <1>10. CASE Report \/ UNCHANGED vars
    <2>1. card' = card /\ c' = c /\ busy' = busy /\ csta' = csta
      BY <1>10 DEF Report, vars, regs
    <2> QED BY <1>1, <1>5, <2>1
  <1> QED BY <1>3, <1>4, <1>6, <1>7, <1>8, <1>9, <1>10 DEF Next, Code, Card, Data

LEMMA ReadEndsStep ==
    ASSUME SdInv, SdAlways, [Next]_vars
    PROVE  ReadEnds'
  <1>1. Core /\ SendInv /\ ReadEnds /\ c \in Operation
    BY DEF SdAlways, Core
  <1>2. ASSUME c'.op # "read" PROVE ReadEnds'
    BY <1>2 DEF ReadEnds
  <1>3. ASSUME c'.op = "read", c'.cmd = "CMD18", breach' = {} PROVE ReadEnds'
    BY <1>3 DEF ReadEnds
  <1>4. CASE SdiInit
    <2>1. c'.op = "init"
      BY <1>4 DEF SdiInit, Issuing, Idle
    <2> QED BY <1>2, <2>1
  <1>5. ASSUME NEW a \in 0 .. Blocks - 1, NEW n \in 1 .. Blocks, ReadStart(a, n)
        PROVE  ReadEnds'
    <2>1. breach' = {} /\ c' = Issuing([Idle EXCEPT !.op = "read", !.addr = a, !.n = n], "CMD18")
      BY <1>5 DEF ReadStart, SetUp, Begins
    <2>2. c'.op = "read" /\ c'.cmd = "CMD18"
      BY <2>1 DEF Issuing, Idle
    <2> QED BY <1>3, <2>1, <2>2
  <1>6. ASSUME NEW a \in 0 .. Blocks - 1, NEW n \in 1 .. Blocks, WriteStart(a, n)
        PROVE  ReadEnds'
    <2>1. c' = Issuing([Idle EXCEPT !.op = "write", !.addr = a, !.n = n], "CMD25")
      BY <1>6 DEF WriteStart, SetUp
    <2>2. c'.op = "write"
      BY <2>1 DEF Issuing, Idle
    <2> QED BY <1>2, <2>2
  <1>7. CASE c.op # "read" /\ ~Calls
    <2>1. c'.op = c.op \/ c' = Idle
      <3>1. CASE Card \/ Program \/ Data \/ UNCHANGED vars
        BY <3>1 DEF Card, Program, Data, vars, Answer, NoAnswer, SpoiltAnswer, Receive, ReceiveBad, Arrives,
                    Report, Send, SendRefused, Sends
      <3>2. CASE InitCommand
        <4>1. c' = NextCommand /\ c.cmd \in Command \ {"CMD18", "CMD25", "CMD12"}
          BY <3>2 DEF InitCommand, Ended
        <4>2. ASSUME NEW k \in Command, NEW t \in Nat,
                     NextCommand = [c EXCEPT !.at = "issue", !.cmd = k, !.tries = t]
              PROVE  c'.op = c.op
          BY <1>1, <4>1, <4>2 DEF Operation
        <4> QED BY <1>1, <4>1, <4>2, NextCommandIs
      <3>3. CASE Issue \/ Opened \/ Closed \/ SwitchOff
        <4>1. \/ c' \in {[c EXCEPT !.at = "wait"], [c EXCEPT !.at = "words"]}
              \/ \E k \in {c.cmd, "CMD12"} : c' = Issuing(c, k)
              \/ c' = Idle
          BY <3>3 DEF Issue, Opened, Closed, SwitchOff
        <4>2. c.cmd \in Command \cup {None} /\ "CMD12" \in Command
          BY <1>1, CommandNames DEF Operation, Commands
        <4> QED BY <1>1, <4>1, <4>2, IssuingIs DEF Operation
      <3>4. CASE GiveUp
        BY <3>4 DEF GiveUp
      <3>5. CASE CheckStatus \/ TakeWord
        BY <1>1, <1>7, <3>5 DEF CheckStatus, TakeWord, Core
      <3>6. CASE WriteWord
        BY <1>1, <3>6, WordWritten
      <3> QED BY <1>7, <3>1, <3>2, <3>3, <3>4, <3>5, <3>6 DEF Next, Code
    <2> QED BY <1>2, <1>7, <2>1, IdleIs, CommandNames
  <1>8. CASE c.op = "read" /\ c.cmd = "CMD12" /\ ~Calls
    <2>1. c.at \in {"issue", "wait"}
      BY <1>1, <1>8 DEF ReadEnds
    <2>2. ~InitCommand /\ ~Opened /\ ~GiveUp /\ ~CheckStatus /\ ~TakeWord /\ ~WriteWord /\ ~SwitchOff
      BY <1>8, <2>1 DEF InitCommand, Opened, Ended, GiveUp, CheckStatus, TakeWord, WriteWord, SwitchOff
    <2>3. CASE c' = Idle
      BY <1>2, <2>3, IdleIs, CommandNames
    <2>4. CASE c' # Idle
      <3>1. c' \in {c, [c EXCEPT !.at = "wait"], Issuing(c, "CMD12")}
        BY <1>8, <2>2, <2>4 DEF Next, Code, Card, Data, vars, Issue, Closed, Program, Answer, NoAnswer, SpoiltAnswer,
                         Receive, ReceiveBad, Arrives, Report, Send, SendRefused, Sends
      <3>2. /\ c'.op = c.op /\ c'.cmd = c.cmd /\ c'.addr = c.addr /\ c'.n = c.n /\ c'.buf = c.buf
            /\ c'.at \in {"issue", "wait"}
        <4>1. "CMD12" \in Command \cup {None}
          BY CommandNames DEF Commands
        <4> QED BY <1>1, <1>8, <2>1, <3>1, <4>1, IssuingIs DEF Operation
      <3>3. image' = image /\ breach \subseteq breach'
        BY <1>8, <2>2 DEF Next, Code, Card, Data, vars, ghosts, images, Issue, Closed, Program, Answer, NoAnswer,
                   SpoiltAnswer, Receive, ReceiveBad, Arrives, Report, Send, SendRefused, Sends
      <3> QED BY <1>1, <1>8, <3>2, <3>3, ReadEndsRests
    <2> QED BY <2>3, <2>4
  <1>9. CASE c.op = "read" /\ c.cmd = "CMD18" /\ breach = {} /\ ~Calls
    <2>1. SdState
      BY <1>9 DEF SdInv
    <2>2. ~InitCommand /\ ~Closed /\ ~WriteWord /\ ~SendRefused
      <3>1. dmode # "tx"
        BY <1>1, <1>9 DEF SendInv, Sending
      <3> QED BY <1>9, <3>1 DEF InitCommand, Closed, Ended, WriteWord, SendRefused, Sends
    <2>3. CASE SwitchOff
      BY <1>1, <1>9, <2>3, ReadSwitchedOff
    <2>4. CASE GiveUp
      BY <1>2, <2>4, IdleIs, CommandNames DEF GiveUp
    <2>5. CASE SpoiltAnswer
      <3>1. busy # None /\ c' = c /\ Taken(busy) /\ card' = TakenCard(busy) /\ busy' = None
        BY <2>5 DEF SpoiltAnswer
      <3>2. c.at = "wait" /\ busy = "CMD18" /\ csta = {}
        BY <1>9, <2>1, <3>1 DEF SdState, InStep
      <3>3. card'.state = "data"
        BY <1>1, <3>1, <3>2, TakenIs
      <3>4. CASE breach' = breach
        BY <1>3, <1>9, <3>1, <3>4
      <3>5. CASE csta' = csta \cup {"timeout"}
        BY <1>9, <3>1, <3>2, <3>3, <3>5 DEF ReadEnds
      <3> QED BY <2>5, <3>4, <3>5 DEF SpoiltAnswer
    <2>6. CASE Issue \/ Opened \/ CheckStatus \/ TakeWord
      <3>1. breach' = {}
        BY <1>9, <2>6 DEF Issue, Opened, CheckStatus, TakeWord, ghosts
      <3>2. c'.op = "read" /\ c'.cmd = "CMD18"
        <4>1. CASE Issue \/ Opened \/ CheckStatus
          <5>1. \/ c' \in {[c EXCEPT !.at = "wait"], [c EXCEPT !.at = "words"], [c EXCEPT !.at = "take"]}
                \/ c' = Issuing(c, c.cmd)
            BY <4>1 DEF Issue, Opened, CheckStatus
          <5>2. c.cmd \in Command \cup {None}
            BY <1>1 DEF Operation
          <5> QED BY <1>1, <1>9, <5>1, <5>2, IssuingIs DEF Operation
        <4>2. CASE TakeWord /\ fifo = <<>>
          <5>1. c' = [c EXCEPT !.at = "words"]
            BY <4>2 DEF TakeWord
          <5> QED BY <1>1, <1>9, <5>1 DEF Operation
        <4>3. CASE TakeWord /\ fifo # <<>>
          BY <1>1, <1>9, <2>1, <4>3, CallWords, WordTaken
        <4> QED BY <2>6, <4>1, <4>2, <4>3
      <3> QED BY <1>3, <3>1, <3>2
    <2>7. CASE Answer \/ NoAnswer \/ Program \/ Receive \/ ReceiveBad \/ Report \/ Send \/ UNCHANGED vars
      <3>1. c' = c /\ breach' = breach
        BY <2>7 DEF vars, ghosts, Answer, NoAnswer, Program, Receive, ReceiveBad, Arrives, Report, Send, Sends
      <3> QED BY <1>3, <1>9, <3>1
    <2> QED BY <1>9, <2>2, <2>3, <2>4, <2>5, <2>6, <2>7 DEF Next, Code, Card, Data
  <1>10. CASE c.op = "read" /\ c.cmd = "CMD18" /\ breach # {}
    BY <1>1, <1>10, ReadStuck
  <1>11. c.op = "read" => c.cmd \in {"CMD18", "CMD12"}
    BY <1>1 DEF ReadEnds
  <1> QED BY <1>4, <1>5, <1>6, <1>7, <1>8, <1>9, <1>10, <1>11 DEF Calls

-----------------------------------------------------------------------------
(* The two invariants, and what they give                                  *)

LEMMA BreachStays ==
    ASSUME [Next]_vars, breach' = {}
    PROVE  breach = {} /\ ~GiveUp /\ ~SendRefused
  <1>1. breach = {}
    BY DEF Next, Calls, Code, Card, Data, vars, ghosts, SdiInit, ReadStart, WriteStart, SetUp, Begins, Issue,
           InitCommand, Opened, Closed, GiveUp, CheckStatus, TakeWord, WriteWord, SwitchOff, Answer, NoAnswer,
           SpoiltAnswer, Program, Receive, ReceiveBad, Arrives, Report, Send, SendRefused, Sends
  <1> QED BY <1>1 DEF GiveUp, SendRefused

LEMMA SdStep ==
    ASSUME SdInv, SdAlways, [Next]_vars
    PROVE  SdInv'
  <1> SUFFICES ASSUME breach' = {} PROVE SdState'
    BY DEF SdInv
  <1>1. SdState /\ SendInv /\ ~GiveUp /\ ~SendRefused
    BY BreachStays DEF SdInv, SdAlways
  <1>2. CASE UNCHANGED vars
    BY <1>1, <1>2, StutterKeeps
  <1>3. CASE SdiInit
    BY <1>1, <1>3, SdiInitKeeps
  <1>4. ASSUME NEW a \in 0 .. Blocks - 1, NEW n \in 1 .. Blocks, ReadStart(a, n) \/ WriteStart(a, n)
        PROVE  SdState'
    <2>1. a \in Nat /\ n \in Nat
      BY SdConstants
    <2> QED BY <1>1, <1>4, <2>1, ReadStartKeeps, WriteStartKeeps
  <1>5. CASE Code
    BY <1>1, <1>5, IssueKeeps, InitCommandKeeps, OpenedKeeps, ClosedKeeps, CheckStatusKeeps, TakeWordKeeps,
       WriteWordKeeps, SwitchOffKeeps DEF Code
  <1>6. CASE Card
    BY <1>1, <1>6, AnswerKeeps DEF Card
  <1>7. CASE Program
    BY <1>1, <1>7, ProgramKeeps
  <1>8. CASE Data
    BY <1>1, <1>8, ReceiveKeeps, ReportKeeps, SendKeeps DEF Data
  <1> QED BY <1>2, <1>3, <1>4, <1>5, <1>6, <1>7, <1>8 DEF Next, Calls

LEMMA AlwaysStep ==
    ASSUME SdInv, SdAlways, [Next]_vars
    PROVE  SdAlways'
  <1>1. Core' /\ SendInv' /\ ReadEnds'
    BY CoreStep, SendStep, ReadEndsStep
  <1> QED BY <1>1, LostStep DEF SdAlways

\* Caller, controller and card stay in step, whatever is lost or spoilt, until
\* one of the cases of breach comes up; and behind it the words of a write, and
\* those a read has brought, are still where they should be.
THEOREM InStepAlways == Spec => [](SdInv /\ SdAlways)
  <1>1. Init => SdInv /\ SdAlways
    BY SdInit, AlwaysInit DEF SdInv
  <1>2. SdInv /\ SdAlways /\ [Next]_vars => SdInv' /\ SdAlways'
    BY SdStep, AlwaysStep
  <1> QED BY <1>1, <1>2, PTL DEF Spec

\* Between calls, if none of the cases of breach has come up, an initialised card
\* is in its transfer state or still programs what it received, sdi_init knows
\* the address it has, and driver and card agree on the data lines.
THEOREM SdCardReady == Spec => []CardReady
  <1>1. SdInv => CardReady
    BY IdleFacts DEF SdInv, CardReady, Ready, Selected, Agreed
  <1> QED BY <1>1, InStepAlways, PTL

\* Between calls, if none of the cases of breach has come up, the card holds what
\* the calls of sd_write_sector gave it, and nothing else has changed.  One of the
\* cases is that of a FIFO with words in it when the transmission is switched off,
\* and the code does nothing to keep out of it.
THEOREM SdWriteTrue == Spec => []WriteTrue
  <1>1. SdInv => WriteTrue
    BY IdleFacts DEF SdInv, WriteTrue, Ready
  <1> QED BY <1>1, InStepAlways, PTL

\* At every step, and whatever has gone wrong, words cut off and blocks refused
\* included, the card has whole blocks of the last write up to some block and
\* what it had before from there on.
THEOREM SdLostAtEnd == Spec => []LostAtEnd
  <1>1. SdAlways => LostAtEnd
    BY DEF SdAlways
  <1> QED BY <1>1, InStepAlways, PTL

\* A read that returns 0 has as many words as were asked for; those before the
\* last block are what the card holds, and so are those of the last block unless
\* its error came too late to be seen.
THEOREM SdReadTrue == Spec => ReadTrue
  <1> DEFINE Delivers == ReadReturns => /\ Len(c.buf) = c.n * W
                                        /\ Delivered(c.n * W - W)
                                        /\ "late" \notin breach => Delivered(c.n * W)
  <1>1. SdAlways => Delivers
    BY DEF SdAlways, ReadEnds, ReadReturns, Count
  <1>2. SdAlways /\ [Next]_vars => [Delivers]_vars
    BY <1>1
  <1> QED BY <1>2, InStepAlways, PTL DEF Spec, ReadTrue
=============================================================================
