------------------------------- MODULE SdCard -------------------------------
(***************************************************************************)
(* The SD card driver drivers/sd.c: sdi_init, sd_read_sector and           *)
(* sd_write_sector, one caller, the SDI controller with its status         *)
(* registers and FIFO, and the card behind it.  Controller and card are    *)
(* external: they do what the code expects of them, at their own pace.     *)
(* Only SD cards are modelled; an MMC card does not answer CMD55, and      *)
(* sdi_init gives up whatever CMD1 said.                                   *)
(*                                                                         *)
(* A command is issued, the card takes it and answers or does not, and     *)
(* SDI_Check_CMD_End sees a flag.  A command may be lost, and an answer    *)
(* arrive with a wrong checksum, which the code takes for a good one.  Any *)
(* word the card sends may arrive spoilt, and the controller says so when  *)
(* the block has ended; any block the card is sent may be refused.  What   *)
(* the code cannot cope with is collected in breach, and after it no call  *)
(* begins:                                                                 *)
(*   "answer"  the card took CMD18, CMD25, CMD12 or ACMD6 and its answer   *)
(*             was lost                                                    *)
(*   "error"   a read was given up, and nothing stopped the card           *)
(*   "late"    a transfer error was reported after the status was looked   *)
(*             at for the last word                                        *)
(*   "cut"     the transmission was switched off with words in the FIFO    *)
(*   "refused" the card refused a block, which the code never looks at     *)
(*   "narrow"  a write, always with four data lines, to a card that uses   *)
(*             one                                                         *)
(*   "long"    a write of more words than its 16-bit counter counts        *)
(***************************************************************************)
EXTENDS Integers, Sequences

CONSTANTS Blocks,      \* blocks of the card that are used
          W,           \* words of a block, 128
          Depth,       \* words of the FIFO
          HalfWord,    \* values of a u16, 2^16
          MmcTries,    \* tries of CMD1, 10
          SdTries,     \* tries of ACMD41, 50
          MaxFaults,   \* bound: commands or answers lost or spoilt, bad blocks
          MaxCalls,    \* bound: calls
          None

ASSUME SdAssumption ==
    /\ {Blocks, Depth, HalfWord, MmcTries, SdTries, MaxFaults, MaxCalls} \subseteq Nat \ {0}
    /\ W \in Nat \ {0, 1}

VARIABLES card,        \* its state and width, its memory and where in it it is, the
                       \* words of the block it receives, whether it ignores blocks
          csta, resp,  \* SDICSTA and SDIRSP0
          busy,        \* the command on its way to the card
          fifo, dmode, dleft, dsta,   \* the data path: SDIFSTA, SDIDCON, SDIDCNT, SDIDSTA
          spoilt,      \* whether the block that arrives has a spoilt word in it
          info,        \* SDCard: whether it is set up, sdiRCA and sdiWide
          c,           \* the caller and its locals
          image, before,  \* ghost: what the writes meant the card to hold, and what
                          \* it was to hold before the last of them
          calls, faults, breach

regs   == <<csta, resp, busy>>
data   == <<fifo, dmode, dleft, dsta, spoilt>>
images == <<image, before>>
ghosts == <<images, calls, faults, breach>>
vars   == <<card, regs, data, info, c, ghosts>>

Word  == 0 .. Blocks * W - 1
Idle  == [at |-> "idle", cmd |-> None, op |-> None, addr |-> 0, n |-> 0,
          i |-> 0, p |-> 0, buf |-> <<>>, tries |-> 0]   \* p: words of the buffer passed
Bad   == -1                                            \* a spoilt word
Only(r, bad) == IF bad THEN {r} ELSE {}

\* The caller issues cmd next, with locals d.
Issuing(d, cmd) == [d EXCEPT !.at = "issue", !.cmd = cmd]

-----------------------------------------------------------------------------
(* The card and the controller                                             *)

\* The states in which the card takes a command, and the state it goes to.
\* Those behind CMD3 name its address, RCA.
Takes == [CMD0 |-> {"idle", "ready", "ident", "stby", "tran", "data", "rcv", "prg"}, CMD1 |-> {},
          CMD55 |-> {"idle"}, ACMD41 |-> {"idle"}, CMD2 |-> {"ready"}, CMD3 |-> {"ident", "stby"},
          CMD9 |-> {"stby"}, CMD7 |-> {"stby"}, CMD13 |-> {"stby", "tran", "data", "rcv", "prg"},
          CMD55w |-> {"tran"}, ACMD6 |-> {"tran"}, CMD18 |-> {"tran"}, CMD25 |-> {"tran"},
          CMD12 |-> {"data", "rcv"}]
After == [CMD0 |-> "idle", ACMD41 |-> "ready", CMD2 |-> "ident", CMD3 |-> "stby", CMD7 |-> "tran",
          CMD18 |-> "data", CMD25 |-> "rcv"]
Addressed == {"CMD9", "CMD7", "CMD13", "CMD55w"}
Command == DOMAIN Takes

ASSUME SdNoneAssumption == None \notin Command \cup {"init", "read", "write"}

NextState(cmd, s) == IF cmd = "CMD12" THEN (IF s = "rcv" THEN "prg" ELSE "tran")
                     ELSE IF cmd \in DOMAIN After THEN After[cmd] ELSE s
Taken(cmd) == card.state \in Takes[cmd] /\ (cmd \in Addressed => info.rca = "right")
TakenCard(cmd) == [card EXCEPT !.state = NextState(cmd, @),
                               !.wide = CASE cmd = "CMD0" -> FALSE [] cmd = "ACMD6" -> TRUE [] OTHER -> @,
                               !.ptr = IF cmd \in {"CMD18", "CMD25"} THEN c.addr * W ELSE @,
                               !.block = <<>>, !.deaf = cmd = "CMD25" /\ ~card.wide]

\* The command arrives and the answer too; a card that powers up may answer
\* ACMD41 that it is not ready.
Answer ==
    /\ busy # None
    /\ Taken(busy)
    /\ \/ card' = TakenCard(busy) /\ resp' = card'.state
       \/ busy = "ACMD41" /\ faults < MaxFaults /\ resp' = "idle" /\ UNCHANGED card
    /\ faults' = IF resp' = "idle" /\ busy = "ACMD41" THEN faults + 1 ELSE faults
    /\ csta' = csta \cup {IF busy = "CMD0" THEN "sent" ELSE "rsp"}
    /\ busy' = None
    /\ UNCHANGED <<data, info, c, images, calls, breach>>

\* The card does not take the command, or never gets it.  CMD0 has no answer,
\* and nobody knows.
NoAnswer ==
    /\ busy # None
    /\ Taken(busy) => faults < MaxFaults
    /\ faults' = IF Taken(busy) THEN faults + 1 ELSE faults
    /\ csta' = csta \cup {IF busy = "CMD0" THEN "sent" ELSE "timeout"}
    /\ busy' = None
    /\ UNCHANGED <<card, resp, data, info, c, images, calls, breach>>

\* The card takes it, and the answer is lost or arrives spoilt.
SpoiltAnswer ==
    /\ busy \notin {None, "CMD0"}
    /\ Taken(busy) /\ faults < MaxFaults
    /\ faults' = faults + 1
    /\ card' = TakenCard(busy)
    /\ \/ csta' = csta \cup {"timeout"} /\ UNCHANGED resp
          /\ breach' = breach \cup Only("answer", busy \in {"CMD18", "CMD25", "CMD12", "ACMD6"})
       \/ csta' = csta \cup {"rsp", "crc"} /\ resp' \in {"junk", "odd", "tran"} /\ UNCHANGED breach
    /\ busy' = None
    /\ UNCHANGED <<data, info, c, images, calls>>

BlockEnd == dleft % W = 0

\* The controller takes a word from the card while there is room for it; with
\* the checksum of a block it knows whether the block is good.
Arrives(w) ==
    /\ dmode = "rx" /\ card.state = "data" /\ dleft > 0 /\ Len(fifo) < Depth
    /\ ~(spoilt /\ BlockEnd)
    /\ fifo' = Append(fifo, w)
    /\ dleft' = dleft - 1
    /\ card' = [card EXCEPT !.ptr = @ + 1]
    /\ UNCHANGED <<regs, dmode, dsta, info, c, images, calls, breach>>

Receive == Arrives(card.mem[card.ptr]) /\ UNCHANGED <<spoilt, faults>>

ReceiveBad ==
    /\ faults < MaxFaults
    /\ Arrives(Bad)
    /\ spoilt' = TRUE
    /\ faults' = faults + 1

Report ==
    /\ dmode = "rx" /\ spoilt /\ BlockEnd
    /\ dsta' = dsta \cup {"bad"}
    /\ spoilt' = FALSE
    /\ UNCHANGED <<card, regs, fifo, dmode, dleft, info, c, ghosts>>

\* The words the card has of a block when it is sent the next one, and the card
\* that has stored such a block
Block  == Append(card.block, Head(fifo))
Stored == [card EXCEPT !.block = <<>>, !.ptr = @ + W,
                       !.mem = [w \in DOMAIN @ |-> IF w - card.ptr \in 0 .. W - 1
                                                  THEN Block[w - card.ptr + 1] ELSE @[w]]]

Sends(next) ==
    /\ dmode = "tx" /\ card.state = "rcv" /\ fifo # <<>> /\ dleft > 0
    /\ card' = next
    /\ fifo' = Tail(fifo)
    /\ dleft' = dleft - 1
    /\ UNCHANGED <<regs, dmode, spoilt, info, c, images, calls>>

\* A block is stored as a whole, when the card has all of it.
Send ==
    /\ Sends(IF Len(Block) < W THEN [card EXCEPT !.block = Block]
             ELSE IF card.deaf THEN [card EXCEPT !.block = <<>>] ELSE Stored)
    /\ UNCHANGED <<dsta, faults, breach>>

\* The card refuses a block, or does not answer for it, and ignores what comes
\* behind it.
SendRefused ==
    /\ Sends([card EXCEPT !.block = <<>>, !.deaf = TRUE])
    /\ Len(Block) = W /\ ~card.deaf /\ faults < MaxFaults
    /\ faults' = faults + 1
    /\ dsta' = dsta \cup {"refused"}
    /\ breach' = breach \cup {"refused"}

\* The card has written what it received into its memory.
Program ==
    /\ card.state = "prg"
    /\ card' = [card EXCEPT !.state = "tran"]
    /\ UNCHANGED <<regs, data, info, c, ghosts>>

-----------------------------------------------------------------------------
(* Commands, lines 240-552                                                 *)

Issue ==
    /\ c.at = "issue"
    /\ busy' = c.cmd
    /\ c' = [c EXCEPT !.at = "wait"]
    /\ UNCHANGED <<card, csta, resp, data, info, ghosts>>

\* SDI_Check_CMD_End sees a flag and clears what is set; only a timeout counts
\* as a failure.
Ended(cmds) ==
    /\ c.at = "wait" /\ c.cmd \in cmds
    /\ csta # {}
    /\ csta' = {}
    /\ UNCHANGED <<resp, busy>>
Succeeded == "timeout" \notin csta

\* Slip: the result of CMD7 is not looked at.
PassedBlind == c.cmd = "CMD7" \/ Succeeded
\* What a command of sdi_init must bring for the next one to follow.  Of an
\* answer, lines 375 and 392 look at bit 0 only, which no card sets.
Passed == /\ Succeeded
          /\ c.cmd \in {"CMD3", "CMD7"} => resp # "odd"
          /\ c.cmd = "ACMD41" => resp = "ready"
          /\ c.cmd = "CMD13" => resp = "tran"

Then == [CMD0 |-> "CMD1", CMD55 |-> "ACMD41", ACMD41 |-> "CMD2", CMD2 |-> "CMD3", CMD3 |-> "CMD9",
         CMD9 |-> "CMD7", CMD7 |-> "CMD13", CMD13 |-> "CMD55w", CMD55w |-> "ACMD6"]
TryAgain(cmd) == Issuing([c EXCEPT !.tries = @ + 1], cmd)

\* The caller's next command, or Idle where sdi_init returns
NextCommand ==
    CASE c.cmd \in DOMAIN Then /\ Passed             -> Issuing(c, Then[c.cmd])
      [] c.cmd = "CMD1" /\ c.tries + 1 < MmcTries    -> TryAgain("CMD1")
      [] c.cmd = "CMD1" /\ c.tries + 1 = MmcTries    -> Issuing([c EXCEPT !.tries = 0], "CMD55")
      [] c.cmd \in {"CMD55", "ACMD41"} /\ ~Passed /\ c.tries + 1 < SdTries -> TryAgain("CMD55")
      [] c.cmd = "CMD13" /\ ~Passed                  -> Issuing(c, "CMD13")
      [] OTHER                                       -> Idle

\* sdi_init, lines 148-236; it fails with 0 before CMD55w and not after it.
InitCommand ==
    /\ Ended(Command \ {"CMD18", "CMD25", "CMD12"})
    /\ c' = NextCommand
    /\ info' = [up   |-> c' = Idle /\ c.cmd \in {"CMD55w", "ACMD6"},
                rca  |-> IF c.cmd = "CMD3" /\ Succeeded
                         THEN IF resp = "stby" THEN "right" ELSE "wrong" ELSE info.rca,
                wide |-> IF c' = Idle /\ c.cmd \in {"CMD55w", "ACMD6"}
                         THEN c.cmd = "ACMD6" /\ Succeeded ELSE info.wide]
    /\ UNCHANGED <<card, data, ghosts>>

\* Slip: a command that failed is waited for once more.
OpenedWaits ==
    /\ Ended({"CMD18", "CMD25"})
    /\ c' = [c EXCEPT !.at = IF Succeeded THEN "words" ELSE "wait"]
    /\ UNCHANGED <<card, data, info, ghosts>>

\* CMD18 and CMD25 are tried until they succeed.
Opened ==
    /\ Ended({"CMD18", "CMD25"})
    /\ c' = IF Succeeded THEN [c EXCEPT !.at = "words"] ELSE Issuing(c, c.cmd)
    /\ UNCHANGED <<card, data, info, ghosts>>

\* So is CMD12, and the call returns 0.  The wait of lines 707-709 for the end
\* of a transmission finds it switched off; a write clears the status, lines
\* 712-713, and looks at nothing in it.
Closed ==
    /\ Ended({"CMD12"})
    /\ c' = IF Succeeded THEN Idle ELSE Issuing(c, "CMD12")
    /\ dsta' = IF Succeeded /\ c.op = "write" THEN {} ELSE dsta
    /\ UNCHANGED <<card, fifo, dmode, dleft, spoilt, info, ghosts>>

-----------------------------------------------------------------------------
(* The calls: sdi_init 127-237, sd_read_sector 612-659, sd_write_sector    *)
(* 674-715                                                                 *)

Begins == c.at = "idle" /\ breach = {} /\ calls < MaxCalls /\ calls' = calls + 1

SdiInit ==
    /\ Begins
    /\ csta' = {} /\ dsta' = {} /\ fifo' = <<>>
    /\ c' = Issuing([Idle EXCEPT !.op = "init"], "CMD0")
    /\ info' = [info EXCEPT !.up = FALSE]
    /\ UNCHANGED <<card, resp, busy, dmode, dleft, spoilt, images, faults, breach>>

\* The data path is set up before the card is told.  A call of 4096 blocks would
\* write over the mode in SDIDCON, lines 620 and 682; no caller asks for one.
SetUp(op, cmd, a, n, mode) ==
    /\ Begins
    /\ info.up
    /\ a + n <= Blocks
    /\ fifo' = <<>> /\ dmode' = mode /\ dleft' = n * W
    /\ c' = Issuing([Idle EXCEPT !.op = op, !.addr = a, !.n = n], cmd)
    /\ UNCHANGED <<card, regs, dsta, spoilt, info, faults>>

ReadStart(a, n) == SetUp("read", "CMD18", a, n, "rx") /\ UNCHANGED <<images, breach>>

WriteStart(a, n) ==
    /\ SetUp("write", "CMD25", a, n, "tx")
    /\ image' = [w \in Word |-> IF w - a * W \in 0 .. n * W - 1 THEN calls' * Blocks * W + w ELSE image[w]]
    /\ before' = image
    /\ breach' = Only("narrow", ~card.wide) \cup Only("long", n * W >= HalfWord)

\* The status is looked at before each word.
GiveUp ==
    /\ c.at = "words" /\ c.op = "read" /\ c.i < c.n * W
    /\ "bad" \in dsta
    /\ dsta' = {}
    /\ c' = Idle                                          \* -1
    /\ breach' = breach \cup {"error"}
    /\ UNCHANGED <<card, regs, fifo, dmode, dleft, spoilt, info, images, calls, faults>>

\* Slip: the status is cleared, and not looked at.
CheckStatusBlind ==
    /\ c.at = "words" /\ c.op = "read" /\ c.i < c.n * W
    /\ c' = [c EXCEPT !.at = "take"]
    /\ dsta' = {}
    /\ UNCHANGED <<card, regs, fifo, dmode, dleft, spoilt, info, ghosts>>

CheckStatus ==
    /\ c.at = "words" /\ c.op = "read" /\ c.i < c.n * W
    /\ "bad" \notin dsta
    /\ c' = [c EXCEPT !.at = "take"]
    /\ UNCHANGED <<card, regs, data, info, ghosts>>

\* A word is taken if there is one, whatever the status has become.
TakeWord ==
    /\ c.at = "take"
    /\ IF fifo = <<>> THEN c' = [c EXCEPT !.at = "words"] /\ UNCHANGED fifo
       ELSE /\ c' = [c EXCEPT !.at = "words", !.buf = Append(@, Head(fifo)), !.i = @ + 1]
            /\ fifo' = Tail(fifo)
    /\ UNCHANGED <<card, regs, dmode, dleft, dsta, spoilt, info, ghosts>>

\* What the buffer of the write under way has at a place
Meant(k) == calls * Blocks * W + c.addr * W + k

\* Slip: a word is written without looking for room.
WriteWordFull ==
    /\ c.at = "words" /\ c.op = "write" /\ c.i < c.n * W
    /\ fifo' = IF Len(fifo) < Depth THEN Append(fifo, Meant(c.p)) ELSE fifo
    /\ c' = [c EXCEPT !.i = (@ + 1) % HalfWord, !.p = @ + 1]
    /\ UNCHANGED <<card, regs, dmode, dleft, dsta, spoilt, info, ghosts>>

WriteWord ==
    /\ c.at = "words" /\ c.op = "write" /\ c.i < c.n * W
    /\ Len(fifo) < Depth
    /\ fifo' = Append(fifo, Meant(c.p))
    /\ c' = [c EXCEPT !.i = (@ + 1) % HalfWord, !.p = @ + 1]     \* u16 i, lines 676 and 697
    /\ UNCHANGED <<card, regs, dmode, dleft, dsta, spoilt, info, ghosts>>

\* The loop has ended too late to see that the block of the last word is bad.
Late == c.op = "read" /\ ("bad" \in dsta \/ spoilt)
Cut  == c.op = "write" /\ fifo # <<>>

\* Slip: the last word is left out.
SwitchOffEarly ==
    /\ c.at = "words" /\ c.i + 1 >= c.n * W
    /\ dmode' = "off"
    /\ c' = Issuing(c, "CMD12")
    /\ breach' = breach \cup Only("late", Late) \cup Only("cut", Cut)
    /\ UNCHANGED <<card, regs, fifo, dleft, dsta, spoilt, info, images, calls, faults>>

\* The data path is switched off, whatever the FIFO still holds, lines 649-653
\* and 700-703.
SwitchOff ==
    /\ c.at = "words" /\ c.i = c.n * W
    /\ dmode' = "off"
    /\ c' = Issuing(c, "CMD12")
    /\ breach' = breach \cup Only("late", Late) \cup Only("cut", Cut)
    /\ UNCHANGED <<card, regs, fifo, dleft, dsta, spoilt, info, images, calls, faults>>

Init ==
    /\ card = [state |-> "idle", wide |-> FALSE, ptr |-> 0, mem |-> [w \in 0 .. Blocks * W |-> w],
               block |-> <<>>, deaf |-> FALSE]
    /\ csta = {} /\ resp = "idle" /\ busy = None
    /\ fifo = <<>> /\ dmode = "off" /\ dleft = 0 /\ dsta = {} /\ spoilt = FALSE
    /\ info = [up |-> FALSE, rca |-> "wrong", wide |-> FALSE]
    /\ c = Idle
    /\ image = [w \in Word |-> w] /\ before = image
    /\ calls = 0 /\ faults = 0 /\ breach = {}

Calls == SdiInit \/ \E a \in 0 .. Blocks - 1, n \in 1 .. Blocks : ReadStart(a, n) \/ WriteStart(a, n)
Code == Issue \/ InitCommand \/ Opened \/ Closed \/ GiveUp \/ CheckStatus \/ TakeWord
        \/ WriteWord \/ SwitchOff
Card == Answer \/ NoAnswer \/ SpoiltAnswer
Data == Receive \/ ReceiveBad \/ Report \/ Send \/ SendRefused

Next == Calls \/ Code \/ Card \/ Program \/ Data

\* The driver runs on, the card takes or misses every command, programs what it
\* received, and words move between card and controller.
Spec == /\ Init /\ [][Next]_vars
        /\ WF_vars(Code) /\ WF_vars(Card) /\ WF_vars(Program) /\ WF_vars(Data)

-----------------------------------------------------------------------------
(* Properties                                                              *)

Ready == c.at = "idle" /\ info.up /\ breach = {}

\* Between calls an initialised card waits for the next transfer: whichever
\* commands and answers were lost or spoilt on the way, sdi_init has selected
\* it and agrees with it on the data lines, and no transfer leaves it sending
\* or receiving.
CardReady ==
    Ready => card.state \in {"tran", "prg"} /\ info.rca = "right" /\ info.wide = card.wide

\* A write that has returned and met none of the cases of breach has put its
\* words, all of them in order, where they belong, and nothing else, although
\* FIFO and card run at their own pace.  The code itself does not see to it that
\* "cut" is not met: it waits for room in the FIFO and for nothing else, so that
\* only a card that has emptied the FIFO by the time line 700 is reached has it all.
WriteTrue == Ready => \A w \in Word : card.mem[w] = image[w]

\* Whatever goes wrong, and at every step of a call: the card has the first
\* blocks of the last write, up to some block, each of them whole, and from
\* there on what it had before.  What line 714 calls a success may lack its
\* end and nothing else.
LostAtEnd ==
    \E k \in 0 .. Blocks : \A w \in Word : card.mem[w] = IF w < k * W THEN image[w] ELSE before[w]

\* The step with which a read returns 0
ReadReturns == c.op = "read" /\ c.cmd = "CMD12" /\ c' = Idle
Delivered(count) == \A k \in 1 .. count : c.buf[k] = image[c.addr * W + k - 1]

\* A read that returns 0 has delivered what the card holds, but that it may have
\* missed the error of its last block: a spoilt word of any block before is
\* noticed, although the status is looked at before a word and not behind it.
ReadTrue ==
    [][ReadReturns => /\ Len(c.buf) = c.n * W
                      /\ Delivered(c.n * W - W)
                      /\ "late" \notin breach => Delivered(c.n * W)]_vars

\* A write that returns 0, which simple_ext2.c takes for success, has had none of
\* its blocks refused.
RefusalReported ==
    [][c.op = "write" /\ c.cmd = "CMD12" /\ c' = Idle => "refused" \notin dsta]_vars

\* Every call returns, though the code has a retry without a limit at every
\* command and no timeout of its own.
CallReturns == c.at # "idle" ~> (c.at = "idle" \/ breach # {})
=============================================================================
