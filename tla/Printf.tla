------------------------------- MODULE Printf -------------------------------
(***************************************************************************)
(* vsnprintf of mylibc/vsprintf.c, which every printk goes through.  The   *)
(* format is read a character at a time, as the code reads it: a character *)
(* is chosen when the pointer comes to it, and an argument when va_arg     *)
(* takes it.  A directive passes the stages of the code (flags, width,     *)
(* precision, qualifier, conversion).  What is printed goes to a ring of   *)
(* addresses one by one while str <= end, as pointers compare; str and end *)
(* both wrap around at the end of memory.                                  *)
(***************************************************************************)
EXTENDS Integers, Sequences

CONSTANTS Addresses,    \* number of addresses, 2^32 on the machine
          ShortBits, IntBits, LongLongBits,     \* 16, 32 and 64
          Buffers,      \* where buffers are, and the sizes callers name
          Numbers,      \* numbers passed, by their bits
          Words,        \* texts passed to %s
          MaxFormat     \* bound: characters of a format

ASSUME PrintfAssumption ==
    /\ Addresses \in Nat \ {0, 1}
    /\ ShortBits \in Nat \ {0} /\ IntBits \in Nat /\ LongLongBits \in Nat
    /\ ShortBits <= IntBits /\ IntBits < LongLongBits
    /\ Buffers \subseteq (1 .. Addresses - 1) \X (0 .. Addresses - 1)
    /\ Numbers \subseteq 0 .. 2^LongLongBits - 1
    /\ \A w \in Words : w \in Seq({w[k] : k \in DOMAIN w})      \* a text
    /\ MaxFormat \in Nat

VARIABLES stage,        \* where in the loop of vsnprintf
          ch,           \* *fmt; "" is the terminating NUL
          left,         \* characters the format may still have
          flags, fieldWidth, precision, qualifier,
          buf, bufSize, end, str,       \* addresses
          written,      \* the characters that were stored, by address
          full,         \* ghost: every character the call came to print
          last          \* ghost: the last conversion and what it printed

printfVars == <<stage, ch, left, flags, fieldWidth, precision, qualifier, buf,
                bufSize, end, str, written, full, last>>
directive == <<flags, fieldWidth, precision, qualifier>>
buffer    == <<buf, bufSize, end>>
NoConversion == [conv |-> "none"]

FlagChars   == {"-", "+", " ", "#", "0"}
DigitValue  == [d \in {"0", "5"} |-> IF d = "0" THEN 0 ELSE 5]     \* bound: two digits
Qualifiers  == {"h", "l", "L", "z"}
Numeric     == {"o", "X", "x", "d", "u"}
Conversions == {"c", "s", "p", "n", "%"} \cup Numeric
Characters  == FlagChars \cup DOMAIN DigitValue \cup Qualifiers \cup Conversions \cup {"*", ".", "?"}

\* ++fmt, to any of the characters that some later stage tells apart
Advance(chars) == /\ ch' \in (IF left > 0 THEN chars ELSE {}) \cup {""}
                  /\ left' = IF ch' = "" THEN left ELSE left - 1

\* Bound: one directive, and one character behind it at most
AdvanceBehind == ch' \in {"a", ""} /\ left' = 0

\* end; the end of memory when the addition wraps around
LastIn(b, e) == IF e < b - 1 THEN Addresses - 1 ELSE e
\* Slip: there is always room for one more.
EndOneMore(b, size) == LastIn(b, (b + size) % Addresses)
EndOf(b, size) == LastIn(b, (b + size - 1) % Addresses)

-----------------------------------------------------------------------------
(* number()                                                                *)

Repeat(c, n) == [k \in 1 .. (IF n > 0 THEN n ELSE 0) |-> c]
Small == <<"0","1","2","3","4","5","6","7","8","9","a","b","c","d","e","f">>
Large == <<"0","1","2","3","4","5","6","7","8","9","A","B","C","D","E","F">>
Most(a, b) == IF a > b THEN a ELSE b
Rightmost(S) == CHOOSE k \in S : \A j \in S : k >= j

\* tmp, most significant digit first: the remainders do_div leaves
DigitsOf(num, base) ==
    LET digits[k \in 0 .. num] == IF k = 0 THEN <<>> ELSE Append(digits[k \div base], k % base)
    IN  IF num = 0 THEN <<0>> ELSE digits[num]

Negative(num)  == num >= 2^(LongLongBits - 1)
SignOf(num, f) == IF "SIGN" \notin f THEN <<>>
                  ELSE IF Negative(num) THEN <<"-">>
                  ELSE IF "+" \in f THEN <<"+">>
                  ELSE IF " " \in f THEN <<" ">> ELSE <<>>
PrefixOf(base, f) == IF "#" \notin f THEN <<>>
                     ELSE IF base = 16 THEN <<"0", IF "LARGE" \in f THEN "X" ELSE "x">>
                     ELSE IF base = 8 THEN <<"0">> ELSE <<>>

\* Slip: the sign does not count for the width.
numberSignFree(num, base, size, prec, f) ==
    LET f1     == IF "-" \in f THEN f \ {"0"} ELSE f
        sign   == SignOf(num, f)
        prefix == PrefixOf(base, f)
        tmp    == DigitsOf(IF sign = <<"-">> THEN 2^LongLongBits - num ELSE num, base)
        pad    == size - Len(prefix) - Most(prec, Len(tmp))
        table  == IF "LARGE" \in f THEN Large ELSE Small
    IN  (IF f1 \cap {"0", "-"} = {} THEN Repeat(" ", pad) ELSE <<>>)
        \o sign \o prefix
        \o (IF "-" \notin f1 /\ "0" \in f1 THEN Repeat("0", pad) ELSE <<>>)
        \o Repeat("0", prec - Len(tmp))
        \o [k \in DOMAIN tmp |-> table[tmp[k] + 1]]
        \o (IF "-" \in f1 THEN Repeat(" ", pad) ELSE <<>>)
number(num, base, size, prec, f) ==
    LET f1     == IF "-" \in f THEN f \ {"0"} ELSE f
        sign   == SignOf(num, f)
        prefix == PrefixOf(base, f)
        tmp    == DigitsOf(IF sign = <<"-">> THEN 2^LongLongBits - num ELSE num, base)
        pad    == size - Len(sign) - Len(prefix) - Most(prec, Len(tmp))
        table  == IF "LARGE" \in f THEN Large ELSE Small
    IN  (IF f1 \cap {"0", "-"} = {} THEN Repeat(" ", pad) ELSE <<>>)
        \o sign \o prefix
        \o (IF "-" \notin f1 /\ "0" \in f1 THEN Repeat("0", pad) ELSE <<>>)
        \o Repeat("0", prec - Len(tmp))
        \o [k \in DOMAIN tmp |-> table[tmp[k] + 1]]
        \o (IF "-" \in f1 THEN Repeat(" ", pad) ELSE <<>>)

\* The bits of an argument that the qualifier takes, sign-extended to long long
Extend(x, bits) == IF x >= 2^(bits - 1) THEN x + 2^LongLongBits - 2^bits ELSE x
ArgumentOf(x, q, signed) ==
    LET bits == IF q = "L" THEN LongLongBits ELSE IF q = "h" THEN ShortBits ELSE IntBits
    IN  IF signed /\ q # "z" THEN Extend(x % 2^bits, bits) ELSE x % 2^bits

-----------------------------------------------------------------------------
(* vsnprintf                                                               *)

PrintfInit ==
    /\ stage = "call"
    /\ \E b \in Buffers : buf = b[1] /\ bufSize = b[2]
    /\ end = 0 /\ str = 0
    /\ ch = "" /\ left = MaxFormat
    /\ flags = {} /\ fieldWidth = -1 /\ precision = -1 /\ qualifier = ""
    /\ written = <<>> /\ full = <<>> /\ last = NoConversion

\* A size that is negative as an int is refused.
Entry ==
    /\ stage = "call"
    /\ IF bufSize >= Addresses \div 2
       THEN /\ stage' = "refused"
            /\ UNCHANGED <<ch, left, buffer, str>>
       ELSE /\ stage' = "text"
            /\ str' = buf
            /\ end' = EndOf(buf, bufSize)
            /\ bufSize' = IF (buf + bufSize - 1) % Addresses < buf - 1 THEN end' - buf + 1 ELSE bufSize
            /\ Advance({"a", "%"}) /\ UNCHANGED buf
    /\ UNCHANGED <<directive, written, full, last>>

\* The characters of a text that str comes to an address with
ComeTo(a, text) == {k \in DOMAIN text : (str + k - 1) % Addresses = a}

\* if (str <= end) *str = ...; ++str, for each character of a text
Emit(text) ==
    /\ LET there == {(str + k - 1) % Addresses : k \in DOMAIN text} \cap (0 .. end)
       IN  written' = [a \in DOMAIN written \cup there |->
                         IF a \in there THEN text[Rightmost(ComeTo(a, text))] ELSE written[a]]
    /\ str' = (str + Len(text)) % Addresses
    /\ full' = full \o text

Plain ==
    /\ stage = "text" /\ ch \notin {"", "%"}
    /\ Emit(<<ch>>)
    /\ Advance({"a", "%"})
    /\ UNCHANGED <<stage, directive, buffer, last>>

Percent ==
    /\ stage = "text" /\ ch = "%"
    /\ stage' = "flags"
    /\ flags' = {} /\ fieldWidth' = -1 /\ precision' = -1 /\ qualifier' = ""
    /\ Advance(Characters)
    /\ UNCHANGED <<buffer, str, written, full, last>>

Flag ==
    /\ stage = "flags"
    /\ IF ch \in FlagChars
       THEN flags' = flags \cup {ch} /\ Advance(Characters) /\ UNCHANGED stage
       ELSE stage' = "width" /\ UNCHANGED <<flags, ch, left>>
    /\ UNCHANGED <<fieldWidth, precision, qualifier, buffer, str, written, full, last>>

\* isdigit: one turn of skip_atoi
IsDigit(c) == c \in DOMAIN DigitValue
Starred    == {-5, 0, 4}            \* bound: what is passed for a *

Width ==
    /\ \/ /\ stage \in {"width", "widthDigits"} /\ IsDigit(ch)
          /\ fieldWidth' = 10 * Most(fieldWidth, 0) + DigitValue[ch]
          /\ Advance(Characters) /\ stage' = "widthDigits" /\ UNCHANGED flags
       \/ /\ stage = "width" /\ ch = "*"
          /\ \E w \in Starred : IF w < 0 THEN fieldWidth' = -w /\ flags' = flags \cup {"-"}
                                ELSE fieldWidth' = w /\ UNCHANGED flags
          /\ Advance(Characters) /\ stage' = "precision"
       \/ /\ \/ stage = "width" /\ ~IsDigit(ch) /\ ch # "*"
             \/ stage = "widthDigits" /\ ~IsDigit(ch)
          /\ stage' = "precision" /\ UNCHANGED <<flags, fieldWidth, ch, left>>
    /\ UNCHANGED <<precision, qualifier, buffer, str, written, full, last>>

Precision ==
    /\ \/ /\ stage = "precision" /\ ch = "."
          /\ precision' = 0
          /\ Advance(Characters) /\ stage' = "point"
       \/ /\ stage \in {"point", "pointDigits"} /\ IsDigit(ch)
          /\ precision' = 10 * precision + DigitValue[ch]
          /\ Advance(Characters) /\ stage' = "pointDigits"
       \/ /\ stage = "point" /\ ch = "*"
          /\ \E p \in Starred : precision' = Most(p, 0)
          /\ Advance(Characters) /\ stage' = "qualifier"
       \/ /\ \/ stage = "precision" /\ ch # "."
             \/ stage = "point" /\ ~IsDigit(ch) /\ ch # "*"
             \/ stage = "pointDigits" /\ ~IsDigit(ch)
          /\ stage' = "qualifier" /\ UNCHANGED <<precision, ch, left>>
    /\ UNCHANGED <<flags, fieldWidth, qualifier, buffer, str, written, full, last>>

Qualifier ==
    /\ stage = "qualifier"
    /\ \/ /\ ch \in Qualifiers /\ qualifier = ""
          /\ qualifier' = ch /\ Advance(Characters)
          /\ stage' = IF ch = "l" THEN "qualifier" ELSE "convert"
       \/ /\ ch = "l" /\ qualifier = "l"
          /\ qualifier' = "L" /\ Advance(Characters) /\ stage' = "convert"
       \/ /\ IF qualifier = "" THEN ch \notin Qualifiers ELSE ch # "l"
          /\ stage' = "convert" /\ UNCHANGED <<qualifier, ch, left>>
    /\ UNCHANGED <<flags, fieldWidth, precision, buffer, str, written, full, last>>

\* What a conversion prints; the format goes on behind it.
Prints(argument, text) ==
    /\ Emit(text)
    /\ last' = [conv |-> ch, arg |-> argument, flags |-> flags, width |-> fieldWidth,
                prec |-> precision, qual |-> qualifier, text |-> text]
    /\ stage' = "text" /\ AdvanceBehind /\ UNCHANGED <<directive, buffer>>

\* A text with the blanks that make it as wide as the field
Justify(text) == LET blanks == Repeat(" ", fieldWidth - Len(text))
                 IN  IF "-" \in flags THEN text \o blanks ELSE blanks \o text

ConvertText ==
    /\ stage = "convert"
    /\ \/ ch = "c" /\ Prints(<<"b">>, Justify(<<"b">>))
       \/ /\ ch = "s"
          /\ \E w \in Words :
                LET len == IF precision = -1 \/ precision > Len(w) THEN Len(w) ELSE precision
                IN  Prints(w, Justify(SubSeq(w, 1, len)))
       \/ ch = "%" /\ Prints(<<>>, <<"%">>)

\* %n stores how much has been printed so far.
ConvertCount == stage = "convert" /\ ch = "n" /\ Prints((str - buf) % Addresses, <<>>)

ConvertPointer ==
    /\ stage = "convert" /\ ch = "p"
    /\ \E x \in Numbers :
          LET none == fieldWidth = -1
              bits == x % 2^IntBits
          IN  Prints(x, number(bits, 16, IF none THEN 2 * (IntBits \div 8) ELSE fieldWidth, precision,
                               IF none THEN flags \cup {"0"} ELSE flags))

ConvertNumber ==
    /\ stage = "convert" /\ ch \in Numeric
    /\ LET base == IF ch = "o" THEN 8 ELSE IF ch \in {"x", "X"} THEN 16 ELSE 10
           f    == flags \cup (IF ch = "X" THEN {"LARGE"} ELSE IF ch = "d" THEN {"SIGN"} ELSE {})
       IN  \E x \in Numbers :
              Prints(x, number(ArgumentOf(x, qualifier, ch = "d"), base, fieldWidth, precision, f))

\* Anything else is printed as it stands; the end of the format is met again.
ConvertOther ==
    /\ stage = "convert" /\ ch \notin Conversions
    /\ Emit(IF ch = "" THEN <<"%">> ELSE <<"%", ch>>)
    /\ stage' = "text"
    /\ IF ch = "" THEN UNCHANGED <<ch, left>> ELSE AdvanceBehind
    /\ UNCHANGED <<directive, buffer, last>>

Finish ==
    /\ stage = "text" /\ ch = ""
    /\ stage' = "done"
    /\ LET at == IF str <= end THEN {str} ELSE IF bufSize > 0 THEN {end} ELSE {}
       IN  written' = [a \in DOMAIN written \cup at |-> IF a \in at THEN "" ELSE written[a]]
    /\ UNCHANGED <<ch, left, directive, buffer, str, full, last>>

PrintfNext == Entry \/ Plain \/ Percent \/ Flag \/ Width \/ Precision \/ Qualifier \/ ConvertText
              \/ ConvertCount \/ ConvertPointer \/ ConvertNumber \/ ConvertOther \/ Finish

-----------------------------------------------------------------------------
(* What the comments of vsnprintf and C promise                            *)

\* The text ends before memory does: str has not gone around.
Below == buf + Len(full) < Addresses

\* As long as the text, were it all stored, ended before memory does, no
\* character leaves the buffer; at the end it holds as much of the text as
\* there is room for and a NUL, and the number returned is that of the whole
\* text, whether it was cut off or not.  A buffer of no size is left alone, and
\* a size that is refused too.  A longer text goes on at address 0, where every
\* address up to end passes for one of the buffer.
BufferHolds ==
    /\ stage = "refused" => DOMAIN written = {}
    /\ Below => DOMAIN written \subseteq buf .. buf + bufSize - 1
    /\ Below /\ stage = "done" =>
         LET n == IF Len(full) < bufSize THEN Len(full) ELSE bufSize - 1
         IN  /\ str - buf = Len(full)
             /\ bufSize > 0 => /\ DOMAIN written = buf .. buf + n
                               /\ written[buf + n] = ""
                               /\ \A k \in 1 .. n : written[buf + k - 1] = full[k]

Index(c, table) == CHOOSE k \in 0 .. 15 : table[k + 1] = c
ReadBack(digits, base, table) ==
    LET value[k \in 0 .. Len(digits)] ==
            IF k = 0 THEN 0 ELSE base * value[k - 1] + Index(digits[k], table)
    IN  value[Len(digits)]

\* The number that is meant: so many bits of what was passed, with a sign or not
ValueOf(printed) ==
    LET bits == CASE printed.qual = "L" -> LongLongBits [] printed.qual = "h" -> ShortBits
                  [] OTHER -> IntBits
        raw  == printed.arg % 2^bits
    IN  IF printed.conv = "d" /\ printed.qual # "z" /\ raw >= 2^(bits - 1) THEN raw - 2^bits ELSE raw

Filled(text) == {k \in DOMAIN text : text[k] # " "}
Leftmost(S)  == CHOOSE k \in S : \A j \in S : k <= j

\* A number can be read back from what was printed for it, the way it was
\* asked for: sign, prefix, digits of the right alphabet and as many as the
\* precision asks for, blanks on one side only, and no wider than it must be.
NumberRight(printed) ==
    LET f       == printed.flags
        text    == printed.text
        value   == ValueOf(printed)
        table   == IF printed.conv = "X" THEN Large ELSE Small
        base    == CASE printed.conv = "o" -> 8 [] printed.conv \in {"x", "X"} -> 16 [] OTHER -> 10
        first   == Leftmost(Filled(text))
        final   == Rightmost(Filled(text))
        signed  == text[first] \in {"-", "+"}
        skip    == (IF signed THEN 1 ELSE 0)
                   + (IF "#" \in f THEN IF base = 16 THEN 2 ELSE IF base = 8 THEN 1 ELSE 0 ELSE 0)
        digits  == SubSeq(text, first + skip, final)
        front   == IF printed.conv = "d" /\ value >= 0 /\ " " \in f /\ "+" \notin f THEN 1 ELSE 0
        least   == front + skip + Most(printed.prec, Len(digits))
    IN  /\ ReadBack(digits, base, table) = (IF value < 0 THEN -value ELSE value)
        /\ signed <=> printed.conv = "d" /\ (value < 0 \/ "+" \in f)
        /\ signed => (text[first] = "-" <=> value < 0)
        /\ Len(digits) >= printed.prec
        /\ Len(text) >= printed.width
        /\ \A k \in first .. final : text[k] # " "
        /\ "-" \in f => first = 1 + front
        /\ "-" \notin f => final = Len(text)
        /\ "0" \in f /\ "-" \notin f => first = 1 + front
        \* nothing is printed that width, precision and value do not ask for
        /\ Len(digits) > Most(printed.prec, 1) /\ digits[1] = "0" => Len(text) = printed.width
        /\ Filled(text) # first .. Len(text) \/ first > 1 + front => Len(text) = Most(printed.width, least)

NumberTrue == stage = "done" /\ last.conv \in Numeric => NumberRight(last)
=============================================================================
