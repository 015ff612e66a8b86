------------------------------ MODULE Division ------------------------------
(***************************************************************************)
(* __do_div64 of mylibc/div64.S: a dividend of two words by a divisor of   *)
(* one word, with the shifts, comparisons and carries of an ARMv4 (the     *)
(* branches for __LINUX_ARM_ARCH__ 1).  number() of vsprintf.c takes every *)
(* digit it prints from here.  Variables are the registers, in words of    *)
(* WordBits bits; a step is the code between two labels.                      *)
(***************************************************************************)
EXTENDS Integers

CONSTANTS WordBits,      \* bits of a word, 32 on the machine
          DividendWords, Divisors

ASSUME DivisionAssumption ==
    /\ WordBits \in 1 .. 32          \* label 8 starts with a shift by 16
    /\ DividendWords \subseteq 0 .. 2^WordBits - 1
    /\ Divisors \subseteq 0 .. 2^WordBits - 1

VARIABLES label, xh, xl, yh, yl, ip, r4,
          dividend      \* ghost: what the call was made with

divVars == <<label, xh, xl, yh, yl, ip, r4, dividend>>

Top  == 2^(WordBits - 1)
Shl(x) == (2 * x) % 2^WordBits
Bit(x) == IF x >= Top THEN 1 ELSE 0        \* the carry of a shift to the left

DivInit ==
    /\ label = "entry"
    /\ xh \in DividendWords /\ xl \in DividendWords /\ r4 \in Divisors
    /\ yh = 0 /\ yl = 0 /\ ip = 0
    /\ dividend = xh * 2^WordBits + xl

\* Label 9: division by 1 and by 0
Trivial ==
    /\ label = "entry" /\ r4 <= 1
    /\ yl' = IF r4 = 1 THEN xl ELSE 0
    /\ yh' = IF r4 = 1 THEN xh ELSE 0
    /\ xh' = 0
    /\ label' = "ret" /\ UNCHANGED <<xl, ip, r4, dividend>>

PowerOf2(d) == \E k \in 0 .. WordBits - 1 : d = 2^k

\* Label 8: the exponent is found by halving, then everything is shifted.
Exponent(d) ==
    LET a == IF d >= 2^16 THEN [y |-> d \div (2^16), e |-> 16] ELSE [y |-> d, e |-> 0]
        b == IF a.y >= 2^8 THEN [y |-> a.y \div (2^8), e |-> a.e + 8] ELSE a
        c == IF b.y >= 2^4 THEN [y |-> b.y \div (2^4), e |-> b.e + 4] ELSE b
    IN  c.e + (IF c.y > 4 THEN 3 ELSE c.y \div 2)
Shift ==
    /\ label = "entry" /\ r4 > 1 /\ PowerOf2(r4)
    /\ LET e == Exponent(r4) IN
       /\ yh' = xh \div (2^e)
       /\ yl' = (xl \div (2^e)) + ((xh * 2^(WordBits - e)) % 2^WordBits)
       /\ xh' = ((xl * 2^(WordBits - e)) % 2^WordBits) \div (2^(WordBits - e))
    /\ label' = "ret" /\ UNCHANGED <<xl, ip, r4, dividend>>

Long ==
    /\ label = "entry" /\ r4 > 1 /\ ~PowerOf2(r4)
    /\ yh' = 0
    /\ IF xh < r4 THEN label' = "3" /\ UNCHANGED <<yl, ip>>
       ELSE label' = "1" /\ yl' = r4 /\ ip' = 1
    /\ UNCHANGED <<xh, xl, r4, dividend>>

\* Label 1: the divisor is shifted under the upper word.
Align ==
    /\ label = "1"
    /\ IF yl < Top /\ yl < xh
       THEN yl' = Shl(yl) /\ ip' = Shl(ip) /\ UNCHANGED label
       ELSE label' = "2" /\ UNCHANGED <<yl, ip>>
    /\ UNCHANGED <<xh, xl, yh, r4, dividend>>

\* Label 2: one bit of the upper quotient; the flags of the last subtraction
\* decide on the shift of ip, and those of either on another turn.
Upper ==
    /\ label = "2"
    /\ LET sub == xh >= yl
           nil == xh = yl
       IN  /\ yh' = IF sub THEN yh + ip ELSE yh
           /\ xh' = IF sub THEN xh - yl ELSE xh
           /\ ip' = IF nil THEN ip ELSE ip \div 2
           /\ label' = IF nil \/ ip = 1 THEN "3" ELSE "2"
    /\ yl' = yl \div 2
    /\ UNCHANGED <<xl, r4, dividend>>

\* Label 3: is there anything left for the lower word?
Middle ==
    /\ label = "3"
    /\ yl' = 0
    /\ IF xh = 0 /\ xl < r4
       THEN xh' = xl /\ label' = "ret" /\ UNCHANGED ip
       ELSE ip' = Top /\ label' = "4" /\ UNCHANGED xh
    /\ UNCHANGED <<xl, yh, r4, dividend>>

\* From label 5 on: the bit, its subtraction and the way round
Turn(h, set) ==
    /\ yl' = IF set THEN yl + ip ELSE yl
    /\ xh' = IF set THEN (h - r4) % 2^WordBits ELSE h
    /\ ip' = ip \div 2
    /\ label' = IF ip = 1 THEN "ret" ELSE "4"

\* Slip: a remainder whose lower bits are zero counts as zero though a bit was
\* carried out.
LowerNoCarry ==
    /\ label = "4"
    /\ xl' = Shl(xl)
    /\ LET h == (2 * xh + Bit(xl)) % 2^WordBits IN
       IF h = 0
       THEN xh' = 0 /\ label' = (IF Shl(xl) = 0 THEN "ret" ELSE "7") /\ UNCHANGED <<yl, ip>>
       ELSE Turn(h, xh >= Top \/ h >= r4)
    /\ UNCHANGED <<yh, r4, dividend>>

\* Label 4: the remainder is shifted to the left, with the bit that is carried
\* out; label 6 when what stays is zero.
Lower4 ==
    /\ label = "4"
    /\ xl' = Shl(xl)
    /\ LET h == (2 * xh + Bit(xl)) % 2^WordBits IN
       IF h = 0 /\ xh < Top
       THEN xh' = 0 /\ label' = (IF Shl(xl) = 0 THEN "ret" ELSE "7") /\ UNCHANGED <<yl, ip>>
       ELSE Turn(h, xh >= Top \/ h >= r4)
    /\ UNCHANGED <<yh, r4, dividend>>

\* Label 7: zeros are skipped up to the next bit, which becomes the remainder.
Skip ==
    /\ label = "7"
    /\ xl' = Shl(xl)
    /\ IF Bit(xl) = 0
       THEN ip' = ip \div 2 /\ UNCHANGED <<xh, label>>
       ELSE /\ ip' = ip \div 4
            /\ xh' = 1
            /\ label' = IF ip' = 0 THEN "ret" ELSE "4"
    /\ UNCHANGED <<yh, yl, r4, dividend>>

DivNext == Trivial \/ Shift \/ Long \/ Align \/ Upper \/ Middle \/ Lower4 \/ Skip

DivSpec == DivInit /\ [][DivNext]_divVars

-----------------------------------------------------------------------------
\* do_div returns the quotient and the remainder that its comment in div64.h
\* defines, whichever of the short cuts, early exits and carries were taken on
\* the way; of a division by 0 it makes zeros.
QuotientExact ==
    label = "ret" =>
        IF r4 = 0 THEN yh = 0 /\ yl = 0 /\ xh = 0
        ELSE yh * 2^WordBits + yl = dividend \div r4 /\ xh = dividend % r4
=============================================================================
