------------------------------ MODULE Strings ------------------------------
(***************************************************************************)
(* The string and memory functions of mylibc/string.c, which the file      *)
(* systems and drivers compare, split and copy names and sectors with.     *)
(* Memory is a row of cells with a byte each; a pointer is the number of a *)
(* cell.  The loops are those of the source: a copy goes byte by byte over *)
(* the memory it changes.  One call at a time is made, on the memory that  *)
(* all calls before have left, with arguments that C allows.               *)
(***************************************************************************)
EXTENDS Integers, Sequences

CONSTANTS Cells,        \* cells of memory
          Bytes,        \* values of a byte
          Lower         \* the lower-case byte of each byte

ASSUME StringAssumption ==
    /\ Cells \in Nat \ {0} /\ Bytes \in Nat \ {0}
    /\ Lower \in [0 .. Bytes - 1 -> 0 .. Bytes - 1] /\ Lower[0] = 0

Null == -1
Addr == 0 .. Cells - 1
Byte == 0 .. Bytes - 1

VARIABLES mem,
          strtokAt,     \* ___strtok
          call          \* the last call, its result and the memory it found

stringVars == <<mem, strtokAt, call>>
NoCall == [f |-> "none"]

\* The first k of lo .. hi - 1 that stops a loop, or hi
Scan(lo, hi, stops) ==
    LET at[k \in lo .. hi] == IF k = hi THEN hi ELSE IF k \in stops THEN k ELSE at[k + 1]
    IN  at[lo]

Ends(m) == {k \in Addr : m[k] = 0}

-----------------------------------------------------------------------------
(* Functions that only look                                                *)

strlen(m, s)     == Scan(s, Cells, Ends(m)) - s
strnlen(m, s, n) == Scan(s, s + n, Ends(m)) - s

\* The difference is kept in a signed char.
Res(x) == ((x + (Bytes \div 2)) % Bytes) - (Bytes \div 2)
strncmp(m, s, t, n) ==
    LET k == Scan(0, n, {j \in 0 .. n - 1 : Res(m[s + j] - m[t + j]) # 0 \/ m[s + j] = 0})
    IN  IF k = n THEN 0 ELSE Res(m[s + k] - m[t + k])
strcmp(m, s, t) ==
    LET both == {j \in Addr : s + j \in Addr /\ t + j \in Addr}
        k    == Scan(0, Cells, {j \in both : Res(m[s + j] - m[t + j]) # 0 \/ m[s + j] = 0})
    IN  Res(m[s + k] - m[t + k])

strnicmp(m, s, t, n) ==
    LET End(j)  == m[s + j] = 0 \/ m[t + j] = 0
        Diff(j) == Lower[m[s + j]] - Lower[m[t + j]]
        k       == Scan(0, n, {j \in 0 .. n - 1 : End(j) \/ Diff(j) # 0})
    IN  IF k = n THEN 0 ELSE IF End(k) THEN m[s + k] - m[t + k] ELSE Diff(k)

strchr(m, s, c) ==
    LET k == Scan(s, Cells, {j \in Addr : m[j] = c} \cup Ends(m))
    IN  IF m[k] = c THEN k ELSE Null
strrchr(m, s, c) ==
    LET back == Scan(0, strlen(m, s) + 1, {j \in 0 .. strlen(m, s) : m[s + strlen(m, s) - j] = c})
    IN  IF back > strlen(m, s) THEN Null ELSE s + strlen(m, s) - back

\* The inner loop of strspn and strpbrk
Among(m, c, set) == m[Scan(set, Cells, {j \in Addr : m[j] = c} \cup Ends(m))] # 0
strspn(m, s, set) == Scan(s, Cells, {k \in Addr : m[k] = 0 \/ ~Among(m, m[k], set)}) - s
strpbrk(m, s, set) ==
    LET k == Scan(s, Cells, {k \in Addr : m[k] = 0 \/ Among(m, m[k], set)})
    IN  IF m[k] = 0 THEN Null ELSE k

memcmp(m, s, t, n) ==
    LET k == Scan(0, n, {j \in 0 .. n - 1 : m[s + j] # m[t + j]})
    IN  IF k = n THEN 0 ELSE m[s + k] - m[t + k]
memscan(m, s, c, n) == Scan(s, s + n, {k \in Addr : m[k] = c})
memchr(m, s, c, n)  == LET k == memscan(m, s, c, n) IN IF k = s + n THEN Null ELSE k
strstr(m, s, t) ==
    LET l1 == strlen(m, s)
        l2 == strlen(m, t)
        k  == Scan(0, l1 - l2 + 1, {j \in 0 .. l1 - l2 : memcmp(m, s + j, t, l2) = 0})
    IN  IF l2 = 0 THEN s ELSE IF l1 < l2 \/ k > l1 - l2 THEN Null ELSE s + k

-----------------------------------------------------------------------------
(* Functions that write                                                    *)

\* n turns of *dest++ = *src++, and of *--dest = *--src from the far ends
CopyUp(m, d, s, n) ==
    LET done[k \in 0 .. n] ==
            IF k = 0 THEN m ELSE [done[k - 1] EXCEPT ![d + k - 1] = done[k - 1][s + k - 1]]
    IN  done[n]
CopyDown(m, d, s, n) ==
    LET done[k \in 0 .. n] ==
            IF k = 0 THEN m ELSE [done[k - 1] EXCEPT ![d + n - k] = done[k - 1][s + n - k]]
    IN  done[n]

memcpy(m, d, s, n) == CopyUp(m, d, s, n)

\* Slip: the copy always begins at the front.
memmoveUp(m, d, s, n) == CopyUp(m, d, s, n)
memmove(m, d, s, n) == IF d <= s THEN CopyUp(m, d, s, n) ELSE CopyDown(m, d, s, n)
memset(m, s, c, n)  == [a \in Addr |-> IF a \in s .. s + n - 1 THEN c ELSE m[a]]

\* n bytes, or fewer when one of them is the end of the string
strncpy(m, d, s, n) == CopyUp(m, d, s, IF strnlen(m, s, n) = n THEN n ELSE strnlen(m, s, n) + 1)
strcpy(m, d, s)     == CopyUp(m, d, s, strlen(m, s) + 1)
strcat(m, d, s)     == strcpy(m, d + strlen(m, d), s)
strncat(m, d, s, n) ==
    LET e    == d + strlen(m, d)
        long == n > 0 /\ strnlen(m, s, n) = n
    IN  IF n = 0 THEN m
        ELSE IF long THEN [CopyUp(m, e, s, n) EXCEPT ![e + n] = 0]
        ELSE strcpy(m, e, s)

\* strtok and strsep: the memory, the place to go on from and the token
strtok(m, s, set) ==
    LET from == IF s # Null THEN s ELSE strtokAt
        b    == from + strspn(m, from, set)
        e    == strpbrk(m, b, set)
    IN  IF from = Null THEN [m |-> m, on |-> strtokAt, r |-> Null]
        ELSE IF m[b] = 0 THEN [m |-> m, on |-> Null, r |-> Null]
        ELSE IF e = Null THEN [m |-> m, on |-> Null, r |-> b]
        ELSE [m |-> [m EXCEPT ![e] = 0], on |-> e + 1, r |-> b]
strsep(m, s, set) ==
    LET e == strpbrk(m, s, set)
    IN  IF s = Null THEN [m |-> m, on |-> Null, r |-> Null]
        ELSE IF e = Null THEN [m |-> m, on |-> Null, r |-> s]
        ELSE [m |-> [m EXCEPT ![e] = 0], on |-> e + 1, r |-> s]

-----------------------------------------------------------------------------
(* Calls, with arguments inside the memory and strings that end            *)

Str == {s \in Addr : \E k \in s .. Cells - 1 : mem[k] = 0}
Room(p)  == 0 .. Cells - p           \* counts that stay in memory from p on
Apart(p, k, q, n) == p + k <= q \/ q + n <= p

Call(f, a, r) == call' = [f |-> f, a |-> a, r |-> r, was |-> mem]
\* Bound: nothing but strtok and strsep is called while strtok has a text to go
\* on with, which nothing but strtok looks at.
Looks(f, a, r)     == strtokAt = Null /\ Call(f, a, r) /\ UNCHANGED <<mem, strtokAt>>
Writes(f, a, m, r) == strtokAt = Null /\ Call(f, a, r) /\ mem' = m /\ UNCHANGED strtokAt

Measure ==
    \E s \in Str :
        \/ Looks("strlen", <<s>>, strlen(mem, s))
        \/ \E n \in Room(s) : Looks("strnlen", <<s, n>>, strnlen(mem, s, n))

Compare ==
    \/ \E s, t \in Str : Looks("strcmp", <<s, t>>, strcmp(mem, s, t))
    \/ \E s, t \in Addr : \E n \in Room(s) \cap Room(t) :
          \/ Looks("memcmp", <<s, t, n>>, memcmp(mem, s, t, n))
          \/ Looks("strncmp", <<s, t, n>>, strncmp(mem, s, t, n))
          \/ Looks("strnicmp", <<s, t, n>>, strnicmp(mem, s, t, n))

Find ==
    \/ \E s \in Str, c \in Byte : \/ Looks("strchr", <<s, c>>, strchr(mem, s, c))
                                  \/ Looks("strrchr", <<s, c>>, strrchr(mem, s, c))
    \/ \E s \in Addr, c \in Byte : \E n \in Room(s) :
          \/ Looks("memscan", <<s, c, n>>, memscan(mem, s, c, n))
          \/ Looks("memchr", <<s, c, n>>, memchr(mem, s, c, n))
    \/ \E s, t \in Str : \/ Looks("strspn", <<s, t>>, strspn(mem, s, t))
                         \/ Looks("strpbrk", <<s, t>>, strpbrk(mem, s, t))
                         \/ Looks("strstr", <<s, t>>, strstr(mem, s, t))

Move ==
    \E d, s \in Addr : \E n \in Room(d) \cap Room(s) :
        \/ Writes("memmove", <<d, s, n>>, memmove(mem, d, s, n), d)
        \/ /\ Apart(d, n, s, n)
           /\ Writes("memcpy", <<d, s, n>>, memcpy(mem, d, s, n), d)
        \/ s \in Byte /\ Writes("memset", <<d, s, n>>, memset(mem, d, s, n), d)

\* The destination has room for what is written and does not touch the source.
Copy ==
    \E d \in Addr, s \in Str :
        LET ls == strlen(mem, s) + 1 IN
        \/ /\ ls \in Room(d) /\ Apart(d, ls, s, ls)
           /\ Writes("strcpy", <<d, s>>, strcpy(mem, d, s), d)
        \/ \E n \in Room(d) : /\ Apart(d, n, s, ls)
                              /\ n \in Room(s)
                              /\ Writes("strncpy", <<d, s, n>>, strncpy(mem, d, s, n), d)

Concat ==
    \E d, s \in Str :
        LET ld == strlen(mem, d)
            ls == strlen(mem, s) + 1 IN
        \/ /\ ld + ls \in Room(d) /\ Apart(d, ld + ls, s, ls)
           /\ Writes("strcat", <<d, s>>, strcat(mem, d, s), d)
        \/ \E n \in Room(s) : /\ ld + n + 1 \in Room(d) /\ Apart(d, ld + n + 1, s, ls)
                              /\ Writes("strncat", <<d, s, n>>, strncat(mem, d, s, n), d)

Split ==
    \E set \in Str :
        \/ \E s \in Str \cup {Null} :
              LET x == strtok(mem, s, set) IN
              /\ s = Null => strtokAt \in Str \cup {Null}
              /\ Call("strtok", <<IF s = Null THEN strtokAt ELSE s, set>>, x.r)
              /\ mem' = x.m /\ strtokAt' = x.on
        \/ \E s \in Str \cup {Null} :
              LET x == strsep(mem, s, set)
              IN  /\ Call("strsep", <<s, set, x.on>>, x.r)
                  /\ mem' = x.m /\ UNCHANGED strtokAt

StringReturn == call # NoCall /\ call' = NoCall /\ UNCHANGED <<mem, strtokAt>>

StringInit == mem \in [Addr -> Byte] /\ strtokAt = Null /\ call = NoCall
StringNext ==
    \/ call = NoCall /\ (Measure \/ Compare \/ Find \/ Move \/ Copy \/ Concat \/ Split)
    \/ StringReturn

-----------------------------------------------------------------------------
(* What the comments of string.c promise, in terms of texts                *)

\* The text that begins at s, and at most its first n bytes
Text(m, s) == LET e == CHOOSE k \in s .. Cells - 1 : m[k] = 0 /\ \A j \in s .. k - 1 : m[j] # 0
              IN  [k \in 1 .. e - s |-> m[s + k - 1]]
Row(m, s, n) == [k \in 1 .. n |-> m[s + k - 1]]
Cut(m, s, n) == LET stop == {k \in 0 .. n - 1 : m[s + k] = 0}
                IN  Row(m, s, IF stop = {} THEN n ELSE CHOOSE k \in stop : \A j \in stop : k <= j)
Fold(x)      == [k \in DOMAIN x |-> Lower[x[k]]]

Least(set)    == IF set = {} THEN Null ELSE CHOOSE k \in set : \A j \in set : k <= j
Greatest(set) == IF set = {} THEN Null ELSE CHOOSE k \in set : \A j \in set : k >= j
Marks(m, t)   == {Text(m, t)[k] : k \in DOMAIN Text(m, t)}

\* Only the n cells from d on may have changed.
Keeps(m, d, n) == \A a \in Addr \ (d .. d + n - 1) : mem[a] = m[a]

Promise ==
    LET m == call.was
        a == call.a
        r == call.r
        s == a[1]
        Span(t, set) == {k \in t .. t + Len(Text(m, t)) - 1 : m[k] \in set}
        Rest(t, set) == {k \in t .. t + Len(Text(m, t)) - 1 : m[k] \notin set}
    IN CASE call.f = "strlen"  -> r = Len(Text(m, s))
         [] call.f = "strnlen" -> r = Len(Cut(m, s, a[2]))
         [] call.f = "strcmp"  -> r = 0 <=> Text(m, s) = Text(m, a[2])
         [] call.f = "strncmp" -> r = 0 <=> Cut(m, s, a[3]) = Cut(m, a[2], a[3])
         [] call.f = "strnicmp" -> r = 0 <=> Fold(Cut(m, s, a[3])) = Fold(Cut(m, a[2], a[3]))
         [] call.f = "memcmp"  -> r = 0 <=> Row(m, s, a[3]) = Row(m, a[2], a[3])
         [] call.f = "strchr"  -> r = Least({k \in s .. s + Len(Text(m, s)) : m[k] = a[2]})
         [] call.f = "strrchr" -> r = Greatest({k \in s .. s + Len(Text(m, s)) : m[k] = a[2]})
         [] call.f = "memscan" -> r = Least({k \in s .. s + a[3] - 1 : m[k] = a[2]} \cup {s + a[3]})
         [] call.f = "memchr"  -> r = Least({k \in s .. s + a[3] - 1 : m[k] = a[2]})
         [] call.f = "strspn"  -> s + r = Least(Rest(s, Marks(m, a[2])) \cup {s + Len(Text(m, s))})
         [] call.f = "strpbrk" -> r = Least(Span(s, Marks(m, a[2])))
         [] call.f = "strstr"  ->
              r = Least({k \in s .. s + Len(Text(m, s)) :
                           /\ k + Len(Text(m, a[2])) <= s + Len(Text(m, s))
                           /\ Row(m, k, Len(Text(m, a[2]))) = Text(m, a[2])})
         [] call.f \in {"memmove", "memcpy"} ->
              r = s /\ Row(mem, s, a[3]) = Row(m, a[2], a[3]) /\ Keeps(m, s, a[3])
         [] call.f = "memset"  -> /\ \A k \in s .. s + a[3] - 1 : mem[k] = a[2]
                                  /\ r = s /\ Keeps(m, s, a[3])
         [] call.f = "strcpy"  -> /\ Text(mem, s) = Text(m, a[2])
                                  /\ r = s /\ Keeps(m, s, Len(Text(m, a[2])) + 1)
         [] call.f = "strncpy" -> /\ Cut(mem, s, a[3]) = Cut(m, a[2], a[3])
                                  /\ r = s /\ Keeps(m, s, a[3])
         [] call.f = "strcat"  -> /\ Text(mem, s) = Text(m, s) \o Text(m, a[2])
                                  /\ r = s /\ Keeps(m, s, Len(Text(mem, s)) + 1)
         [] call.f = "strncat" -> /\ Text(mem, s) = Text(m, s) \o Cut(m, a[2], a[3])
                                  /\ r = s /\ Keeps(m, s, Len(Text(mem, s)) + 1)
         [] call.f = "strtok"  ->     \* the first run without marks, if there is one
              IF s = Null \/ Rest(s, Marks(m, a[2])) = {}
              THEN r = Null /\ strtokAt = Null /\ mem = m
              ELSE LET e == Least(Span(r, Marks(m, a[2])))
                   IN  /\ r = Least(Rest(s, Marks(m, a[2])))
                       /\ IF e = Null THEN strtokAt = Null /\ mem = m
                          ELSE strtokAt = e + 1 /\ mem = [m EXCEPT ![e] = 0]
         [] call.f = "strsep"  ->     \* up to the first mark, if only nothing
              /\ r = s
              /\ IF s = Null \/ Span(s, Marks(m, a[2])) = {} THEN a[3] = Null /\ mem = m
                 ELSE LET e == Least(Span(s, Marks(m, a[2])))
                      IN  a[3] = e + 1 /\ mem = [m EXCEPT ![e] = 0]

\* Every call keeps the promise of its comment, and changes no byte outside
\* what it writes: names are equal just when strcmp, memcmp and their kin say
\* so, although some of them keep a difference in a signed char; memmove copes
\* with areas that overlap; strtok and strsep cut where the next mark is.
StringsRight == call # NoCall => Promise
=============================================================================
