-------------------------------- MODULE Lib ---------------------------------
(***************************************************************************)
(* The number formatting and memory copy of lib.c as pure operators.       *)
(*                                                                         *)
(* A character is a one-character string; a C string is a sequence of      *)
(* characters, read as if followed by NUL (CharAt).  A machine word is a   *)
(* number in 0 .. 2^WIDTH - 1, the bits of a uint32_t; int32_t reads the   *)
(* same bits as two's complement.  Memory is a function from addresses to  *)
(* byte values.                                                            *)
(***************************************************************************)
EXTENDS Integers, SequencesExt

CONSTANTS
    WIDTH,       \* bits of a word: 32 in the code
    Words,       \* word values printf is given for %d, %u and %x
    Strings,     \* strings printf is given for %s
    Chars,       \* characters printf is given for %c
    MaxTokens,   \* conversions and text characters per checked format
    MemSize,     \* addresses 0 .. MemSize - 1
    MaxCopy      \* largest n given to memcpy

NUL == ""
Modulus == 2^WIDTH

\* s[i] of the C string s.
CharAt(s, i) == IF i < Len(s) THEN s[i + 1] ELSE NUL

\* The first 16 characters of itoa's lookup table; radix is 10 or 16.
lookup == <<"0", "1", "2", "3", "4", "5", "6", "7", "8", "9",
            "A", "B", "C", "D", "E", "F">>

\* The int32_t that *((int32_t*)esp) reads from a word.
Signed(w) == IF w >= Modulus \div 2 THEN w - Modulus ELSE w

-----------------------------------------------------------------------------
(* Strings and numbers (lib.c:159-275)                                     *)

\* The characters puts() passes to putc: those before the first NUL.
RECURSIVE puts(_, _)
puts(s, i) == IF CharAt(s, i) = NUL THEN <<>> ELSE <<s[i + 1]>> \o puts(s, i + 1)

\* strrev(): swap s[beg] and s[end] while beg < end, end from strlen - 1.
RECURSIVE strrev_loop(_, _, _)
strrev_loop(s, beg, end) ==
    IF beg < end
    THEN strrev_loop([s EXCEPT ![beg + 1] = s[end + 1], ![end + 1] = s[beg + 1]],
                     beg + 1, end - 1)
    ELSE s

strrev(s) == strrev_loop(s, 0, Len(s) - 1)

\* itoa's loop: lookup[newval % radix], lowest place value first.
RECURSIVE itoa_digits(_, _)
itoa_digits(newval, radix) ==
    IF newval > 0
    THEN <<lookup[(newval % radix) + 1]>> \o itoa_digits(newval \div radix, radix)
    ELSE <<>>

\* itoa(value, buf, radix): "0" for zero, else the digits reversed.
itoa(value, radix) ==
    IF value = 0 THEN <<"0">> ELSE strrev(itoa_digits(value, radix))

\* Mutant: the zero padding loop of %#x runs while i <= 8, over the
\* first digit.
zero_fill_over(conv_buf, starting_index) ==
    [j \in DOMAIN conv_buf |->
        IF j >= starting_index /\ j <= 8 THEN "0" ELSE conv_buf[j]]

\* The %#x loop: conv_buf[i] = '0' for i from starting_index while i < 8.
zero_fill(conv_buf, starting_index) ==
    [j \in DOMAIN conv_buf |->
        IF j >= starting_index /\ j < 8 THEN "0" ELSE conv_buf[j]]

\* %#x: itoa into &conv_buf[8], starting_index = strlen(&conv_buf[8]),
\* the zero fill, and puts(&conv_buf[starting_index]).  conv_buf is
\* indexed from 0 as in C; the bytes below starting_index are never read
\* and are left NUL.
hex_alternate(w) ==
    LET digits == itoa(w, 16)
        starting_index == Len(digits)
        conv_buf == [i \in 0 .. 8 + Len(digits) |->
                        IF i >= 8 /\ i < 8 + Len(digits) THEN digits[i - 7] ELSE NUL]
        filled == zero_fill(conv_buf, starting_index)
    IN  puts([j \in 1 .. 9 + Len(digits) |-> filled[j - 1]], starting_index)

\* The format_char_switch label: skip '#'s, setting alternate.
RECURSIVE format_char_switch(_, _, _)
format_char_switch(fmt, i, alternate) ==
    IF CharAt(fmt, i) = "#" THEN format_char_switch(fmt, i + 1, 1)
    ELSE [i |-> i, alternate |-> alternate]

\* One conversion: what it prints and whether it consumes an argument
\* (esp++).  An unknown conversion character prints nothing.
conversion(c, alternate, arg) ==
    CASE c = "%" -> [out |-> <<"%">>, used |-> 0]
      [] c = "x" -> [out |-> IF alternate = 0 THEN puts(itoa(arg, 16), 0)
                             ELSE hex_alternate(arg),
                     used |-> 1]
      [] c = "u" -> [out |-> puts(itoa(arg, 10), 0), used |-> 1]
      [] c = "d" -> [out |-> IF Signed(arg) < 0
                             THEN <<"-">> \o puts(itoa((-Signed(arg)) % Modulus, 10), 0)
                             ELSE puts(itoa(Signed(arg), 10), 0),
                     used |-> 1]
      [] c = "c" -> [out |-> <<arg>>, used |-> 1]
      [] c = "s" -> [out |-> puts(arg, 0), used |-> 1]
      [] OTHER -> [out |-> <<>>, used |-> 0]

\* printf(format, ...): the characters it passes to putc.  i indexes the
\* format, k the arguments (esp).
RECURSIVE printf_loop(_, _, _, _)
printf_loop(fmt, args, i, k) ==
    IF CharAt(fmt, i) = NUL THEN <<>>
    ELSE IF CharAt(fmt, i) = "%"
    THEN LET f == format_char_switch(fmt, i + 1, 0)
             c == conversion(CharAt(fmt, f.i), f.alternate,
                             IF k <= Len(args) THEN args[k] ELSE NUL)
         IN  c.out \o printf_loop(fmt, args, f.i + 1, k + c.used)
    ELSE <<fmt[i + 1]>> \o printf_loop(fmt, args, i + 1, k)

printf(fmt, args) == printf_loop(fmt, args, 0, 1)

-----------------------------------------------------------------------------
(* memcpy (lib.c:369-409)                                                  *)

\* Byte moves from s to d, lowest address first (movsb, and movsl of
\* non-overlapping areas).
RECURSIVE movs(_, _, _, _)
movs(mem, d, s, k) ==
    IF k = 0 THEN mem ELSE movs([mem EXCEPT ![d] = mem[s]], d + 1, s + 1, k - 1)

\* Mutant: the bottom loop is dropped, so the n % 4 bytes after the last
\* dword are not copied.
memcpy_aligned_notail(mem, d, s, c) == movs(mem, d, s, 4 * (c \div 4))

\* .memcpy_aligned: ecx >> 2 dwords by rep movsl, then the ecx & 3 bytes
\* left by the bottom loop.
memcpy_aligned(mem, d, s, c) ==
    LET dwords == c \div 4
        edx == c % 4
    IN  movs(movs(mem, d, s, 4 * dwords), d + 4 * dwords, s + 4 * dwords, edx)

\* .memcpy_top: one byte at a time until edi is 4-aligned or ecx is 0.
RECURSIVE memcpy_top(_, _, _, _)
memcpy_top(mem, d, s, c) ==
    IF c = 0 THEN mem
    ELSE IF d % 4 # 0 THEN memcpy_top([mem EXCEPT ![d] = mem[s]], d + 1, s + 1, c - 1)
    ELSE memcpy_aligned(mem, d, s, c)

memcpy(mem, dest, src, n) == memcpy_top(mem, dest, src, n)

-----------------------------------------------------------------------------
(* The references                                                          *)

\* The digits of v in base b, most significant first.
RECURSIVE RefDigits(_, _)
RefDigits(v, b) ==
    IF v < b THEN <<lookup[v + 1]>> ELSE RefDigits(v \div b, b) \o <<lookup[(v % b) + 1]>>

\* The output the lib.c header comment gives each conversion: %x hex,
\* %u unsigned, %d signed, %c a character, %s a string, %% a '%', and
\* %#x "8 hexadecimal digits, zero-padded on the left" ("0000000E").
Tokens == {"%%", "%x", "%#x", "%u", "%d", "%c", "%s", "a"}

TokenChars(t) ==
    CASE t = "%%" -> <<"%", "%">> [] t = "%x" -> <<"%", "x">>
      [] t = "%#x" -> <<"%", "#", "x">> [] t = "%u" -> <<"%", "u">>
      [] t = "%d" -> <<"%", "d">> [] t = "%c" -> <<"%", "c">>
      [] t = "%s" -> <<"%", "s">> [] OTHER -> <<t>>

TokenArgs(t) ==
    CASE t \in {"%x", "%#x", "%u", "%d"} -> Words
      [] t = "%c" -> Chars
      [] t = "%s" -> Strings
      [] OTHER -> {}

TokenOut(t, a) ==
    CASE t = "%%" -> <<"%">>
      [] t = "%x" -> RefDigits(a, 16)
      [] t = "%#x" -> [j \in 1 .. 8 - Len(RefDigits(a, 16)) |-> "0"] \o RefDigits(a, 16)
      [] t = "%u" -> RefDigits(a, 10)
      [] t = "%d" -> IF a >= Modulus \div 2 THEN <<"-">> \o RefDigits(Modulus - a, 10)
                     ELSE RefDigits(a, 10)
      [] t = "%c" -> <<a>>
      [] t = "%s" -> a
      [] OTHER -> <<t>>

\* A format of tokens with one argument for each conversion that takes
\* one: a sequence of <<token, argument>>, or <<token>> for none.
Formats ==
    LET Item == UNION {IF TokenArgs(t) = {} THEN {<<t>>}
                       ELSE {<<t, a>> : a \in TokenArgs(t)} : t \in Tokens}
    IN  UNION {[1 .. n -> Item] : n \in 0 .. MaxTokens}

\* Spec: the lib.c header comment of printf.  For every format of up to
\* MaxTokens conversions and characters, and every argument they take,
\* printf passes to putc exactly what the comment says each conversion
\* prints: the digits of itoa and strrev, the sign of %d (INT_MIN
\* included), the zero padding %#x builds in conv_buf by index, and one
\* argument consumed per conversion (none for %%).
PrintfFormats ==
    \A toks \in Formats :
        LET fmt == FlattenSeq([i \in 1 .. Len(toks) |-> TokenChars(toks[i][1])])
            withArg == SelectSeq(toks, LAMBDA it : Len(it) = 2)
            args == [i \in 1 .. Len(withArg) |-> withArg[i][2]]
        IN  printf(fmt, args) =
                FlattenSeq([i \in 1 .. Len(toks) |->
                               TokenOut(toks[i][1], toks[i][Len(toks[i])])])

\* memcpy copies n bytes from src to dest, whatever their alignment, and
\* writes nothing else: the head loop to a 4-aligned edi, the ecx >> 2
\* dwords and the ecx & 3 bytes after them.  (The source and destination
\* do not overlap, as in every call of the kernel.)
MemcpyCopies ==
    LET mem == [a \in 0 .. MemSize - 1 |-> 100 + a]
    IN  \A dest \in 0 .. 3, src \in 0 .. 3, n \in 0 .. MaxCopy :
            LET s == MemSize - MaxCopy - 4 + src
            IN  memcpy(mem, dest, s, n) =
                    [a \in DOMAIN mem |-> IF a \in dest .. dest + n - 1
                                          THEN mem[s + a - dest] ELSE mem[a]]

=============================================================================
