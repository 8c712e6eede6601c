------------------------------- MODULE Format -------------------------------
(***************************************************************************)
(* Formatted output: proj2/src/lib/stdio.c, atoi() of lib/stdlib.c and the *)
(* buffered writer of lib/user/console.c.  A string is a sequence of       *)
(* one-character strings without its terminator; the terminator is Nul.    *)
(***************************************************************************)
EXTENDS SequencesExt

CONSTANTS
  TypeBits,     \* bits of each type of enum printf_conversion.type, and of "ptr"
  BufSize,      \* sizeof buf in vhprintf_aux (64)
  PerLine       \* bytes per line of hex_dump() (16)

ASSUME FormatAssumption ==
  /\ TypeBits \in [{"CHAR", "SHORT", "INT", "INTMAX", "LONG", "LONGLONG",
                    "PTRDIFFT", "SIZET", "ptr"} -> Nat \ {0}]
  /\ BufSize \in Nat \ {0} /\ PerLine \in Nat \ {0}

Nul == ""
Digits == <<"0", "1", "2", "3", "4", "5", "6", "7", "8", "9">>
DigitSet == ToSet(Digits)
DigitValue(ch) == (CHOOSE i \in 1..10 : Digits[i] = ch) - 1

At(f, i) == IF i <= Len(f) THEN f[i] ELSE Nul
\* The first index from i on whose character is not in S.
SkipWhile(f, i, S) == CHOOSE j \in i..(Len(f) + 1) :
                        At(f, j) \notin S /\ \A k \in i..(j - 1) : f[k] \in S
Decimal(s) == FoldLeft(LAMBDA v, ch : v * 10 + DigitValue(ch), 0, s)
OutputDup(ch, cnt) == IF cnt <= 0 THEN <<>> ELSE [k \in 1..cnt |-> ch]
Smaller(a, b) == IF a < b THEN a ELSE b

-----------------------------------------------------------------------------
(* struct printf_conversion and struct integer_base.                       *)

FlagChars == {"-", "+", " ", "#", "0", "'"}

base_d == [base |-> 10, digits |-> Digits, x |-> Nul, group |-> 3]
base_o == [base |-> 8, digits |-> Digits, x |-> Nul, group |-> 3]
base_x == [base |-> 16, digits |-> Digits \o <<"a", "b", "c", "d", "e", "f">>,
           x |-> "x", group |-> 4]
base_X == [base |-> 16, digits |-> Digits \o <<"A", "B", "C", "D", "E", "F">>,
           x |-> "X", group |-> 4]

\* A number at index i of the format, or the next argument for a `*': its value,
\* the index after it and the arguments left.
NumberAt(f, i, args) ==
  IF At(f, i) = "*" THEN [n |-> args[1], i |-> i + 1, args |-> Tail(args)]
  ELSE LET j == SkipWhile(f, i, DigitSet)
       IN [n |-> Decimal(SubSeq(f, i, j - 1)), i |-> j, args |-> args]

\* The type at index i of the format, and the index after it.
TypeAt(f, i) ==
  CASE At(f, i) = "h" /\ At(f, i + 1) = "h" -> <<"CHAR", i + 2>>
    [] At(f, i) = "h" /\ At(f, i + 1) # "h" -> <<"SHORT", i + 1>>
    [] At(f, i) = "j" -> <<"INTMAX", i + 1>>
    [] At(f, i) = "l" /\ At(f, i + 1) = "l" -> <<"LONGLONG", i + 2>>
    [] At(f, i) = "l" /\ At(f, i + 1) # "l" -> <<"LONG", i + 1>>
    [] At(f, i) = "t" -> <<"PTRDIFFT", i + 1>>
    [] At(f, i) = "z" -> <<"SIZET", i + 1>>
    [] OTHER -> <<"INT", i>>

\* What parse_conversion() makes of the flags seen, the width w and the precision p.
Conversion(f, seen, w, p) ==
  LET flags == (seen \ (IF "-" \in seen THEN {"0"} ELSE {}))
                     \ (IF "+" \in seen THEN {" "} ELSE {})
  IN [flags |-> (flags \cup (IF w.n < 0 THEN {"-"} ELSE {})) \ (IF p.n >= 0 THEN {"0"} ELSE {}),
      width |-> IF w.n < 0 THEN -w.n ELSE w.n,
      precision |-> IF p.n < 0 THEN -1 ELSE p.n,
      type |-> TypeAt(f, p.i)[1], i |-> TypeAt(f, p.i)[2], args |-> p.args]

\* parse_conversion() from index i of the format: the conversion, the index of
\* the conversion character and the arguments left.
ParseConversion(f, i, args) ==
  LET j == SkipWhile(f, i, FlagChars)
      withWidth(w) ==
        Conversion(f, ToSet(SubSeq(f, i, j - 1)), w,
                   IF At(f, w.i) = "." THEN NumberAt(f, w.i + 1, w.args) ELSE [w EXCEPT !.n = -1])
  IN withWidth(NumberAt(f, j, args))

-----------------------------------------------------------------------------
(* The conversions.                                                        *)

\* The digits of a value, the last one first, as they come into buf.
RECURSIVE Accumulate(_, _, _, _)
Accumulate(value, b, grouped, digit_cnt) ==
  IF value = 0 THEN <<>>
  ELSE (IF grouped /\ digit_cnt > 0 /\ digit_cnt % b.group = 0 THEN <<",">> ELSE <<>>)
       \o <<b.digits[(value % b.base) + 1]>>
       \o Accumulate(value \div b.base, b, grouped, digit_cnt + 1)

\* The sign character of format_integer().
SignChar(is_signed, negative, flags) ==
  CASE is_signed /\ negative -> <<"-">>
    [] is_signed /\ ~negative /\ "+" \in flags -> <<"+">>
    [] is_signed /\ ~negative /\ "+" \notin flags /\ " " \in flags -> <<" ">>
    [] OTHER -> <<>>

FormatInteger(value, is_signed, negative, b, c) ==
  LET sign == SignChar(is_signed, negative, c.flags)
      x == IF "#" \in c.flags /\ value # 0 /\ b.x # Nul THEN <<"0", b.x>> ELSE <<>>
      digits == Accumulate(value, b, "'" \in c.flags, 0)
      precision == Smaller(IF c.precision < 0 THEN 1 ELSE c.precision, 63)
      zeros == digits \o OutputDup("0", precision - Len(digits))
      buf == IF "#" \in c.flags /\ b.base = 8 /\ (zeros = <<>> \/ Last(zeros) # "0")
             THEN Append(zeros, "0") ELSE zeros
      pad_cnt == c.width - Len(buf) - Len(x) - Len(sign)
  IN (IF c.flags \cap {"-", "0"} = {} THEN OutputDup(" ", pad_cnt) ELSE <<>>)
     \o sign \o x
     \o (IF "0" \in c.flags THEN OutputDup("0", pad_cnt) ELSE <<>>)
     \o Reverse(buf)
     \o (IF "-" \in c.flags THEN OutputDup(" ", pad_cnt) ELSE <<>>)

\* format_string() of the first `length' characters of s.
FormatString(s, length, c) ==
  LET pad == OutputDup(" ", c.width - length)
  IN (IF "-" \notin c.flags THEN pad ELSE <<>>) \o SubSeq(s, 1, length)
     \o (IF "-" \in c.flags THEN pad ELSE <<>>)

Wrap(v, bits) == v % 2 ^ bits
SignedWrap(v, bits) ==
  IF Wrap(v, bits) < 2 ^ (bits - 1) THEN Wrap(v, bits) ELSE Wrap(v, bits) - 2 ^ bits

NullString == <<"(", "n", "u", "l", "l", ")">>
\* "<<no %c in kernel>>" and "<<no %c conversion>>", but for their words.
Unsupported(ch) == <<"<", "<", "%", ch, ">", ">">>

\* The output of conversion ch, which takes its argument (if any) from c.args.
Convert(ch, c) ==
  LET arg == c.args[1]
      v == SignedWrap(arg, TypeBits[c.type])
      u == Wrap(arg, TypeBits[c.type])
  IN CASE ch \in {"d", "i"} -> FormatInteger(IF v < 0 THEN -v ELSE v, TRUE, v < 0, base_d, c)
       [] ch = "o" -> FormatInteger(u, FALSE, FALSE, base_o, c)
       [] ch = "u" -> FormatInteger(u, FALSE, FALSE, base_d, c)
       [] ch = "x" -> FormatInteger(u, FALSE, FALSE, base_x, c)
       [] ch = "X" -> FormatInteger(u, FALSE, FALSE, base_X, c)
       [] ch = "c" -> FormatString(arg, 1, c)
       [] ch = "s" -> LET s == IF arg = Nul THEN NullString ELSE arg
                      IN FormatString(s, IF c.precision < 0 THEN Len(s)
                                         ELSE Smaller(Len(s), c.precision), c)
       [] ch = "p" -> FormatInteger(Wrap(arg, TypeBits["ptr"]), FALSE, FALSE, base_x,
                                    [c EXCEPT !.flags = {"#"}])
       [] OTHER -> Unsupported(ch)

TakesArgument == {"d", "i", "o", "u", "x", "X", "c", "s", "p"}

\* __vprintf() from index i on.  A format that ends within a conversion is read
\* past its terminator: formats here are complete.
RECURSIVE Vprintf(_, _, _)
Vprintf(f, i, args) ==
  IF i > Len(f) THEN <<>>
  ELSE IF f[i] # "%" THEN <<f[i]>> \o Vprintf(f, i + 1, args)
  ELSE IF At(f, i + 1) = "%" THEN <<"%">> \o Vprintf(f, i + 2, args)
  ELSE LET next(c) ==
             Convert(At(f, c.i), c)
               \o Vprintf(f, c.i + 1, IF At(f, c.i) \in TakesArgument THEN Tail(c.args) ELSE c.args)
       IN next(ParseConversion(f, i + 1, args))

Printf(f, args) == Vprintf(f, 1, args)

-----------------------------------------------------------------------------
(* The callers: what the `output' function makes of the characters.        *)

\* vsnprintf_helper(): counts on, but writes only while there is room.
VsnprintfHelper(aux, ch) ==
  [aux EXCEPT !.length = @ + 1, !.buf = IF aux.length < aux.max_length THEN Append(@, ch) ELSE @]

\* vsnprintf(): the bytes written from BUFFER on, and the result.
Vsnprintf(buf_size, out) ==
  LET aux == FoldLeft(VsnprintfHelper,
                      [buf |-> <<>>, length |-> 0,
                       max_length |-> IF buf_size > 0 THEN buf_size - 1 ELSE 0], out)
  IN [buf |-> IF buf_size > 0 THEN Append(aux.buf, Nul) ELSE aux.buf, ret |-> aux.length]

\* flush() in user/console.c: one write() per call, and none of nothing.
Flush(aux) == [aux EXCEPT !.writes = IF aux.buf # <<>> THEN Append(@, aux.buf) ELSE @,
                          !.buf = <<>>]

AddChar(aux, c) ==
  LET added == [aux EXCEPT !.buf = Append(@, c), !.char_cnt = @ + 1]
  IN IF Len(added.buf) >= BufSize THEN Flush(added) ELSE added

Vhprintf(out) ==
  Flush(FoldLeft(AddChar, [buf |-> <<>>, writes |-> <<>>, char_cnt |-> 0], out))

\* atoi(): the value is built negative and negated at the end.
Atoi(s, bits) ==
  LET i == SkipWhile(s, 1, {" ", "\t", "\n"})
      j == IF At(s, i) \in {"+", "-"} THEN i + 1 ELSE i
      digits == SubSeq(s, j, SkipWhile(s, j, DigitSet) - 1)
      value == FoldLeft(LAMBDA v, ch : SignedWrap(v * 10 - DigitValue(ch), bits), 0, digits)
  IN IF At(s, i) = "-" THEN value ELSE SignedWrap(-value, bits)

-----------------------------------------------------------------------------
(* hex_dump() and print_human_readable_size().                             *)

\* The bytes that isprint() accepts: the hexadecimal digits stand for them.
Glyphs == [b \in (48..57) \cup (97..102) |->
             base_x.digits[IF b < 58 THEN b - 47 ELSE b - 86]]

HexByte(b) == FormatInteger(b, FALSE, FALSE, base_x,
                            [flags |-> {"0"}, width |-> 2, precision |-> -1])
HexOffset(ofs) == FormatInteger(ofs, FALSE, FALSE, base_x,
                                [flags |-> {"0"}, width |-> 8, precision |-> -1])

\* The columns of one line that holds the bytes buf from column `start' on.
HexColumn(i, start, buf) ==
  IF i < start \/ i >= start + Len(buf) THEN OutputDup(" ", 3)
  ELSE HexByte(buf[i - start + 1]) \o <<IF i = (PerLine \div 2) - 1 THEN "-" ELSE " ">>

AsciiColumn(i, start, buf) ==
  IF i < start \/ i >= start + Len(buf) THEN " "
  ELSE LET b == buf[i - start + 1] IN IF b \in DOMAIN Glyphs THEN Glyphs[b] ELSE "."

HexLine(ofs, start, buf, ascii) ==
  HexOffset(ofs - start) \o <<" ", " ">>
  \o FlattenSeq([i \in 1..(IF ascii THEN PerLine ELSE start + Len(buf)) |->
                   HexColumn(i - 1, start, buf)])
  \o (IF ascii THEN <<"|">> \o [i \in 1..PerLine |-> AsciiColumn(i - 1, start, buf)] \o <<"|">>
      ELSE <<>>)

\* How many of the bytes hex_dump() puts on the next line.
BytesOnLine(ofs, size) == Smaller(PerLine - (ofs % PerLine), size)

RECURSIVE HexDump(_, _, _)
HexDump(ofs, buf, ascii) ==
  IF buf = <<>> THEN <<>>
  ELSE LET n == BytesOnLine(ofs, Len(buf))
       IN <<HexLine(ofs, ofs % PerLine, SubSeq(buf, 1, n), ascii)>>
          \o HexDump(ofs + n, SubSeq(buf, n + 1, Len(buf)), ascii)

Factors == <<"bytes", "kB", "MB", "GB", "TB">>

\* The loop of print_human_readable_size(): the number and the index of its unit.
RECURSIVE Scaled(_, _)
Scaled(size, fp) ==
  IF size >= 1024 /\ fp < Len(Factors) THEN Scaled(size \div 1024, fp + 1) ELSE <<size, fp>>

PrintHumanReadableSize(size) ==
  IF size = 1 THEN <<1, "byte">> ELSE <<Scaled(size, 1)[1], Factors[Scaled(size, 1)[2]]>>

-----------------------------------------------------------------------------
(* What they promise.                                                      *)

\* The characters between the pads.
Trim(s) == SelectSeq(s, LAMBDA ch : ch # " ")
\* A number read back in the given base, without its group separators.
ReadBack(s, b) ==
  FoldLeft(LAMBDA v, ch : v * b.base + ((CHOOSE i \in 1..b.base : b.digits[i] = ch) - 1), 0,
           SelectSeq(s, LAMBDA ch : ch # ","))

\* Integer conversions, for an argument of a type and a format "%<flags><width>.<p>": the
\* field is as wide as asked for and no wider than it must be, what is between
\* the pads reads back as the value of that type in each base, with the sign
\* and the prefix asked for, and atoi() of the decimal form is the number again.
\* A negative width from an argument sets MINUS after ZERO has been dropped for
\* it, and "%0*d" then pads on both sides: its width is exempt.  out has the
\* text by conversion, natural the same without a width.
TextsReadBack(v, bits, flags, width, precision, out, natural) ==
  LET sv == SignedWrap(v, bits)
      w == IF width < 0 THEN -width ELSE width
      padsTwice == width < 0 /\ "0" \in flags /\ "-" \notin flags /\ precision < 0
      unsigned(s) == IF Len(s) >= 2 /\ s[2] \in {"x", "X"} THEN SubSeq(s, 3, Len(s)) ELSE s
      signed(s) == IF s # <<>> /\ s[1] \in {"+", "-"} THEN Tail(s) ELSE s
  IN /\ \A ch \in DOMAIN out :
          /\ Len(out[ch]) >= w
          /\ Len(out[ch]) > w /\ ~padsTwice => Trim(out[ch]) = Trim(natural[ch])
     /\ ReadBack(signed(Trim(out["d"])), base_d) = IF sv < 0 THEN -sv ELSE sv
     /\ (sv < 0) = Contains(out["d"], "-")
     /\ "+" \in flags => (sv >= 0) = Contains(out["d"], "+")
     /\ "'" \notin flags => Atoi(out["d"], bits) = sv
     /\ \A ch \in {"u", "o", "x", "X"} :
          ReadBack(unsigned(Trim(out[ch])),
                   CASE ch = "u" -> base_d [] ch = "o" -> base_o
                     [] ch = "x" -> base_x [] OTHER -> base_X) = Wrap(v, bits)

\* TextsReadBack for what __vprintf() puts out.
IntegersReadBack(v, type, flags, width, precision) ==
  LET length == CASE type = "CHAR" -> <<"h", "h">> [] type = "SHORT" -> <<"h">>
                  [] type = "SIZET" -> <<"z">> [] OTHER -> <<>>
      texts(fl, w) == [ch \in {"d", "u", "o", "x", "X"} |->
                         Printf(<<"%">> \o fl \o <<"*", ".", "*">> \o length \o <<ch>>,
                                <<w, precision, v>>)]
  IN TextsReadBack(v, TypeBits[type], ToSet(flags), width, precision, texts(flags, width),
                   texts(SelectSeq(flags, LAMBDA c : c # "0"), 0))

\* snprintf() stays within its buffer, terminates it, stores a prefix of the output
\* and returns the length of all of it; the writes of the user's printf() are
\* the output in order, in pieces that fit the buffer, and count all of it.
OutputBounded(out, buf_size) ==
  LET r == Vsnprintf(buf_size, out)
      u == Vhprintf(out)
  IN /\ Len(r.buf) <= buf_size
     /\ r.ret = Len(out)
     /\ buf_size > 0 => /\ Last(r.buf) = Nul
                        /\ Front(r.buf) = SubSeq(out, 1, Smaller(Len(out), buf_size - 1))
     /\ FlattenSeq(u.writes) = out /\ u.char_cnt = Len(out) /\ u.buf = <<>>
     /\ \A k \in DOMAIN u.writes : Len(u.writes[k]) \in 1..BufSize

\* A dump shows every byte once, in the column of its address, and starts every
\* line at a multiple of the line's length.
DumpAligned(ofs, buf, ascii) ==
  LET lines == HexDump(ofs, buf, ascii)
      line(a) == lines[(a \div PerLine) - (ofs \div PerLine) + 1]
      col(a) == 10 + 3 * (a % PerLine)
  IN /\ Len(lines) = IF buf = <<>> THEN 0
                     ELSE ((ofs + Len(buf) - 1) \div PerLine) - (ofs \div PerLine) + 1
     /\ \A k \in DOMAIN buf :
          LET a == ofs + k - 1
          IN /\ ReadBack(SubSeq(line(a), col(a) + 1, col(a) + 2), base_x) = buf[k]
             /\ ReadBack(SubSeq(line(a), 1, 8), base_x) = a - (a % PerLine)
             /\ ascii => /\ Len(line(a)) = 12 + 4 * PerLine
                         /\ line(a)[11 + 3 * PerLine + (a % PerLine) + 1] =
                              IF buf[k] \in DOMAIN Glyphs THEN Glyphs[buf[k]] ELSE "."

\* A size is rounded down to three digits or so of the largest unit below it.
SizeRounded(size) ==
  \E k \in DOMAIN Factors :
    LET p == PrintHumanReadableSize(size)
    IN /\ p[2] = Factors[k] \/ (p[2] = "byte" /\ k = 1)
       /\ p[1] = size \div 1024 ^ (k - 1)
       /\ p[1] < 1024 /\ (k > 1 => p[1] > 0)
=============================================================================
