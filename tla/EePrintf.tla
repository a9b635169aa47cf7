--------------------------------- MODULE EePrintf ---------------------------------
(***************************************************************************)
(* The printing of a bare-metal CoreMark: ee_vsprintf with number, eaddr,  *)
(* iaddr, flt and parse_float (sw/coremark/barebones/ee_printf.c), the     *)
(* conversion of a fraction (cvt.c), and uart_send_char, which writes the  *)
(* text to the UART of the board (barebone-arty-a7/ee_printf.c).           *)
(*                                                                         *)
(* A text is a sequence of one-character strings, a fraction is exact:     *)
(* [neg, int, frac], frac the digits after the point, neg of a number      *)
(* below zero.  %e and %g are no conversions of ee_vsprintf, and their     *)
(* half of parse_float is left out.                                        *)
(***************************************************************************)
EXTENDS Integers, Sequences, FiniteSets, SequencesExt

CONSTANTS Bits,     \* width of int and long
          Calls,    \* sets of directives printed: [flags, width, star, precision, conv, long,
                    \* arg], of one kind of argument each
          Lines,    \* the formats of those whose text is sent to the UART
          Depth     \* entries of the UART's transmit queue

digits == <<"0","1","2","3","4","5","6","7","8","9","a","b","c","d","e","f">>
upper_digits == <<"0","1","2","3","4","5","6","7","8","9","A","B","C","D","E","F">>
DigitOf(ch) == CHOOSE n \in 0 .. 9 : digits[n + 1] = ch
is_digit(ch) == \E n \in 0 .. 9 : digits[n + 1] = ch

Pad(n, ch) == [k \in 1 .. (IF n > 0 THEN n ELSE 0) |-> ch]
Most(a, b) == IF a > b THEN a ELSE b

RECURSIVE InBase(_, _, _)
InBase(n, base, dig) ==
  IF n < base THEN <<dig[n + 1]>> ELSE Append(InBase(n \div base, base, dig), dig[(n % base) + 1])

\* The sign character, if any.
SignOf(neg, type) ==
  IF "SIGN" \notin type THEN <<>>
  ELSE IF neg THEN <<"-">>
  ELSE IF "PLUS" \in type THEN <<"+">>
  ELSE IF "SPACE" \in type THEN <<" ">> ELSE <<>>

\* head and body in a field: blanks or zeros where type says.
Field(head, body, size, type) ==
  LET pad == size - Len(head) - Len(body)
  IN  IF "LEFT" \in type THEN head \o body \o Pad(pad, " ")
      ELSE IF "ZEROPAD" \in type THEN head \o Pad(pad, "0") \o body
      ELSE Pad(pad, " ") \o head \o body

Prefix(base) == CASE base = 16 -> <<"0", "x">> [] base = 8 -> <<"0">> [] OTHER -> <<>>

\* The magnitude is that of a long, and the negative of the least one is itself.
number(num, base, size, precision, type) ==
  LET neg  == "SIGN" \in type /\ num < 0
      mag  == (IF neg THEN -num ELSE num) % 2^Bits
      tmp  == InBase(mag, base, IF "UPPERCASE" \in type THEN upper_digits ELSE digits)
      head == SignOf(neg, type) \o (IF "HEX_PREP" \in type THEN Prefix(base) ELSE <<>>)
  IN  Field(head, Pad(precision - Len(tmp), "0") \o tmp, size, type)

\* Six bytes in hexadecimal, four in decimal; zeros are never padded with.
Joined(parts, sep) == FoldLeft(LAMBDA t, p : IF t = <<>> THEN p ELSE t \o <<sep>> \o p, <<>>, parts)
eaddr(addr, size, type) ==
  LET dig == IF "UPPERCASE" \in type THEN upper_digits ELSE digits
  IN  Field(<<>>, Joined([i \in 1 .. 6 |-> <<dig[(addr[i] \div 16) + 1], dig[(addr[i] % 16) + 1]>>],
                         ":"), size, type \ {"ZEROPAD"})

AddressByte(n) ==
  LET digit(d) == digits[d + 1]
  IN  IF n >= 100 THEN <<digit(n \div 100), digit((n % 100) \div 10), digit(n % 10)>>
      ELSE IF n >= 10 THEN <<digit(n \div 10), digit(n % 10)>> ELSE <<digit(n)>>
iaddr(addr, size, type) ==
  Field(<<>>, Joined([i \in 1 .. 4 |-> AddressByte(addr[i])], "."), size, type \ {"ZEROPAD"})

--------------------------------------------------------------------------------
\* Digits of the number n, to the length len at least.
Decimal(n, len) == LET t == InBase(n, 10, digits) IN Pad(len - Len(t), "0") \o t

ValueOf(ds) == FoldLeft(LAMBDA n, d : 10 * n + d, 0, ds)
LeadingZeros(ds) ==
  IF \A k \in DOMAIN ds : ds[k] = 0 THEN 0 ELSE (CHOOSE k \in DOMAIN ds :
    ds[k] # 0 /\ \A j \in 1 .. k - 1 : ds[j] = 0) - 1

\* The digits of a number that is not negative, rounded after ndigits places
\* behind the point, and the place of the point (fcvtbuf).
\* Mutant: the carry out of the first digit does not move the point.
Rounded_NoCarry(raw, decpt) ==
  LET n == Len(raw) - 1
      m == ValueOf(SubSeq(raw, 1, n)) + (IF raw[n + 1] >= 5 THEN 1 ELSE 0)
  IN  [digits |-> IF n = 0 /\ m = 0 THEN <<>> ELSE Decimal(m, n), decpt |-> decpt]

Rounded(raw, decpt) ==
  LET n == Len(raw) - 1
      m == ValueOf(SubSeq(raw, 1, n)) + (IF raw[n + 1] >= 5 THEN 1 ELSE 0)
  IN  [digits |-> IF n = 0 /\ m = 0 THEN <<>> ELSE Decimal(m, n),
       decpt |-> IF m = 10^n THEN decpt + 1 ELSE decpt]

cvt(int, frac, ndigits) ==
  LET whole == IF int = 0 THEN <<>> ELSE [k \in DOMAIN Decimal(int, 0) |-> DigitOf(Decimal(int, 0)[k])]
      z     == IF int = 0 THEN LeadingZeros(frac) ELSE 0
      decpt == Len(whole) - z
      all   == whole \o SubSeq(frac, z + 1, Len(frac)) \o Pad(ndigits + z + 1, 0)
  IN  IF ndigits + decpt < 0 THEN [digits |-> <<>>, decpt |-> decpt]
      ELSE Rounded(SubSeq(all, 1, ndigits + decpt + 1), decpt)

parse_float(int, frac, precision) ==
  LET c == cvt(int, frac, precision)
      n == Len(c.digits)
  IN  IF n = 0 THEN <<"0">> \o (IF precision > 0 THEN <<".">> \o Pad(precision, "0") ELSE <<>>)
      ELSE IF c.decpt <= 0 THEN <<"0", ".">> \o Pad(-c.decpt, "0") \o c.digits
      ELSE SubSeq(c.digits, 1, c.decpt)
           \o (IF n > c.decpt THEN <<".">> \o SubSeq(c.digits, c.decpt + 1, n) ELSE <<>>)

\* A point is added behind a number without one, if asked for.
decimal_point(tmp) == IF \E k \in DOMAIN tmp : tmp[k] = "." THEN tmp ELSE Append(tmp, ".")

flt(num, size, precision, flags) ==
  LET places == IF precision < 0 THEN 6 ELSE precision
      tmp    == parse_float(num.int, num.frac, places)
  IN  Field(SignOf(num.neg, flags),
            IF "HEX_PREP" \in flags /\ places = 0 THEN decimal_point(tmp) ELSE tmp, size, flags)

--------------------------------------------------------------------------------
\* ee_vsprintf.  Position k of fmt, the flags so far.
At(fmt, k) == IF k \in DOMAIN fmt THEN fmt[k] ELSE "end"
FlagOf == [c \in {"-", "+", " ", "#", "0"} |->
             CASE c = "-" -> "LEFT" [] c = "+" -> "PLUS" [] c = " " -> "SPACE"
               [] c = "#" -> "HEX_PREP" [] OTHER -> "ZEROPAD"]

RECURSIVE Flags(_, _, _)
Flags(fmt, k, flags) ==
  IF At(fmt, k) \in DOMAIN FlagOf THEN Flags(fmt, k + 1, flags \cup {FlagOf[fmt[k]]})
  ELSE [k |-> k, flags |-> flags]

RECURSIVE skip_atoi(_, _, _)
skip_atoi(fmt, k, i) ==
  IF is_digit(At(fmt, k)) THEN skip_atoi(fmt, k + 1, 10 * i + DigitOf(fmt[k])) ELSE [k |-> k, n |-> i]

\* A width or a precision: digits, a star for the next argument, or none.
Number(fmt, k, args) ==
  IF is_digit(At(fmt, k))
  THEN LET a == skip_atoi(fmt, k, 0) IN [k |-> a.k, n |-> a.n, args |-> args, given |-> TRUE]
  ELSE IF At(fmt, k) = "*" THEN [k |-> k + 1, n |-> args[1], args |-> Tail(args), given |-> TRUE]
  ELSE [k |-> k, n |-> -1, args |-> args, given |-> FALSE]

\* The text of one conversion.  num is signed for d and i alone.
Unsigned(x) == x % 2^Bits
Signed(x)   == IF Unsigned(x) >= 2^(Bits - 1) THEN Unsigned(x) - 2^Bits ELSE Unsigned(x)
Convert(c, arg, width, precision, flags, long) ==
  CASE c = "c" -> Field(<<>>, <<arg>>, width, flags \ {"ZEROPAD"})
    [] c = "s" -> Field(<<>>, IF precision >= 0 /\ precision < Len(arg)
                              THEN SubSeq(arg, 1, precision) ELSE arg, width, flags \ {"ZEROPAD"})
    [] c = "p" -> IF width = -1 THEN number(arg, 16, Bits \div 4, precision, flags \cup {"ZEROPAD"})
                  ELSE number(arg, 16, width, precision, flags)
    [] c \in {"a", "A"} -> LET type == flags \cup (IF c = "A" THEN {"UPPERCASE"} ELSE {})
                           IN  IF long THEN eaddr(arg, width, type) ELSE iaddr(arg, width, type)
    [] c = "o" -> number(Unsigned(arg), 8, width, precision, flags)
    [] c = "x" -> number(Unsigned(arg), 16, width, precision, flags)
    [] c = "X" -> number(Unsigned(arg), 16, width, precision, flags \cup {"UPPERCASE"})
    [] c = "u" -> number(Unsigned(arg), 10, width, precision, flags)
    [] c \in {"d", "i"} -> number(Signed(arg), 10, width, precision, flags \cup {"SIGN"})
    [] c = "f" -> flt(arg, width, precision, flags \cup {"SIGN"})

Conversions == {"c", "s", "p", "a", "A", "o", "x", "X", "u", "d", "i", "f"}

\* One % directive from position k: the text, the position and arguments after it.
Directive(fmt, k, args) ==
  LET f == Flags(fmt, k + 1, {})
      w == Number(fmt, f.k, args)
      left  == IF w.given /\ w.n < 0 THEN f.flags \cup {"LEFT"} ELSE f.flags
      width == IF w.given /\ w.n < 0 THEN -w.n ELSE w.n
      dot == At(fmt, w.k) = "."
      p == IF dot THEN Number(fmt, w.k + 1, w.args) ELSE [k |-> w.k, n |-> -1, args |-> w.args]
      precision == IF dot THEN Most(p.n, 0) ELSE -1
      long == At(fmt, p.k) \in {"l", "L"}
      at   == IF long THEN p.k + 1 ELSE p.k
      c    == At(fmt, at)
  IN  IF c \in Conversions
      THEN [text |-> Convert(c, p.args[1], width, precision, left, At(fmt, p.k) = "l"),
            k |-> at + 1, args |-> Tail(p.args)]
      ELSE [text |-> (IF c # "%" THEN <<"%">> ELSE <<>>) \o (IF c = "end" THEN <<>> ELSE <<c>>),
            k |-> IF c = "end" THEN at ELSE at + 1, args |-> p.args]

RECURSIVE VsprintfFrom(_, _, _)
VsprintfFrom(fmt, k, args) ==
  IF k \notin DOMAIN fmt THEN <<>>
  ELSE IF fmt[k] # "%" THEN <<fmt[k]>> \o VsprintfFrom(fmt, k + 1, args)
  ELSE LET d == Directive(fmt, k, args) IN d.text \o VsprintfFrom(fmt, d.k, d.args)

ee_vsprintf(fmt, args) == VsprintfFrom(fmt, 1, args)

--------------------------------------------------------------------------------
VARIABLES call,    \* what is printed
          text,    \* what ee_printf has still to send
          pc,      \* where uart_send_char is
          queue,   \* the UART's transmit queue
          line     \* what has left the UART
vars == <<call, text, pc, queue, line>>

Digits(n) == Decimal(n, 0)

\* The format string of a call, in brackets, and its arguments.
Format(c) ==
  <<"[", "%">> \o c.flags
  \o (IF c.star THEN <<"*">> ELSE IF c.width >= 0 THEN Digits(c.width) ELSE <<>>)
  \o (IF c.precision >= 0 THEN <<".">> \o Digits(c.precision) ELSE <<>>)
  \o (IF c.long THEN <<"l">> ELSE <<>>) \o <<c.conv, "]">>
Arguments(c) == IF c.star THEN <<c.width, c.arg>> ELSE <<c.arg>>

Init ==
  /\ \E kind \in DOMAIN Calls : call \in Calls[kind]
  /\ text = ee_vsprintf(Format(call), Arguments(call))
  /\ pc = (IF Format(call) \in Lines THEN "before" ELSE "returned")
  /\ queue = <<>> /\ line = <<>>

Full == Len(queue) = Depth

\* Poll the full bit, write a character, poll again.
AwaitRoom ==
  /\ pc = "before" /\ ~Full
  /\ pc' = "write"
  /\ UNCHANGED <<call, text, queue, line>>

\* A write to a full queue is lost.
WriteChar ==
  /\ pc = "write"
  /\ queue' = IF Full THEN queue ELSE Append(queue, text[1])
  /\ text' = Tail(text)
  /\ pc' = "after"
  /\ UNCHANGED <<call, line>>

AwaitAgain ==
  /\ pc = "after" /\ ~Full
  /\ pc' = IF text = <<>> THEN "returned" ELSE "before"
  /\ UNCHANGED <<call, text, queue, line>>

\* The UART sends the oldest character, in its own time.
Transmit ==
  /\ queue # <<>>
  /\ line' = Append(line, queue[1])
  /\ queue' = Tail(queue)
  /\ UNCHANGED <<call, text, pc>>

Returned == pc = "returned" /\ queue = <<>> /\ UNCHANGED vars

Next == AwaitRoom \/ WriteChar \/ AwaitAgain \/ Transmit \/ Returned
Spec == Init /\ [][Next]_vars

--------------------------------------------------------------------------------
(* What a directive must print, in the rules of the C standard's fprintf and *)
(* not in those of the code, and where ee_printf prints something else.     *)

Has(c, flag) == \E k \in DOMAIN c.flags : c.flags[k] = flag
LeftOf(c)  == Has(c, "-") \/ (c.star /\ c.width < 0)
WidthOf(c) == IF c.width = -1 /\ ~c.star THEN 0 ELSE IF c.width < 0 THEN -c.width ELSE c.width
IsSigned(c) == c.conv \in {"d", "i"}
BaseOf(c)   == CASE c.conv \in {"x", "X", "p"} -> 16 [] c.conv = "o" -> 8 [] OTHER -> 10
ZeroFlag(c) == Has(c, "0") /\ ~LeftOf(c)

\* ts in a field of blanks on one side.
InField(T, ts, c) ==
  LET pad == Most(WidthOf(c) - Len(ts), 0)
  IN  T = IF LeftOf(c) THEN ts \o Pad(pad, " ") ELSE Pad(pad, " ") \o ts

\* ds are digits of the value, in the letters of the conversion.
Reads(ds, value, c) ==
  LET dig == SubSeq(IF c.conv = "X" THEN upper_digits ELSE digits, 1, BaseOf(c))
  IN  /\ \A k \in DOMAIN ds : Contains(dig, ds[k])
      /\ value = FoldLeft(LAMBDA n, d : (n * BaseOf(c)) + (CHOOSE v \in DOMAIN dig : dig[v] = d) - 1, 0, ds)

\* head and digits of the value in a field, at least as many as least; filled
\* with zeros between them or not.  No digit is one too many.
IsNumber(T, head, least, filled, value, c) ==
  \E len \in 0 .. Len(T) :
    LET from == IF LeftOf(c) THEN Len(head) ELSE Len(T) - len
        ds   == SubSeq(T, from + 1, from + len)
    IN  /\ Len(head) <= from /\ from + len <= Len(T) /\ len >= least
        /\ Reads(ds, value, c) /\ InField(T, head \o ds, c)
        /\ len > least /\ ds[1] = "0" => filled /\ Len(T) = WidthOf(c)
        /\ filled => Len(T) = Len(head) + len

Num(c)   == IF IsSigned(c) THEN Signed(c.arg) ELSE Unsigned(c.arg)
Value(c) == IF Num(c) < 0 THEN -Num(c) ELSE Num(c)

\* How many digits a number has, none for zero.
Places(value, base) == Cardinality({k \in 0 .. Bits \div 3 : base^k <= value})

SignChar(c, neg) ==
  IF neg THEN <<"-">> ELSE IF Has(c, "+") THEN <<"+">> ELSE IF Has(c, " ") THEN <<" ">> ELSE <<>>
Sign(c) == IF IsSigned(c) THEN SignChar(c, Num(c) < 0) ELSE <<>>
Prefixed(c) == Has(c, "#") /\ BaseOf(c) = 16

\* C: # puts 0x or 0X before a number that is not zero, and raises the precision of an
\* octal one until its first digit is a zero, only if it is none; the flag 0 counts
\* for nothing beside a precision; no digit is as good as a zero.
C_Head(c)  == Sign(c) \o (IF Prefixed(c) /\ Value(c) # 0 THEN <<"0", c.conv>> ELSE <<>>)
C_Least(c) ==
  LET given == IF c.precision < 0 THEN 1 ELSE c.precision
  IN  IF Has(c, "#") /\ c.conv = "o" THEN Most(given, Places(Value(c), 8) + 1) ELSE given
C_Integer(T, c) == IsNumber(T, C_Head(c), C_Least(c), ZeroFlag(c) /\ c.precision < 0, Value(c), c)

\* C: the nearest number with so many places, of two the even one.
Shown(c)   == IF c.precision < 0 THEN 6 ELSE c.precision
Scaled(c)  == (c.arg.int * 10^Shown(c)) + ValueOf(SubSeq(c.arg.frac \o Pad(Shown(c), 0), 1, Shown(c)))
Behind(c)  == SubSeq(c.arg.frac, Shown(c) + 1, Len(c.arg.frac))
IsZero(ds) == \A k \in DOMAIN ds : ds[k] = 0
Tie(c)     == Behind(c) # <<>> /\ Behind(c)[1] = 5 /\ IsZero(Tail(Behind(c)))
Above(c)   == Behind(c) # <<>> /\ Behind(c)[1] >= 5 /\ ~Tie(c)

\* The number scaled to its places, with a point before them.
IsFraction(T, c, scaled) ==
  LET points  == {k \in DOMAIN T : T[k] = "."}
      pointed == IF Shown(c) > 0 \/ Has(c, "#") THEN 1 ELSE 0
      bare    == SelectSeq(T, LAMBDA ch : ch # ".")
      narrow  == [c EXCEPT !.width = Most(WidthOf(c) - pointed, 0), !.star = FALSE,
                           !.flags = IF LeftOf(c) THEN Append(@, "-") ELSE @]
  IN  /\ Cardinality(points) = pointed
      /\ \A k \in points : Len(SelectSeq(SubSeq(T, k + 1, Len(T)), is_digit)) = Shown(c)
      /\ IsNumber(bare, SignChar(c, c.arg.neg), Shown(c) + 1, ZeroFlag(c), scaled, narrow)
C_Fraction(T, c) ==
  IsFraction(T, c, Scaled(c) + (IF Above(c) \/ (Tie(c) /\ Scaled(c) % 2 = 1) THEN 1 ELSE 0))

IsIntegral(c) == c.conv \in {"d", "i", "u", "o", "x", "X"}

\* What C prints; the form of a pointer is the implementation's, and %a is an
\* address here, of the board's network.
C_Prints(T, c) ==
  CASE IsIntegral(c) -> C_Integer(T, c)
    [] c.conv = "f" -> C_Fraction(T, c)
    [] c.conv = "c" -> InField(T, <<c.arg>>, c)
    [] c.conv = "s" -> InField(T, IF c.precision >= 0 /\ c.precision < Len(c.arg)
                                  THEN SubSeq(c.arg, 1, c.precision) ELSE c.arg, c)
    [] c.conv = "p" -> IF c.width >= 0 THEN IsNumber(T, <<>>, 1, FALSE, Unsigned(c.arg), c)
                       ELSE IsNumber(T, <<>>, 1, ~LeftOf(c), Unsigned(c.arg),
                                     [c EXCEPT !.width = Bits \div 4])
    [] c.conv \in {"a", "A"} /\ ~c.long ->
         InField(T, Joined([k \in 1 .. 4 |-> Digits(c.arg[k])], "."), c)
    [] OTHER ->
         InField(T, Joined([k \in 1 .. 6 |-> Tail(InBase(256 + c.arg[k], 16,
                              IF c.conv = "A" THEN upper_digits ELSE digits))], ":"), c)

\* Where ee_printf does not print what C does: %#o writes its zero before a zero, too;
\* %#x prefixes zero, and %#X in small letters; the flag 0 fills with zeros beside a
\* precision; %.0d of zero is a digit; a tie goes up.
Departs(c) ==
  \/ /\ IsIntegral(c)
     /\ LET size == Len(C_Head(c)) + Most(C_Least(c), Places(Value(c), BaseOf(c)))
        IN  \/ Has(c, "#") /\ c.conv = "o" /\ Places(Value(c), 8) < c.precision
            \/ Has(c, "#") /\ c.conv = "o" /\ Value(c) = 0 /\ ~(ZeroFlag(c) /\ WidthOf(c) > 1)
            \/ Prefixed(c) /\ (Value(c) = 0 \/ c.conv = "X")
            \/ ZeroFlag(c) /\ c.precision >= 0 /\ WidthOf(c) > size
            \/ c.precision = 0 /\ Value(c) = 0
  \/ c.conv = "f" /\ Tie(c) /\ Scaled(c) % 2 = 0

\* Even there the number is told: sign, prefix and digits of the value, as many as C
\* has at least, fill the field; a tie is one of the two nearest.
Tells(T, c) ==
  IF c.conv = "f" THEN IsFraction(T, c, Scaled(c) + 1)
  ELSE \E len \in 1 .. Len(T) :
         LET head == Sign(c) \o (IF Prefixed(c) THEN <<"0", "x">> ELSE <<>>)
             from == IF LeftOf(c) THEN Len(head) ELSE Len(T) - len
             ds   == SubSeq(T, from + 1, from + len)
         IN  /\ Len(head) <= from /\ from + len <= Len(T) /\ len >= C_Least(c)
             /\ Reads(ds, Value(c), c) /\ InField(T, head \o ds, c)

\* What has left the UART, waits there and is still to be sent is together, in its
\* brackets, what C prints for the directive, save exactly where the code departs
\* from C; there it still tells the number.
Printed ==
  LET all == line \o queue \o text
      T   == SubSeq(all, 2, Len(all) - 1)
  IN  /\ all[1] = "[" /\ all[Len(all)] = "]"
      /\ IF Departs(call) THEN ~C_Prints(T, call) /\ Tells(T, call) ELSE C_Prints(T, call)
================================================================================
