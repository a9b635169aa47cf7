------------------------------ MODULE MCSoftware --------------------------------
(***************************************************************************)
(* A bench for the software of the repository: Init picks the unit under   *)
(* test, and only that unit runs.  "main", "vm" and "trap" are those of    *)
(* MCPrograms; "bench" is one context of CoreMark at work, "token" the     *)
(* reader of its state machine on every short text, "printf" its printing  *)
(* on a board, and "string" the string functions of the ISA tests.         *)
(***************************************************************************)
EXTENDS MCPrograms

CONSTANTS Bits, Depth,   \* EePrintf
          WordSize,      \* CString
          TextLen        \* bound: the texts given to the reader

VARIABLES params, s, res, bench, sort, i, first,
          word,
          printed, text, queue, line,
          called, bytes, at, result

--------------------------------------------------------------------------------
\* CoreMark's arguments: a decimal or a hexadecimal number.
Arg(ds) == [neg |-> FALSE, hex |-> FALSE, digits |-> ds, unit |-> ""]
Hex(ds) == [neg |-> FALSE, hex |-> TRUE, digits |-> ds, unit |-> ""]
None0   == Arg(<<0>>)
Command(argv, M, iters, data, rate) ==
  [argv |-> argv, M |-> M, iterations |-> iters, data |-> data, rate |-> rate, pointer |-> 4]

ThePorts == {linux, linux64, simple, arty_a7}

\* Machines of every speed that choose their iterations themselves; runs with known
\* seeds just below and just above ten seconds, of two and of three parameter sets;
\* no contexts at all; unknown seeds; a machine with longer pointers.
Chosen ==
  {Command(<<Arg(<<1>>), None0, None0>>, 1, 0, 2000, rate) :
     rate \in {30, 9990, 1099999, 1200000, 4200000}}
Given ==
  {Command(argv \o <<iters>>, -1, 100, 2000, 100000) :
     argv \in {<<None0, None0, None0>>, <<Hex(<<3,4,1,5>>), Hex(<<3,4,1,5>>), Arg(<<1,0,2>>)>>},
     iters \in {Arg(<<9>>), Arg(<<1,0,0>>)}}
TheCommands ==
  Chosen \cup Given
  \cup {Command(<<Arg(<<8>>), Arg(<<8>>), Arg(<<8>>), Arg(<<1,0,0>>)>>, -1, 100, 1200, 100000),
        Command(<<>>, 0, 0, 2000, 3000),
        Command(<<Arg(<<7>>), None0, None0, Arg(<<9,9>>)>>, -1, 500, 2000, 100000),
        [Command(<<>>, -1, 0, 2000, 3000) EXCEPT !.pointer = 8]}

\* The five sets whose checksums the program knows: 2000 bytes for one algorithm, or
\* shared by three, and the 1200 bytes of the profile run.
Parameter(seed, seed3, size, iters) ==
  [seed1 |-> seed, seed2 |-> seed, seed3 |-> seed3, size |-> size, iterations |-> iters]
TheParameters ==
  {Parameter(0, 102, 2000, 1), Parameter(13333, 102, 2000, 1), Parameter(8, 8, 400, 2),
   Parameter(0, 102, 666, 2), Parameter(13333, 102, 666, 2)}

Bench == INSTANCE CoreBench WITH Parameters <- TheParameters

--------------------------------------------------------------------------------
\* Directives: every flag with widths below and above the text, stars and negative
\* stars, precisions, and the values at the ends of the range.
Directive(fl, w, p, c, arg) ==
  [flags |-> fl, width |-> w.n, star |-> w.star, precision |-> p, conv |-> c, long |-> FALSE, arg |-> arg]
NoWidth  == [n |-> -1, star |-> FALSE]
Wide(n)  == [n |-> n, star |-> FALSE]
Star(n)  == [n |-> n, star |-> TRUE]

Integers == {Directive(fl, w, -1, c, arg) :
  fl \in {<<>>, <<"-">>, <<"0">>, <<"+">>, <<" ">>, <<"0", "+">>, <<"-", "0">>},
  w \in {NoWidth, Wide(6), Star(3), Star(-5)},
  c \in {"d", "i", "u", "x", "X", "o"}, arg \in {0, 1, -1, 1234, 32767, -32768}}
Precise == {Directive(fl, w, p, c, arg) :
  fl \in {<<>>, <<"-">>, <<"+">>, <<"0">>, <<"#">>, <<"#", "-">>, <<"#", "0">>}, w \in {NoWidth, Wide(7)},
  p \in {-1, 0, 1, 4}, c \in {"d", "u", "x", "X", "o"}, arg \in {0, 1, -1, 1234}}

\* Numbers a double holds exactly: ties above an even and above an odd digit, and
\* carries through all nines.
Fraction(neg, int, frac) == [neg |-> neg, int |-> int, frac |-> frac]
Fractions == {Directive(fl, w, p, "f", Fraction(neg, int, frac)) :
  fl \in {<<>>, <<"-">>, <<"0">>, <<"+">>, <<"#">>, <<"0", " ">>}, w \in {NoWidth, Wide(9)},
  p \in {-1, 0, 1, 3}, neg \in BOOLEAN, int \in {0, 9, 99, 123},
  frac \in {<<5>>, <<2,5>>, <<0,6,2,5>>, <<9,6,8,7,5>>, <<9,9,9,0,2,3,4,3,7,5>>, <<0,0,0,9,7,6,5,6,2,5>>}}

Texts == {Directive(fl, w, p, "s", t) : fl \in {<<>>, <<"-">>}, w \in {NoWidth, Wide(1), Wide(5)},
                                        p \in {-1, 0, 2}, t \in {<<>>, <<"a", "b", "c">>}}
Addresses ==
  {[Directive(fl, w, -1, c, a) EXCEPT !.long = Len(a) = 6] :
     fl \in {<<>>, <<"-">>}, w \in {NoWidth, Wide(20)}, c \in {"a", "A"},
     a \in {<<0, 9, 10, 255>>, <<0, 9, 10, 255, 171, 100>>}}
Pointers == {Directive(fl, w, -1, "p", a) : fl \in {<<>>, <<"-">>}, w \in {NoWidth, Wide(6)}, a \in {0, 255, 4660}}
Letters  == {Directive(fl, w, -1, "c", "z") : fl \in {<<>>, <<"-">>}, w \in {NoWidth, Wide(4)}}

Line     == Directive(<<>>, Wide(12), -1, "d", 32767)
TheCalls == <<Integers \cup Precise \cup Pointers \cup {Line}, Fractions, Texts, Addresses, Letters>>
TheLine  == <<"[", "%", "1", "2", "d", "]">>

Printf == INSTANCE EePrintf WITH Calls <- TheCalls, Lines <- {TheLine}, call <- printed

--------------------------------------------------------------------------------
\* Calls of the string functions: aligned and not, copies to where they do not
\* overlap, of every length to a word and a half, and texts that differ in their
\* first or last byte.
Request(fn, m, a, b, n) == [fn |-> fn, mem |-> m, a |-> a, b |-> b, n |-> n]
Eight == <<1, 2, 3, 4, 5, 6, 7, 8>>
Mems  == {m \in [1 .. 7 -> {0, 1, 200}] : m[7] = 0}
TheRequests == UNION {
  {Request("memcpy", Eight, ab[1], ab[2], n) : ab \in {<<0,4>>, <<4,0>>, <<1,5>>, <<0,3>>}, n \in 0 .. 3},
  {Request("memset", Eight, a, b, n) : a \in 0 .. 4, b \in {0, 300}, n \in 0 .. 4},
  {Request("memcmp", m, 0, b, 3) : m \in Mems, b \in {3, 4}},
  {Request("strcmp", m, 4, 0, 0) : m \in {m \in Mems : m[4] = 0}},
  {Request("strlen", m, a, 0, 0) : m \in Mems, a \in {0, 5}},
  {Request("strcpy", m, 4, 0, 0) : m \in {m \in Mems : m[3] = 0}},
  {Request("atol", SubSeq(<<32, 32>>, 1, blanks) \o sign \o ds \o <<0>>, 0, 0, 0) :
     blanks \in 0 .. 2, sign \in {<<>>, <<45>>, <<43>>}, ds \in {<<>>, <<48>>, <<49, 50>>, <<57, 48, 51>>}}}

Strings == INSTANCE CString WITH Word <- WordSize, Requests <- TheRequests,
                                 call <- called, mem <- bytes

--------------------------------------------------------------------------------
benchVars  == <<params, s, res, bench, sort, i, first>>
printVars  == <<printed, text, queue, line>>
stringVars == <<called, bytes, at, result>>
otherVars  == <<benchVars, word, printVars, stringVars>>
allVars    == <<programVars, otherVars>>

\* What the variables of the units not under test hold.
BenchIdle  == params = 0 /\ s = 0 /\ res = 0 /\ bench = 0 /\ sort = 0 /\ i = 0 /\ first = 0
TokenIdle  == word = 0
PrintIdle  == printed = 0 /\ text = 0 /\ queue = 0 /\ line = 0
StringIdle == called = 0 /\ bytes = 0 /\ at = 0 /\ result = 0

BenchInit ==
  \/ ProgramsInit /\ BenchIdle /\ TokenIdle /\ PrintIdle /\ StringIdle
  \/ /\ ProgramsIdle
     /\ \/ unit = "bench" /\ Bench!Init /\ TokenIdle /\ PrintIdle /\ StringIdle
        \/ unit = "token" /\ word = <<>> /\ pc = "token" /\ BenchIdle /\ PrintIdle /\ StringIdle
        \/ unit = "printf" /\ Printf!Init /\ BenchIdle /\ TokenIdle /\ StringIdle
        \/ unit = "string" /\ Strings!Init /\ BenchIdle /\ TokenIdle /\ PrintIdle

\* Every text over a digit, a sign, a point, an "e", a "T" and a comma, byte by byte.
Bytes == {53, 43, 46, 101, 84, Bench!Comma}
Lengthen ==
  IF Len(word) < TextLen THEN \E c \in Bytes : word' = Append(word, c) ELSE UNCHANGED word

Program(A) == A /\ UNCHANGED otherVars

BenchNext ==
  \/ Program(ProgramsNext)
  \/ /\ UNCHANGED <<unit, mainVars, vmVars, trapVars>>
     /\ \/ unit = "bench" /\ Bench!Next /\ UNCHANGED <<word, printVars, stringVars>>
        \/ unit = "token" /\ Lengthen /\ UNCHANGED <<pc, benchVars, printVars, stringVars>>
        \/ unit = "printf" /\ Printf!Next /\ UNCHANGED <<benchVars, word, stringVars>>
        \/ unit = "string" /\ Strings!Next /\ UNCHANGED <<benchVars, word, printVars>>

\* The fairness of CoreMain and of VmEnv.
BenchSpec ==
  /\ BenchInit /\ [][BenchNext]_allVars
  /\ WF_allVars(Program(MainOnly(Main)))
  /\ \A c \in Contexts : WF_allVars(Program(MainOnly(Context(c))))
  /\ WF_allVars(Program(VmOnly(Vm!Core)))

--------------------------------------------------------------------------------
\* core_bench_list with its sorts, searches and algorithms leaves the checksums the
\* main program knows (core_main.c:31-38).
KnownAnswers == unit = "bench" => Bench!KnownAnswers

\* Every call of core_bench_list finds the data as the first one did
\* (core_list_join.c:128-199, core_state.c:88-122, core_matrix.c:129-170).
Restored == unit = "bench" => Bench!Restored

\* What core_state_transition makes of a text is what the grammar of numbers says:
\* the reader stops behind the comma, behind the first byte with which no number
\* goes on, or at the end, in the state that tells what the token was so far
\* (core_state.c:160-256).
All(t, S) == \A k \in DOMAIN t : t[k] \in S
From(t, k) == SubSeq(t, k, Len(t))
Upto(t, k) == SubSeq(t, 1, k)
Digits == {c \in Bytes : Bench!ee_isdigit(c)}
Signs  == {c \in Bytes : Bench!IsSign(c)}
Unsigned(t) == IF t # <<>> /\ t[1] \in Signs THEN From(t, 2) ELSE t
IsInt(t)   == Unsigned(t) # <<>> /\ All(Unsigned(t), Digits)
IsFloat(t) == \E k \in DOMAIN t : /\ Bench!IsDot(t[k])
                                  /\ All(Unsigned(Upto(t, k - 1)), Digits) /\ All(From(t, k + 1), Digits)
IsHalf(t)  == t # <<>> /\ Bench!IsE(t[Len(t)]) /\ IsFloat(Upto(t, Len(t) - 1))
Kind(t) ==
  CASE t = <<>> -> "START"
    [] Len(t) = 1 /\ All(t, Signs) -> "S1"
    [] IsInt(t) -> "INT"
    [] IsFloat(t) -> "FLOAT"
    [] IsHalf(t) -> "S2"
    [] \E k \in DOMAIN t : IsHalf(Upto(t, k)) /\ From(t, k + 1) # <<>>
                           /\ t[k + 1] \in Signs /\ All(From(t, k + 2), Digits) ->
         IF t[Len(t)] \in Signs THEN "EXPONENT" ELSE "SCIENTIFIC"
    [] OTHER -> "INVALID"

TokensRight ==
  unit = "token" =>
    LET ends  == {k \in DOMAIN word : word[k] = Bench!Comma \/ Kind(Upto(word, k)) = "INVALID"}
        stop  == IF ends = {} THEN Len(word) ELSE CHOOSE k \in ends : \A l \in ends : k <= l
        token == SelectSeq(Upto(word, stop), LAMBDA c : c # Bench!Comma)
        block == [p \in 0 .. Len(word) |-> IF p < Len(word) THEN word[p + 1] ELSE 0]
        got   == Bench!core_state_transition(block, 0, Bench!Zeros)
    IN  got.state = Kind(token) /\ got.p = stop /\ got.inside

\* Whatever becomes of the contexts, the main program reaches its verdict, except
\* where a datagram is missing or a thread that never was is joined
\* (core_main.c:246-254, linux/core_portme.c:168-335).
VerdictReached == unit = "main" => Reports

\* What ee_printf sends is what fprintf of the C standard prints, but for the departures
\* of EePrintf!Departs, where it prints something else that still tells the number;
\* and none of it is lost on the way through the UART
\* (barebone-arty-a7/ee_printf.c, cvt.c).
Printed == unit = "printf" => Printf!Printed

\* A test in virtual memory comes to its end (isa-tests/env/v/vm.c:83-239).
AccessEnds == unit = "vm" => Vm!AccessEnds

\* The string functions of the environment do what the C library's do, by words or
\* by bytes (isa-tests/env/v/string.c).
StringsRight == unit = "string" => Strings!StringsRight
================================================================================
