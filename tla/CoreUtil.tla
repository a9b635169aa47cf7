------------------------------- MODULE CoreUtil --------------------------------
(***************************************************************************)
(* What the parts of CoreMark share (sw/coremark/): the checksum and the   *)
(* numbers of the command line (core_util.c), the seeds, parameter sets    *)
(* and expected results the main program knows (core_main.c), and what     *)
(* the core_portme.h and .c of a port decide for it: how time is taken,    *)
(* where the seeds come from and how contexts run side by side.  The three *)
(* hosted ports are alike; the port "barebones" is a template whose clock  *)
(* is an #error.                                                           *)
(*                                                                         *)
(* The recursive definitions are functions, whose arguments TLC evaluates  *)
(* at each application.  A moment is a number of microseconds.  The cycle  *)
(* counter of the Arty board counts 100 cycles in each, and is 32 bits     *)
(* wide.                                                                   *)
(***************************************************************************)
EXTENDS Integers, Sequences, FiniteSets, SequencesExt

\* Exclusive or and inclusive or of two naturals.
Xor[a \in Nat, b \in Nat] ==
  IF a = 0 THEN b ELSE IF b = 0 THEN a ELSE 2 * Xor[a \div 2, b \div 2] + ((a + b) % 2)
BitOr[a \in Nat, b \in Nat] ==
  IF a = 0 THEN b ELSE IF b = 0 THEN a
  ELSE 2 * BitOr[a \div 2, b \div 2] + (IF 1 \in {a % 2, b % 2} THEN 1 ELSE 0)

\* One bit of the data, lowest first, into the shift register.
CrcBits[n \in 0 .. 8, data \in Nat, crc \in Nat] ==
  IF n = 0 THEN crc
  ELSE CrcBits[n - 1, data \div 2,
         IF (data + crc) % 2 = 1 THEN BitOr[Xor[crc, 16386] \div 2, 32768] ELSE crc \div 2]

crcu8(data, crc) == CrcBits[8, data, crc]

\* Mutant: the high byte first.
crcu16_HighFirst(newval, crc) == crcu8(newval % 256, crcu8((newval \div 256) % 256, crc))

crcu16(newval, crc) == crcu8((newval \div 256) % 256, crcu8(newval % 256, crc))
crc16(newval, crc)  == crcu16(newval % 65536, crc)
crcu32(newval, crc) == crc16(newval \div 65536, crc16(newval, crc))

\* A number of the command line: sign, base, digits and a size letter.
parseval(arg) ==
  LET base   == IF arg.hex THEN 16 ELSE 10
      digits == FoldLeft(LAMBDA n, d : n * base + d, 0, arg.digits)
      scaled == CASE arg.unit = "K" -> digits * 1024
                  [] arg.unit = "M" -> digits * 1024 * 1024
                  [] OTHER -> digits
  IN  IF arg.neg THEN -scaled ELSE scaled

\* Arguments that are not given read as zero.
get_seed_args(i, argv) == IF i \in DOMAIN argv THEN parseval(argv[i]) ELSE 0

--------------------------------------------------------------------------------
list_known_crc   == <<54448, 13120, 27257, 59156, 58305>>
matrix_known_crc == <<48722, 4505, 22024, 8151, 1863>>
state_known_crc  == <<24135, 14783, 58788, 36410, 36228>>

\* No seeds: the performance run; seed 1 alone, 1: the validation run.
DefaultSeeds(p) ==
  CASE p = <<0, 0, 0>> -> <<0, 0, 102>>
    [] p = <<1, 0, 0>> -> <<13333, 13333, 102>>
    [] OTHER -> p

\* The share of the data an algorithm gets, of those that execs selects.
NumAlgorithms(execs) == Cardinality({k \in 0 .. 2 : (execs \div 2^k) % 2 = 1})
SizeEach(total, execs) == total \div NumAlgorithms(execs)

seedcrc(seeds, size) == crc16(size, crc16(seeds[3], crc16(seeds[2], crc16(seeds[1], 0))))

\* The recognised set, -1 for none.
known_id(seeds, size) ==
  LET crc == seedcrc(seeds, size)
  IN  CASE crc = 35330 -> 0
        [] crc = 31493 -> 1
        [] crc = 20143 -> 2
        [] crc = 59893 -> 3
        [] crc = 6386  -> 4
        [] OTHER -> -1

KnownCrcs(id) == <<list_known_crc[id + 1], matrix_known_crc[id + 1], state_known_crc[id + 1]>>

--------------------------------------------------------------------------------
\* ptr_int is the size of ee_ptr_int, which is to hold a pointer.
Parallel == {"single", "pthread", "fork", "socket"}
linux   == [clock |-> "timespec", seeds |-> "arguments", methods |-> Parallel, ptr_int |-> 4]
linux64 == [clock |-> "timespec", seeds |-> "arguments", methods |-> Parallel, ptr_int |-> 8]
cygwin  == [clock |-> "timespec", seeds |-> "arguments", methods |-> Parallel, ptr_int |-> 4]
simple  == [clock |-> "clock", seeds |-> "volatile", methods |-> {"single"}, ptr_int |-> 4]
arty_a7 == [clock |-> "cycles", seeds |-> "volatile", methods |-> {"single"}, ptr_int |-> 4]

\* The errors of the types on a machine with such pointers.
check_data_types(port, pointer) == IF port.ptr_int = pointer THEN 0 ELSE 1

\* The run a build is for, by the size of its data, and the seeds of such a run.
RunOf(size) == CASE size = 1200 -> "profile" [] size = 2000 -> "performance" [] OTHER -> "validation"
VolatileSeeds(run) ==
  CASE run = "validation"  -> <<13333, 13333, 102>>
    [] run = "performance" -> <<0, 0, 102>>
    [] run = "profile"     -> <<8, 8, 8>>

\* Three seeds, the iterations and the selection of algorithms: the arguments, or
\* what the build has put in.
get_seed_32(port, i, argv, size, iterations) ==
  IF port.seeds = "arguments" THEN get_seed_args(i, argv)
  ELSE CASE i \in 1 .. 3 -> VolatileSeeds(RunOf(size))[i]
         [] i = 4 -> iterations
         [] OTHER -> 0

--------------------------------------------------------------------------------
\* Seconds and nanoseconds, here microseconds; the difference in milliseconds,
\* the second part rounded towards zero.
Second == 1000000
GETMYTIME(now) == [sec |-> now \div Second, usec |-> now % Second]
Quot(a, b) == IF a >= 0 THEN a \div b ELSE -((-a) \div b)

\* Mutant: the nanoseconds are taken as if the stop had the larger ones.
MYTIMEDIFF_Abs(fin, ini) ==
  (fin.sec - ini.sec) * 1000
  + Quot(IF fin.usec >= ini.usec THEN fin.usec - ini.usec ELSE ini.usec - fin.usec, 1000)

MYTIMEDIFF(fin, ini) == (fin.sec - ini.sec) * 1000 + Quot(fin.usec - ini.usec, 1000)

\* clock(), and the cycle counter with its overflow.
Wrap == 42949673
simple_clock(fin, ini) == fin - ini
arty_clock(fin, ini)   == ((fin % Wrap) - (ini % Wrap)) % Wrap

get_time(port, start, stop) ==
  CASE port.clock = "timespec" -> MYTIMEDIFF(GETMYTIME(stop), GETMYTIME(start))
    [] port.clock = "clock"    -> simple_clock(stop, start)
    [] port.clock = "cycles"   -> arty_clock(stop, start)

EE_TICKS_PER_SEC(port) == IF port.clock = "timespec" THEN 1000 ELSE Second

\* Whole seconds: the main program compares with 1 and 10, and cuts a fraction off.
time_in_secs(port, ticks) == ticks \div EE_TICKS_PER_SEC(port)
================================================================================
