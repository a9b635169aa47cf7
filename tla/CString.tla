--------------------------------- MODULE CString ---------------------------------
(***************************************************************************)
(* The string functions of the virtual-memory test environment,            *)
(* isa-tests/env/v/string.c, one turn of a loop per step.  Where all the   *)
(* addresses and the length are multiples of a word, memory is handled by  *)
(* words.  A byte is a number; the memory is a sequence of them.           *)
(***************************************************************************)
EXTENDS Integers, Sequences, FiniteSetsExt

CONSTANTS Word,      \* bytes of a word
          Requests   \* [fn, mem, a, b, n]: the function, the memory it is called in and its
                     \* arguments: two addresses, or an address and a byte; and a length

VARIABLES call, mem, at, result, pc
vars == <<call, mem, at, result, pc>>

Init ==
  /\ call \in Requests
  /\ mem = call.mem
  /\ at = 0 /\ result = 0 /\ pc = "loop"

Aligned(ns) == \A n \in ns : n % Word = 0
Byte(addr)  == mem[addr + 1]

\* mem with the bytes from addr on replaced.
Put(addr, bytes) ==
  [k \in DOMAIN mem |-> IF k - addr \in DOMAIN bytes THEN bytes[k - addr] ELSE mem[k]]

Return(value) ==
  /\ pc' = "returned" /\ result' = value
  /\ UNCHANGED <<call, mem, at>>

Goes(by) == at' = at + by /\ UNCHANGED <<call, pc>>

memcpy ==
  /\ pc = "loop" /\ call.fn = "memcpy"
  /\ LET unit == IF Aligned({call.a, call.b, call.n}) THEN Word ELSE 1
     IN  IF at < call.n
         THEN /\ mem' = Put(call.a + at, SubSeq(mem, call.b + at + 1, call.b + at + unit))
              /\ Goes(unit) /\ UNCHANGED result
         ELSE Return(call.a)

memset ==
  /\ pc = "loop" /\ call.fn = "memset"
  /\ LET unit == IF Aligned({call.a, call.n}) THEN Word ELSE 1
     IN  IF at < call.n
         THEN /\ mem' = Put(call.a + at, [k \in 1 .. unit |-> call.b % 256])
              /\ Goes(unit) /\ UNCHANGED result
         ELSE Return(call.a)

strlen ==
  /\ pc = "loop" /\ call.fn = "strlen"
  /\ IF Byte(call.a + at) # 0 THEN Goes(1) /\ UNCHANGED <<mem, result>> ELSE Return(at)

strcmp ==
  /\ pc = "loop" /\ call.fn = "strcmp"
  /\ LET c1 == Byte(call.a + at)
         c2 == Byte(call.b + at)
     IN  IF c1 # 0 /\ c1 = c2 THEN Goes(1) /\ UNCHANGED <<mem, result>> ELSE Return(c1 - c2)

\* Words while they are whole and equal, then bytes.
\* Mutant: the bytes behind the last whole word are not compared.
memcmp_NoTail ==
  /\ pc = "loop" /\ call.fn = "memcmp"
  /\ LET whole == Aligned({call.a, call.b}) /\ at % Word = 0 /\ at + Word <= call.n
         same(k) == Byte(call.a + at + k) = Byte(call.b + at + k)
     IN  IF whole /\ (\A k \in 0 .. Word - 1 : same(k))
         THEN Goes(Word) /\ UNCHANGED <<mem, result>>
         ELSE IF at >= call.n \/ (Aligned({call.a, call.b}) /\ ~whole) THEN Return(0)
         ELSE IF same(0) THEN Goes(1) /\ UNCHANGED <<mem, result>>
         ELSE Return(Byte(call.a + at) - Byte(call.b + at))

memcmp ==
  /\ pc = "loop" /\ call.fn = "memcmp"
  /\ LET whole == Aligned({call.a, call.b}) /\ at % Word = 0 /\ at + Word <= call.n
         same(k) == Byte(call.a + at + k) = Byte(call.b + at + k)
     IN  IF whole /\ (\A k \in 0 .. Word - 1 : same(k))
         THEN Goes(Word) /\ UNCHANGED <<mem, result>>
         ELSE IF at >= call.n THEN Return(0)
         ELSE IF same(0) THEN Goes(1) /\ UNCHANGED <<mem, result>>
         ELSE Return(Byte(call.a + at) - Byte(call.b + at))

\* The terminating zero is copied too.
strcpy ==
  /\ pc = "loop" /\ call.fn = "strcpy"
  /\ IF at > 0 /\ Byte(call.b + at - 1) = 0 THEN Return(call.a)
     ELSE /\ mem' = Put(call.a + at, <<Byte(call.b + at)>>)
          /\ Goes(1) /\ UNCHANGED result

\* Blanks, a sign, and digits to the end; the sign is applied to the result.
Blank == 32
Minus == 45
Plus  == 43
Zero  == 48
\* Where the sign or the first digit is.
Start == CHOOSE n \in call.a .. Len(mem) - 1 :
           Byte(n) # Blank /\ \A k \in call.a .. n - 1 : Byte(k) = Blank

atol ==
  /\ call.fn = "atol"
  /\ \/ /\ pc = "loop"
        /\ at' = Start + (IF Byte(Start) \in {Minus, Plus} THEN 1 ELSE 0)
        /\ pc' = "digits"
        /\ UNCHANGED <<call, mem, result>>
     \/ /\ pc = "digits" /\ Byte(at) # 0
        /\ result' = 10 * result + Byte(at) - Zero
        /\ Goes(1) /\ UNCHANGED mem
     \/ /\ pc = "digits" /\ Byte(at) = 0
        /\ Return(IF Byte(Start) = Minus THEN -result ELSE result)

Returned == pc = "returned" /\ UNCHANGED vars
Next == memcpy \/ memset \/ strlen \/ strcmp \/ memcmp \/ strcpy \/ atol \/ Returned
Spec == Init /\ [][Next]_vars

--------------------------------------------------------------------------------
\* What the C library says of each.

\* The first of the offsets where something holds.
First(ks) == CHOOSE k \in ks : \A j \in ks : k <= j
Was(addr) == call.mem[addr + 1]
Length(addr) == First({k \in 0 .. Len(call.mem) - 1 - addr : Was(addr + k) = 0})

\* Memory is as it was, but for n bytes from addr on, which are these.
Only(addr, n, byte(_)) ==
  \A k \in 0 .. Len(mem) - 1 : Byte(k) = IF k \in addr .. addr + n - 1 THEN byte(k - addr) ELSE Was(k)

Difference(a, b, ks) ==
  LET apart == {k \in ks : Was(a + k) # Was(b + k)}
  IN  IF apart = {} THEN 0 ELSE Was(a + First(apart)) - Was(b + First(apart))

NumberAt(from) ==
  LET len == Length(from)
  IN  MapThenSumSet(LAMBDA k : (Was(from + k) - Zero) * 10^(len - 1 - k), 0 .. len - 1)

\* Each function does to the memory what the C library says, whatever the
\* alignment, nothing else, and returns what it says.
StringsRight ==
  pc = "returned" =>
    LET a == call.a
        b == call.b
        source(k) == Was(b + k)
        filled(k) == b % 256
        kept(k)   == Was(k)
    IN  CASE call.fn = "memcpy" -> Only(a, call.n, source) /\ result = a
          [] call.fn = "memset" -> Only(a, call.n, filled) /\ result = a
          [] call.fn = "strcpy" -> Only(a, Length(b) + 1, source) /\ result = a
          [] call.fn = "strlen" -> Only(0, 0, kept) /\ result = Length(a)
          [] call.fn = "strcmp" -> Only(0, 0, kept) /\ result = Difference(a, b, 0 .. Min({Length(a), Length(b)}))
          [] call.fn = "memcmp" -> Only(0, 0, kept) /\ result = Difference(a, b, 0 .. call.n - 1)
          [] call.fn = "atol" ->
               /\ Only(0, 0, kept)
               /\ result = IF Was(Start) = Minus THEN -NumberAt(Start + 1)
                           ELSE NumberAt(IF Was(Start) = Plus THEN Start + 1 ELSE Start)
================================================================================
