--------------------------------- MODULE UartTx ---------------------------------
(***************************************************************************)
(* rtl/perips/sirv_uarttx.v: the transmitter of the UART.  It takes a byte *)
(* when it is enabled and idle, and shifts out a start bit, the byte and   *)
(* one or two stop bits, each for io_div + 1 cycles.                       *)
(***************************************************************************)
EXTENDS Naturals, Sequences

VARIABLES
  prescaler,  \* cycles left of this bit
  counter,    \* bits left of this frame
  shifter, out

vars == <<prescaler, counter, shifter, out>>

Bits == {0, 1}
WIDTH == 8

pulse == prescaler = 0
busy == counter # 0
next_bit == pulse /\ busy

io_in_ready(io_en) == io_en /\ ~busy
starts(io_en, io_in_valid) == io_in_ready(io_en) /\ io_in_valid

frame(io_nstop) == IF io_nstop THEN 11 ELSE 10

loaded(byte) == <<0>> \o byte

Init ==
  /\ prescaler = 0 /\ counter = 0
  /\ shifter = [n \in 1 .. WIDTH + 1 |-> 0] /\ out = 1

\* One rising edge of the clock.
Cycle(io_en, io_in_valid, io_in_bits, io_div, io_nstop) ==
  /\ prescaler' = IF ~busy THEN prescaler ELSE IF pulse THEN io_div ELSE prescaler - 1
  /\ counter' = IF next_bit THEN counter - 1
                ELSE IF starts(io_en, io_in_valid) THEN frame(io_nstop) ELSE counter
  /\ shifter' = IF next_bit THEN Append(Tail(shifter), 1)
                ELSE IF starts(io_en, io_in_valid) THEN loaded(io_in_bits) ELSE shifter
  /\ out' = IF next_bit THEN Head(shifter) ELSE out

================================================================================
