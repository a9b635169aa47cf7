-------------------------------- MODULE SpiModel --------------------------------
(***************************************************************************)
(* verilator/spi_model.sv: the flash on the pins.  It takes the command    *)
(* and the address on one lane and then shifts out its memory from that    *)
(* address on, on the lanes of the command; command ff returns what was    *)
(* received.  It samples on the rising edge of SCK and drives on the       *)
(* falling one.  cnt_bit and cnt_byte stop counting at what is told apart. *)
(***************************************************************************)
EXTENDS Naturals

CONSTANT Memory   \* a function: the bytes from address 0

VARIABLES cnt_bit, cnt_byte, buffer_in, buffer_out, cmd, addr_base, addr_offset,
          xfer_type, xfer_mode

vars == <<cnt_bit, cnt_byte, buffer_in, buffer_out, cmd, addr_base, addr_offset,
          xfer_type, xfer_mode>>

LOOP == 255
READ == 3
FAST_READ_S == 11
FAST_READ_D == 59
FAST_READ_Q == 107
Reads == {READ, FAST_READ_S, FAST_READ_D, FAST_READ_Q}

mode_of(command) ==
  CASE command = FAST_READ_D -> 1 [] command = FAST_READ_Q -> 2 [] OTHER -> 0

--------------------------------------------------------------------------------
bits_of_byte == 8 \div 2 ^ xfer_mode
last_bit == cnt_bit % bits_of_byte = bits_of_byte - 1
buffer_in_comb(dq) == ((2 * buffer_in) % 256) + (dq % 2)

\* The pins driven, and what on.
dq_driven ==
  IF xfer_type # "DATA_OUT" THEN {}
  ELSE CASE xfer_mode = 0 -> {1} [] xfer_mode = 1 -> {0, 1} [] xfer_mode = 2 -> 0 .. 3
dq_o ==
  CASE xfer_mode = 0 -> 2 * (buffer_out \div 128)
    [] xfer_mode = 1 -> buffer_out \div 64
    [] xfer_mode = 2 -> buffer_out \div 16

Init ==
  /\ cnt_bit = 0 /\ cnt_byte = 0 /\ buffer_in = 0 /\ buffer_out = 0
  /\ cmd = LOOP /\ addr_base = 0 /\ addr_offset = 0
  /\ xfer_type = "CMD" /\ xfer_mode = 0

\* SCK rises: a bit comes in, and with the last one a byte of the header.
Rise(dq) ==
  /\ cnt_bit' = (cnt_bit % 8) + 1
  /\ cnt_byte' = IF last_bit /\ cnt_byte < 5 THEN cnt_byte + 1 ELSE cnt_byte
  /\ buffer_in' = buffer_in_comb(dq)
  /\ cmd' = IF last_bit /\ cnt_byte = 0 THEN buffer_in_comb(dq) ELSE cmd
  /\ addr_base' = IF last_bit /\ cnt_byte \in 1 .. 3
                  THEN ((addr_base % 65536) * 256) + buffer_in_comb(dq) ELSE addr_base
  /\ UNCHANGED <<buffer_out, addr_offset, xfer_type, xfer_mode>>

\* SCK falls: the next bit goes out, or the first one of the next byte.
Serve(addr) == buffer_out' = IF addr \in DOMAIN Memory THEN Memory[addr] ELSE 0
NextByte ==
  \/ /\ cmd = LOOP
     /\ buffer_out' = buffer_in /\ xfer_type' = "DATA_OUT"
     /\ UNCHANGED <<addr_offset, xfer_mode>>
  \/ /\ cmd \in Reads /\ cnt_byte <= 3
     /\ xfer_type' = "ADDR"
     /\ UNCHANGED <<buffer_out, addr_offset, xfer_mode>>
  \/ /\ cmd \in Reads /\ cnt_byte > 3
     /\ xfer_type' = "DATA_OUT" /\ xfer_mode' = mode_of(cmd)
     /\ addr_offset' = IF cnt_byte = 4 THEN 0 ELSE addr_offset + 1
     /\ Serve(IF cnt_byte = 4 THEN addr_base ELSE addr_base + addr_offset + 1)
Shift ==
  /\ buffer_out' = (buffer_out * 2 ^ (2 ^ xfer_mode)) % 256
  /\ UNCHANGED <<addr_offset, xfer_type, xfer_mode>>
Fall ==
  /\ IF cnt_bit > 0 /\ cnt_bit % bits_of_byte = 0 /\ cmd \in Reads \cup {LOOP}
     THEN NextByte ELSE Shift
  /\ UNCHANGED <<cnt_bit, cnt_byte, buffer_in, cmd, addr_base>>

Deselect ==
  /\ cnt_bit' = 0 /\ cnt_byte' = 0 /\ buffer_out' = 0 /\ addr_offset' = 0
  /\ xfer_mode' = 0 /\ xfer_type' = "CMD"
  /\ UNCHANGED <<buffer_in, cmd, addr_base>>

\* What the pins do between two edges of the controller's clock.
Cycle(sck, sck_nxt, cs_n, dq) ==
  IF cs_n THEN Deselect
  ELSE IF ~sck /\ sck_nxt THEN Rise(dq)
  ELSE IF sck /\ ~sck_nxt THEN Fall
  ELSE UNCHANGED vars

================================================================================
